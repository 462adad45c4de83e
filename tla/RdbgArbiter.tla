---------------------------- MODULE RdbgArbiter ----------------------------
(***************************************************************************)
(* The execution arbiter of onec_runtime/execution/arbiter.py: one mailbox *)
(* (a Condition) and one worker thread own the only RDBG debugger session. *)
(*                                                                         *)
(* Every action that the code runs under the mailbox is one step.  What a  *)
(* plan does on the worker outside the mailbox is an arbitrary sequence of *)
(* SessionPort operations, each split into the admission callback          *)
(* (_transport_entered), the send and the outcome, so that Stop, submit,   *)
(* heartbeat, reconcile and close can run between any two of them.         *)
(*                                                                         *)
(* remote, alive and kills are ground truth that no line of the program    *)
(* reads: whose work the 1C target still executes, whether the target      *)
(* exists, and how often its termination was requested for a ticket.       *)
(***************************************************************************)
EXTENDS Naturals, Sequences, SequencesExt, FiniteSets

CONSTANTS
    Tickets,    \* the supply of ExecutionTicket identities
    NoTicket,   \* Python's None where a ticket is expected
    Backend,    \* the target the session has selected: see ExactStopTarget
    MaxRoute,   \* bound: the last route epoch
    Policies    \* bound: may submitted tickets carry a policy finalizer?

ASSUME NoTicketAssumption == NoTicket \notin Tickets
ASSUME BackendAssumption == Backend \in {"server", "file", "unmatched"}
ASSUME MaxRouteAssumption == MaxRoute \in Nat
ASSUME PoliciesAssumption == Policies \subseteq BOOLEAN

VARIABLES
    \* ExecutionTicket: written when the ticket is created
    kind,            \* "user", "heartbeat", "cleanup" (first try) or "retry"
    parent,          \* _post_settlement_parent
    finalizer,       \* is there a policy finalizer?
    ticketRoute,     \* _route
    \* ExecutionTicket: its life
    phase, ready, result, finalizerStarted, registered, child,
    \* ExecutionTicket: evidence of remote work (_entered, _ever_entered,
    \* _pending, _pending_stop, _stop_target, _effect_target)
    entered, everEntered, pending, pendingStop, stopTarget, effectTarget,
    \* ExecutionTicket: Stop
    stopRequested, stopBlocked, terminationAttempted,
    \* RdbgArbiter
    queue, active, idleHeartbeat, cleanupDebt, route,
    reconciliation, teardown, requestTermination,
    closing, closed, terminated,
    \* locals of the worker thread
    worker, op, reconciling, verdict, nextRoute, previouslyEntered,
    \* a thread inside close()
    closer, closeOn,
    \* ground truth
    remote, alive, kills

identityVars == <<kind, parent, finalizer, ticketRoute>>
replyVars == <<finalizerStarted, registered, child>>
lifeVars == <<phase, ready, result>>
evidenceVars == <<entered, everEntered, pending, pendingStop, stopTarget, effectTarget>>
stopVars == <<stopRequested, stopBlocked, terminationAttempted>>
ownerVars == <<queue, active, idleHeartbeat, cleanupDebt, route>>
teardownVars == <<teardown, requestTermination>>
gateVars == <<closing, closed, terminated>>
workerVars == <<worker, op, reconciling, verdict, nextRoute, previouslyEntered>>
closerVars == <<closer, closeOn>>
truthVars == <<remote, alive, kills>>

vars == <<identityVars, replyVars, lifeVars, evidenceVars, stopVars, ownerVars,
          reconciliation, teardownVars, gateVars, workerVars, closerVars, truthVars>>

-----------------------------------------------------------------------------

Kinds == {"user", "heartbeat", "cleanup", "retry"}
Phases == {"new", "queued", "running", "unknown", "reconciling", "settled"}
Results == {"none", "value", "failure", "error", "cancelled", "stale", "terminated"}
Ops == {"none", "request", "start", "continue", "resume", "await", "waitStop"}
WorkerStates == {"idle", "plan", "dispatch", "transport", "unwind",
                 "policy", "verdict", "probe", "exited"}

Maybe == Tickets \cup {NoTicket}

TypeOK ==
    /\ kind \in [Tickets -> Kinds]
    /\ parent \in [Tickets -> Maybe]
    /\ finalizer \in [Tickets -> BOOLEAN]
    /\ ticketRoute \in [Tickets -> 0..MaxRoute]
    /\ phase \in [Tickets -> Phases]
    /\ ready \in [Tickets -> BOOLEAN]
    /\ result \in [Tickets -> Results]
    /\ finalizerStarted \in [Tickets -> BOOLEAN]
    /\ registered \in [Tickets -> BOOLEAN]
    /\ child \in [Tickets -> Maybe]
    /\ entered \in [Tickets -> BOOLEAN]
    /\ everEntered \in [Tickets -> BOOLEAN]
    /\ pending \in [Tickets -> BOOLEAN]
    /\ pendingStop \in [Tickets -> BOOLEAN]
    /\ stopTarget \in [Tickets -> BOOLEAN]
    /\ effectTarget \in [Tickets -> BOOLEAN]
    /\ stopRequested \in [Tickets -> BOOLEAN]
    /\ stopBlocked \in [Tickets -> BOOLEAN]
    /\ terminationAttempted \in [Tickets -> BOOLEAN]
    /\ queue \in Seq(Tickets)
    /\ active \in Maybe
    /\ idleHeartbeat \in Maybe
    /\ cleanupDebt \in Maybe
    /\ route \in 0..MaxRoute
    /\ reconciliation \in BOOLEAN
    /\ teardown \in Maybe
    /\ requestTermination \in BOOLEAN
    /\ closing \in BOOLEAN
    /\ closed \in BOOLEAN
    /\ terminated \in BOOLEAN
    /\ worker \in WorkerStates
    /\ op \in Ops
    /\ reconciling \in BOOLEAN
    /\ verdict \in {"none", "value", "failure", "plain", "unknown"}
    /\ nextRoute \in 0..MaxRoute
    /\ previouslyEntered \in BOOLEAN
    /\ closer \in {"out", "waitActive", "waitQueue", "join"}
    /\ closeOn \in Maybe
    /\ remote \in Maybe
    /\ alive \in BOOLEAN
    /\ kills \in [Tickets -> Nat]

Init ==
    /\ kind = [t \in Tickets |-> "user"]
    /\ parent = [t \in Tickets |-> NoTicket]
    /\ finalizer = [t \in Tickets |-> FALSE]
    /\ ticketRoute = [t \in Tickets |-> 0]
    /\ phase = [t \in Tickets |-> "new"]
    /\ ready = [t \in Tickets |-> FALSE]
    /\ result = [t \in Tickets |-> "none"]
    /\ finalizerStarted = [t \in Tickets |-> FALSE]
    /\ registered = [t \in Tickets |-> FALSE]
    /\ child = [t \in Tickets |-> NoTicket]
    /\ entered = [t \in Tickets |-> FALSE]
    /\ everEntered = [t \in Tickets |-> FALSE]
    /\ pending = [t \in Tickets |-> FALSE]
    /\ pendingStop = [t \in Tickets |-> FALSE]
    /\ stopTarget = [t \in Tickets |-> FALSE]
    /\ effectTarget = [t \in Tickets |-> FALSE]
    /\ stopRequested = [t \in Tickets |-> FALSE]
    /\ stopBlocked = [t \in Tickets |-> FALSE]
    /\ terminationAttempted = [t \in Tickets |-> FALSE]
    /\ queue = <<>>
    /\ active = NoTicket
    /\ idleHeartbeat = NoTicket
    /\ cleanupDebt = NoTicket
    /\ route = 0
    /\ reconciliation = FALSE
    /\ teardown = NoTicket
    /\ requestTermination = FALSE
    /\ closing = FALSE
    /\ closed = FALSE
    /\ terminated = FALSE
    /\ worker = "idle"
    /\ op = "none"
    /\ reconciling = FALSE
    /\ verdict = "none"
    /\ nextRoute = 0
    /\ previouslyEntered = FALSE
    /\ closer = "out"
    /\ closeOn = NoTicket
    /\ remote = NoTicket
    /\ alive = TRUE
    /\ kills = [t \in Tickets |-> 0]

-----------------------------------------------------------------------------
(* Shared parts of the handlers.                                           *)

\* The test of _require_idle, of the settlement check and of the unknown branch.
Outstanding(t) == pending[t] \/ stopTarget[t] \/ entered[t]

MutantStopIgnoresEffectTarget(t) ==
    (pending[t] \/ stopTarget[t]) /\ Backend \in {"server", "file"}

\* The expected target of a Stop is the one of the pending evaluation, of the
\* outstanding Continue or of the last transport entry; it must be the selected
\* target and of the kind the backend can terminate ("unmatched": it never is).
ExactStopTarget(t) ==
    /\ pending[t] \/ stopTarget[t] \/ effectTarget[t]
    /\ Backend \in {"server", "file"}

\* _settle for every ticket of S.
SettleAll(S, r) ==
    /\ phase' = [t \in Tickets |-> IF t \in S THEN "settled" ELSE phase[t]]
    /\ result' = [t \in Tickets |-> IF t \in S THEN r ELSE result[t]]

Queued == ToSet(queue)
Fresh == {t \in Tickets : phase[t] = "new"}

\* Bound: a submission leaves one identity for the cleanup the active plan owes.
SpareTicket(t) ==
    /\ t \in Fresh
    /\ (active # NoTicket /\ registered[active]) => Fresh # {t}

\* _schedule_auto_stop_locked.  stopping and unknown are the values the caller
\* has just given to _stop_requested and _phase.
ScheduleAutoStop(t, stopping, unknown) ==
    IF /\ stopping /\ unknown /\ active = t
       /\ ~reconciliation /\ teardown = NoTicket
       /\ ExactStopTarget(t)
    THEN /\ teardown' = t
         /\ requestTermination' = ~terminationAttempted[t]
         /\ terminationAttempted' = [terminationAttempted EXCEPT ![t] = TRUE]
    ELSE UNCHANGED <<teardownVars, terminationAttempted>>

-----------------------------------------------------------------------------
(* Callers of the arbiter.                                                 *)

\* submit(): a stale caller route raises before anything changes, so the route
\* of an admitted ticket is the current one.  receipt.adopt may fail: then the
\* ticket is retired again before the mailbox is released.
Submit(t) ==
    /\ SpareTicket(t)
    /\ ~closed /\ ~closing
    /\ active # NoTicket => ~stopRequested[active]
    /\ \E f \in Policies : finalizer' = [finalizer EXCEPT ![t] = f]
    /\ ticketRoute' = [ticketRoute EXCEPT ![t] = route]
    /\ \/ /\ queue' = Append(queue, t)
          /\ phase' = [phase EXCEPT ![t] = "queued"]
          /\ UNCHANGED result
       \/ /\ SettleAll({t}, "cancelled")
          /\ UNCHANGED queue
    /\ UNCHANGED <<kind, parent, replyVars, ready, evidenceVars, stopVars, active,
                   idleHeartbeat, cleanupDebt, route, reconciliation, teardownVars,
                   gateVars, workerVars, closerVars, truthVars>>

\* dispatch(): the submitting layer has published the ticket.
Dispatch(t) ==
    /\ phase[t] = "queued" /\ ~ready[t]
    /\ ready' = [ready EXCEPT ![t] = TRUE]
    /\ UNCHANGED <<identityVars, replyVars, phase, result, evidenceVars, stopVars,
                   ownerVars, reconciliation, teardownVars, gateVars, workerVars,
                   closerVars, truthVars>>

\* try_heartbeat(): admitted only when nothing is active or queued.
TryHeartbeat(t) ==
    /\ SpareTicket(t)
    /\ ~closed /\ ~closing
    /\ active = NoTicket /\ queue = <<>>
    /\ ~reconciliation /\ teardown = NoTicket
    /\ kind' = [kind EXCEPT ![t] = "heartbeat"]
    /\ ticketRoute' = [ticketRoute EXCEPT ![t] = route]
    /\ phase' = [phase EXCEPT ![t] = "queued"]
    /\ ready' = [ready EXCEPT ![t] = TRUE]
    /\ queue' = <<t>>
    /\ idleHeartbeat' = t
    /\ UNCHANGED <<parent, finalizer, replyVars, result, evidenceVars, stopVars,
                   active, cleanupDebt, route, reconciliation, teardownVars,
                   gateVars, workerVars, closerVars, truthVars>>

MutantCancelLeavesQueue(i) ==
    LET t == queue[i] IN
    /\ phase[t] = "queued"
    /\ kind[t] \in {"user", "retry"}
    /\ SettleAll({t}, "cancelled")
    /\ UNCHANGED <<identityVars, replyVars, ready, evidenceVars, stopVars, ownerVars,
                   reconciliation, teardownVars, gateVars, workerVars, closerVars, truthVars>>

\* cancel_queued(), and request_stop() of a ticket that is still queued.  Callers
\* hold only the tickets that submit() and retry_post_settlement_cleanup() returned.
CancelQueued(i) ==
    LET t == queue[i] IN
    /\ phase[t] = "queued"
    /\ kind[t] \in {"user", "retry"}
    /\ queue' = RemoveAt(queue, i)
    /\ SettleAll({t}, "cancelled")
    /\ UNCHANGED <<identityVars, replyVars, ready, evidenceVars, stopVars, active,
                   idleHeartbeat, cleanupDebt, route, reconciliation, teardownVars,
                   gateVars, workerVars, closerVars, truthVars>>

\* request_stop() of the active ticket: the first request fences the ticket and
\* cancels everything that is queued; each one may schedule a termination attempt.
RequestStop(t) ==
    /\ active = t
    /\ kind[t] \in {"user", "retry"}
    /\ phase[t] \in {"running", "unknown", "reconciling"}
    /\ stopRequested' = [stopRequested EXCEPT ![t] = TRUE]
    /\ IF stopRequested[t]
       THEN UNCHANGED <<queue, phase, result>>
       ELSE queue' = <<>> /\ SettleAll(Queued, "cancelled")
    /\ ScheduleAutoStop(t, TRUE, phase[t] = "unknown")
    /\ UNCHANGED <<identityVars, replyVars, ready, evidenceVars, stopBlocked, active,
                   idleHeartbeat, cleanupDebt, route, reconciliation, gateVars,
                   workerVars, closerVars, truthVars>>

MutantReconcilesDuringTeardown(t) ==
    /\ active = t
    /\ kind[t] = "user"
    /\ phase[t] = "unknown"
    /\ ~reconciliation
    /\ reconciliation' = TRUE
    /\ phase' = [phase EXCEPT ![t] = "reconciling"]
    /\ UNCHANGED <<identityVars, replyVars, ready, result, evidenceVars, stopVars,
                   ownerVars, teardownVars, gateVars, workerVars, closerVars, truthVars>>

\* reconcile(): only the controller's own (user) operations are reconciled.
Reconcile(t) ==
    /\ active = t
    /\ kind[t] = "user"
    /\ phase[t] = "unknown"
    /\ ~reconciliation /\ teardown = NoTicket
    /\ reconciliation' = TRUE
    /\ phase' = [phase EXCEPT ![t] = "reconciling"]
    /\ UNCHANGED <<identityVars, replyVars, ready, result, evidenceVars, stopVars,
                   ownerVars, teardownVars, gateVars, workerVars, closerVars, truthVars>>

\* retry_post_settlement_cleanup(p)
RetryCleanup(p, c) ==
    /\ SpareTicket(c)
    /\ registered[p] /\ child[p] # NoTicket
    /\ phase[child[p]] = "settled"
    /\ result[child[p]] # "value"
    /\ cleanupDebt = p
    /\ ~closed /\ active = NoTicket
    /\ kind' = [kind EXCEPT ![c] = "retry"]
    /\ parent' = [parent EXCEPT ![c] = p]
    /\ ticketRoute' = [ticketRoute EXCEPT ![c] = route]
    /\ phase' = [phase EXCEPT ![c] = "queued"]
    /\ ready' = [ready EXCEPT ![c] = TRUE]
    /\ child' = [child EXCEPT ![p] = c]
    /\ queue' = <<c>> \o queue
    /\ UNCHANGED <<finalizer, finalizerStarted, registered, result, evidenceVars,
                   stopVars, active, idleHeartbeat, cleanupDebt, route, reconciliation,
                   teardownVars, gateVars, workerVars, closerVars, truthVars>>

-----------------------------------------------------------------------------
(* close(): the body of its loop runs under the mailbox until it raises    *)
(* (ArbiterBusy), waits or has closed the arbiter.                         *)

IsCleanup(t) == parent[t] # NoTicket

CloseRefused ==
    /\ ~closed
    /\ \/ active # NoTicket /\ (~IsCleanup(active) \/ phase[active] = "unknown")
       \/ active = NoTicket /\ cleanupDebt # NoTicket
    /\ closing' = FALSE
    /\ closer' = "out"
    /\ closeOn' = NoTicket
    /\ UNCHANGED <<closed, queue, phase, result>>

CloseWaitsForActive ==
    /\ ~closed
    /\ active # NoTicket /\ IsCleanup(active) /\ phase[active] # "unknown"
    /\ closing' = TRUE
    /\ closer' = "waitActive"
    /\ closeOn' = active
    /\ UNCHANGED <<closed, queue, phase, result>>

CloseWaitsForQueued ==
    /\ ~closed
    /\ active = NoTicket /\ cleanupDebt = NoTicket
    /\ \E i \in DOMAIN queue :
        /\ IsCleanup(queue[i])
        /\ \A j \in 1..(i - 1) : ~IsCleanup(queue[j])
        /\ SettleAll({queue[j] : j \in 1..(i - 1)}, "cancelled")
        /\ queue' = SubSeq(queue, i, Len(queue))
        /\ closeOn' = queue[i]
    /\ closing' = TRUE
    /\ closer' = "waitQueue"
    /\ UNCHANGED closed

CloseCompletes ==
    /\ \/ closed
       \/ /\ active = NoTicket /\ cleanupDebt = NoTicket
          /\ \A t \in Queued : ~IsCleanup(t)
    /\ closed' = TRUE
    /\ SettleAll(Queued, "cancelled")
    /\ queue' = <<>>
    /\ closing' = FALSE
    /\ closer' = "join"
    /\ closeOn' = NoTicket

CloseLoop ==
    /\ CloseRefused \/ CloseWaitsForActive \/ CloseWaitsForQueued \/ CloseCompletes
    /\ UNCHANGED <<identityVars, replyVars, ready, evidenceVars, stopVars, active,
                   idleHeartbeat, cleanupDebt, route, reconciliation, teardownVars,
                   terminated, workerVars, truthVars>>

Close ==
    /\ closer = "out" /\ ~closing
    /\ CloseLoop

CloseWakes ==
    /\ \/ closer = "waitActive" /\ (active # closeOn \/ phase[closeOn] = "unknown")
       \/ /\ closer = "waitQueue"
          /\ active # NoTicket \/ queue = <<>> \/ (queue # <<>> /\ Head(queue) # closeOn)
    /\ CloseLoop

\* The join that follows the loop; its timeout only ends the caller's wait.
CloseJoins ==
    /\ closer = "join" /\ worker = "exited"
    /\ closer' = "out"
    /\ UNCHANGED <<identityVars, replyVars, lifeVars, evidenceVars, stopVars, ownerVars,
                   reconciliation, teardownVars, gateVars, workerVars, closeOn, truthVars>>

-----------------------------------------------------------------------------
(* The worker: _run() under the mailbox.                                   *)

TakeReconciliation ==
    /\ worker = "idle" /\ ~closed /\ teardown = NoTicket /\ reconciliation
    /\ reconciliation' = FALSE
    /\ reconciling' = TRUE
    /\ phase' = [phase EXCEPT ![active] = "running"]
    /\ worker' = "plan"
    /\ UNCHANGED <<identityVars, replyVars, ready, result, evidenceVars, stopVars,
                   ownerVars, teardownVars, gateVars, op, verdict, nextRoute,
                   previouslyEntered, closerVars, truthVars>>

MutantHeadIgnoresOwner ==
    /\ queue # <<>>
    /\ ready[Head(queue)]
    /\ cleanupDebt = NoTicket \/ parent[Head(queue)] = cleanupDebt

MutantHeadIgnoresDebt == active = NoTicket /\ queue # <<>> /\ ready[Head(queue)]

\* While a confirmed cleanup failure is owed, only its retry may run.
HeadRunnable ==
    /\ active = NoTicket /\ queue # <<>>
    /\ ready[Head(queue)]
    /\ cleanupDebt = NoTicket \/ parent[Head(queue)] = cleanupDebt

HeadStale == ticketRoute[Head(queue)] # route

TakeHead ==
    /\ worker = "idle" /\ ~closed /\ teardown = NoTicket /\ ~reconciliation
    /\ HeadRunnable
    /\ queue' = Tail(queue)
    /\ IF HeadStale
       THEN /\ SettleAll({Head(queue)}, "stale")
            /\ UNCHANGED <<active, worker, reconciling>>
       ELSE /\ active' = Head(queue)
            /\ phase' = [phase EXCEPT ![Head(queue)] = "running"]
            /\ worker' = "plan"
            /\ reconciling' = FALSE
            /\ UNCHANGED result
    /\ UNCHANGED <<identityVars, replyVars, ready, evidenceVars, stopVars, idleHeartbeat,
                   cleanupDebt, route, reconciliation, teardownVars, gateVars, op,
                   verdict, nextRoute, previouslyEntered, closerVars, truthVars>>

MutantWorkerMissesRetirement ==
    /\ worker = "idle" /\ closed /\ ~terminated
    /\ worker' = "exited"
    /\ UNCHANGED <<identityVars, replyVars, lifeVars, evidenceVars, stopVars, ownerVars,
                   reconciliation, teardownVars, gateVars, op, reconciling, verdict,
                   nextRoute, previouslyEntered, closerVars, truthVars>>

WorkerExits ==
    /\ worker = "idle" /\ closed
    /\ worker' = "exited"
    /\ UNCHANGED <<identityVars, replyVars, lifeVars, evidenceVars, stopVars, ownerVars,
                   reconciliation, teardownVars, gateVars, op, reconciling, verdict,
                   nextRoute, previouslyEntered, closerVars, truthVars>>

-----------------------------------------------------------------------------
(* SessionPort: what a plan can do on the worker.  InPlan(t) is the check  *)
(* that the port is live: t is the active ticket of a running plan.        *)

InPlan(t) == active = t /\ worker = "plan"

\* What every step of a plan leaves alone.
PlanFrame ==
    UNCHANGED <<identityVars, finalizerStarted, child, lifeVars, terminationAttempted,
                queue, active, idleHeartbeat, cleanupDebt, reconciliation, teardownVars,
                gateVars, reconciling, verdict, nextRoute, closerVars, alive, kills>>

MutantEntersAfterStop(t) ==
    /\ entered' = [entered EXCEPT ![t] = TRUE]
    /\ everEntered' = [everEntered EXCEPT ![t] = TRUE]
    /\ effectTarget' = [effectTarget EXCEPT ![t] = TRUE]

TransportEntered(t) ==
    /\ ~stopRequested[t]
    /\ entered' = [entered EXCEPT ![t] = TRUE]
    /\ everEntered' = [everEntered EXCEPT ![t] = TRUE]
    /\ effectTarget' = [effectTarget EXCEPT ![t] = TRUE]

\* _transport_entered() after a Stop raises, and so ends the plan: as an unknown
\* outcome if remote work preceded it, as a cancellation before effect otherwise.
EntryRefused(t) ==
    /\ stopRequested[t]
    /\ stopBlocked' = [stopBlocked EXCEPT ![t] = @ \/ everEntered[t]]
    /\ worker' = "unwind"
    /\ op' = "none"

\* set_breakpoints, local_variables, heartbeat and modify ("request"),
\* start_evaluation ("start") and continue_ ("continue").
EnterCommand(t, k) ==
    /\ InPlan(t)
    /\ k \in {"request", "start", "continue"}
    /\ kind[t] = "heartbeat" => k = "request" /\ ~everEntered[t]
    /\ ~Outstanding(t)
    /\ TransportEntered(t)
    /\ stopTarget' = [stopTarget EXCEPT ![t] = (k = "continue")]
    /\ previouslyEntered' = everEntered[t]
    /\ worker' = "dispatch"
    /\ op' = k
    /\ UNCHANGED <<registered, pending, pendingStop, stopRequested, stopBlocked, route,
                   remote>>
    /\ PlanFrame

RefuseCommand(t) ==
    /\ InPlan(t)
    /\ ~Outstanding(t) \/ pendingStop[t]
    /\ EntryRefused(t)
    /\ UNCHANGED <<registered, evidenceVars, stopRequested, route, previouslyEntered, remote>>
    /\ PlanFrame

\* The caller's own dispatch callback of modify and continue_ may reject the
\* command before transport: the evidence of the entry is taken back.
RejectDispatch(t) ==
    /\ active = t /\ worker = "dispatch"
    /\ op \in {"request", "continue"}
    /\ entered' = [entered EXCEPT ![t] = FALSE]
    /\ everEntered' = [everEntered EXCEPT ![t] = previouslyEntered]
    /\ stopTarget' = [stopTarget EXCEPT ![t] = FALSE]
    /\ worker' = "unwind"
    /\ op' = "none"
    /\ UNCHANGED <<registered, pending, pendingStop, effectTarget, stopRequested,
                   stopBlocked, route, previouslyEntered, remote>>
    /\ PlanFrame

\* The request leaves the process: from here on the target may execute it.
Send(t) ==
    /\ active = t /\ worker = "dispatch"
    /\ worker' = "transport"
    /\ remote' = t
    /\ UNCHANGED <<registered, evidenceVars, stopRequested, stopBlocked, route, op,
                   previouslyEntered>>
    /\ PlanFrame

\* The call of kind k is answered; what it retires is given by the caller.
Answered(t, k) ==
    /\ active = t /\ worker = "transport" /\ op = k
    /\ worker' = "plan"
    /\ op' = "none"
    /\ UNCHANGED <<registered, everEntered, effectTarget, stopRequested, stopBlocked,
                   route, previouslyEntered>>
    /\ PlanFrame

RequestAnswered(t) ==
    /\ Answered(t, "request")
    /\ entered' = [entered EXCEPT ![t] = FALSE]
    /\ remote' = NoTicket
    /\ UNCHANGED <<pending, pendingStop, stopTarget>>

\* local_variables() without a result in time: a read, so nothing is outstanding,
\* but after a Stop the evidence is kept.
ReadTimesOut(t) ==
    /\ Answered(t, "request")
    /\ entered' = [entered EXCEPT ![t] = stopRequested[t]]
    /\ remote' = IF stopRequested[t] THEN remote ELSE NoTicket
    /\ UNCHANGED <<pending, pendingStop, stopTarget>>

\* _start(): the capability is kept if the dispatch is acknowledged and also if
\* its outcome is unknown (EvaluationDispatchUnknown).
EvaluationStarted(t) ==
    /\ Answered(t, "start")
    /\ pending' = [pending EXCEPT ![t] = TRUE]
    /\ UNCHANGED <<entered, pendingStop, stopTarget, remote>>

ContinueSent(t) ==
    /\ Answered(t, "continue")
    /\ entered' = [entered EXCEPT ![t] = FALSE]
    /\ UNCHANGED <<pending, pendingStop, stopTarget, remote>>

\* continue_evaluation() of an evaluation that stopped at a breakpoint.
EnterResume(t) ==
    /\ InPlan(t) /\ pending[t] /\ pendingStop[t]
    /\ TransportEntered(t)
    /\ worker' = "transport"
    /\ op' = "resume"
    /\ UNCHANGED <<registered, pending, pendingStop, stopTarget, stopRequested,
                   stopBlocked, route, previouslyEntered, remote>>
    /\ PlanFrame

EvaluationResumed(t) ==
    /\ Answered(t, "resume")
    /\ entered' = [entered EXCEPT ![t] = FALSE]
    /\ pendingStop' = [pendingStop EXCEPT ![t] = FALSE]
    /\ UNCHANGED <<pending, stopTarget, remote>>

\* wait_evaluation_event and wait_for_any_stop read buffered events first and
\* enter the transport once per poll.
BeginWait(t, k) ==
    /\ InPlan(t)
    /\ \/ k = "await" /\ pending[t] /\ ~pendingStop[t]
       \/ k = "waitStop" /\ stopTarget[t]
    /\ worker' = "transport"
    /\ op' = k
    /\ UNCHANGED <<registered, evidenceVars, stopRequested, stopBlocked, route,
                   previouslyEntered, remote>>
    /\ PlanFrame

Poll(t) ==
    /\ active = t /\ worker = "transport"
    /\ op \in {"await", "waitStop"}
    /\ TransportEntered(t)
    /\ UNCHANGED <<registered, pending, pendingStop, stopTarget, stopRequested,
                   stopBlocked, route, worker, op, previouslyEntered, remote>>
    /\ PlanFrame

\* Also the second and later polls of one local_variables or heartbeat call.
PollRefused(t) ==
    /\ active = t /\ worker = "transport"
    /\ op \in {"request", "await", "waitStop"}
    /\ EntryRefused(t)
    /\ UNCHANGED <<registered, evidenceVars, stopRequested, route, previouslyEntered, remote>>
    /\ PlanFrame

EvaluationResult(t) ==
    /\ Answered(t, "await")
    /\ pending' = [pending EXCEPT ![t] = FALSE]
    /\ pendingStop' = [pendingStop EXCEPT ![t] = FALSE]
    /\ entered' = [entered EXCEPT ![t] = FALSE]
    /\ remote' = NoTicket
    /\ UNCHANGED stopTarget

EvaluationStopped(t) ==
    /\ Answered(t, "await")
    /\ pendingStop' = [pendingStop EXCEPT ![t] = TRUE]
    /\ UNCHANGED <<pending, entered, stopTarget, remote>>

TargetStopped(t) ==
    /\ Answered(t, "waitStop")
    /\ stopTarget' = [stopTarget EXCEPT ![t] = FALSE]
    /\ entered' = [entered EXCEPT ![t] = FALSE]
    /\ remote' = NoTicket
    /\ UNCHANGED <<pending, pendingStop>>

\* The interval of a wait ends: _stop_checkpoint() raises if Stop was requested,
\* otherwise the plan may wait again.
IntervalElapses(t) ==
    /\ active = t /\ worker = "transport"
    /\ op \in {"await", "waitStop"}
    /\ stopBlocked' = [stopBlocked EXCEPT ![t] = @ \/ stopRequested[t]]
    /\ worker' = IF stopRequested[t] THEN "unwind" ELSE "plan"
    /\ op' = "none"
    /\ UNCHANGED <<registered, evidenceVars, stopRequested, route, previouslyEntered, remote>>
    /\ PlanFrame

\* Any other transport error: nothing is retired, the error ends the plan.
TransportFails(t) ==
    /\ active = t /\ worker = "transport"
    /\ worker' = "unwind"
    /\ op' = "none"
    /\ UNCHANGED <<registered, evidenceVars, stopRequested, stopBlocked, route,
                   previouslyEntered, remote>>
    /\ PlanFrame

RegisterCleanup(t) ==
    /\ InPlan(t)
    /\ kind[t] = "user"
    /\ ~registered[t]
    /\ Fresh # {}
    /\ registered' = [registered EXCEPT ![t] = TRUE]
    /\ UNCHANGED <<evidenceVars, stopRequested, stopBlocked, route, worker, op,
                   previouslyEntered, remote>>
    /\ PlanFrame

HandoffRoute(t) ==
    /\ InPlan(t)
    /\ kind[t] = "user"
    /\ \E r \in (route + 1)..MaxRoute : route' = r
    /\ UNCHANGED <<registered, evidenceVars, stopRequested, stopBlocked, worker, op,
                   previouslyEntered, remote>>
    /\ PlanFrame

-----------------------------------------------------------------------------
(* The end of a plan and the settlement of its ticket.                     *)

PlanEnding(t) == active = t /\ worker \in {"plan", "unwind"}

\* A returned outcome is refused with OutcomeUnknown if the policy finalizer has
\* run before, if Stop blocked remote work (unless this is a reconciliation), or
\* if a capability is not retired.
OutcomeRefused(t) ==
    \/ finalizerStarted[t]
    \/ stopBlocked[t] /\ ~reconciling
    \/ Outstanding(t)

ReturnRefused(t) ==
    /\ PlanEnding(t)
    /\ OutcomeRefused(t)
    /\ verdict' = "unknown"
    /\ worker' = "verdict"
    /\ UNCHANGED <<identityVars, replyVars, lifeVars, evidenceVars, stopVars, ownerVars,
                   reconciliation, teardownVars, gateVars, op, reconciling, nextRoute,
                   previouslyEntered, closerVars, truthVars>>

\* ConfirmedFailure, Settlement, or ReadyForPolicy whose finalizer now starts.  A
\* next_route that is not newer raises StaleRoute, which is one of PlanRaises.
\* Only user plans return a failure or change the route.
ReturnAccepted(t) ==
    /\ PlanEnding(t)
    /\ ~OutcomeRefused(t)
    /\ \/ /\ kind[t] = "user"
          /\ verdict' = "failure"
          /\ worker' = "verdict"
          /\ nextRoute' = 0
          /\ UNCHANGED finalizerStarted
       \/ /\ nextRoute' = 0 \/ (kind[t] = "user" /\ nextRoute' \in (route + 1)..MaxRoute)
          /\ finalizerStarted' = [finalizerStarted EXCEPT ![t] = finalizer[t]]
          /\ verdict' = IF finalizer[t] THEN "none" ELSE "value"
          /\ worker' = IF finalizer[t] THEN "policy" ELSE "verdict"
    /\ UNCHANGED <<identityVars, registered, child, lifeVars, evidenceVars, stopVars,
                   ownerVars, reconciliation, teardownVars, gateVars, op, reconciling,
                   previouslyEntered, closerVars, truthVars>>

\* A plan may wrap an error, but never an OutcomeUnknown in something weaker.
PlanRaises(t) ==
    /\ PlanEnding(t)
    /\ verdict' \in {"plain", "unknown"}
    /\ (worker = "unwind" /\ stopBlocked[t]) => verdict' = "unknown"
    /\ worker' = "verdict"
    /\ UNCHANGED <<identityVars, replyVars, lifeVars, evidenceVars, stopVars, ownerVars,
                   reconciliation, teardownVars, gateVars, op, reconciling, nextRoute,
                   previouslyEntered, closerVars, truthVars>>

\* The finalizer publishes outside the mailbox; it returns or raises.
FinalizerEnds(t) ==
    /\ active = t /\ worker = "policy"
    /\ verdict' \in {"value", "plain"}
    /\ worker' = "verdict"
    /\ UNCHANGED <<identityVars, replyVars, lifeVars, evidenceVars, stopVars, ownerVars,
                   reconciliation, teardownVars, gateVars, op, reconciling, nextRoute,
                   previouslyEntered, closerVars, truthVars>>

MutantCleanupQueuedBeforeCreation(t, c, newRoute) ==
    /\ kind' = [kind EXCEPT ![c] = "cleanup"]
    /\ parent' = [parent EXCEPT ![c] = t]
    /\ ticketRoute' = [ticketRoute EXCEPT ![c] = newRoute]
    /\ ready' = [ready EXCEPT ![c] = TRUE]
    /\ child' = [child EXCEPT ![t] = c]
    /\ queue' = <<child[t]>> \o queue

MutantCleanupKeepsRoute(t, c, newRoute) ==
    /\ kind' = [kind EXCEPT ![c] = "cleanup"]
    /\ parent' = [parent EXCEPT ![c] = t]
    /\ ticketRoute' = [ticketRoute EXCEPT ![c] = ticketRoute[t]]
    /\ ready' = [ready EXCEPT ![c] = TRUE]
    /\ child' = [child EXCEPT ![t] = c]
    /\ queue' = <<c>> \o queue

MutantCleanupQueuesLast(t, c, newRoute) ==
    /\ kind' = [kind EXCEPT ![c] = "cleanup"]
    /\ parent' = [parent EXCEPT ![c] = t]
    /\ ticketRoute' = [ticketRoute EXCEPT ![c] = newRoute]
    /\ ready' = [ready EXCEPT ![c] = TRUE]
    /\ child' = [child EXCEPT ![t] = c]
    /\ queue' = Append(queue, c)

\* _queue_post_settlement_cleanup: the cleanup takes the route that is current
\* after the settlement, and the head of the queue.
QueueCleanup(t, c, newRoute) ==
    /\ kind' = [kind EXCEPT ![c] = "cleanup"]
    /\ parent' = [parent EXCEPT ![c] = t]
    /\ ticketRoute' = [ticketRoute EXCEPT ![c] = newRoute]
    /\ ready' = [ready EXCEPT ![c] = TRUE]
    /\ child' = [child EXCEPT ![t] = c]
    /\ queue' = <<c>> \o queue

\* _settle of the active ticket, the queueing of its cleanup and the release of
\* the worker are one step under the mailbox.
SettleActive(t, r, newRoute) ==
    /\ route' = newRoute
    /\ active' = NoTicket
    /\ result' = [result EXCEPT ![t] = r]
    /\ IF registered[t]
       THEN \E c \in Fresh :
                /\ phase' = [phase EXCEPT ![t] = "settled", ![c] = "queued"]
                /\ QueueCleanup(t, c, newRoute)
       ELSE /\ phase' = [phase EXCEPT ![t] = "settled"]
            /\ UNCHANGED <<kind, parent, ticketRoute, ready, child, queue>>
    /\ UNCHANGED <<finalizer, finalizerStarted, registered, idleHeartbeat>>

WorkerReturns ==
    /\ worker' = "idle"
    /\ verdict' = "none"
    /\ nextRoute' = 0
    /\ reconciling' = FALSE
    /\ previouslyEntered' = FALSE
    /\ UNCHANGED op

Settle(t) ==
    /\ active = t /\ worker = "verdict"
    /\ verdict \in {"value", "failure"}
    /\ SettleActive(t, verdict, IF nextRoute # 0 THEN nextRoute ELSE route)
    /\ cleanupDebt' = IF parent[t] = cleanupDebt THEN NoTicket ELSE cleanupDebt
    /\ WorkerReturns
    /\ UNCHANGED <<evidenceVars, stopVars, reconciliation, teardownVars, gateVars,
                   closerVars, truthVars>>

MutantReleasesOutstandingWork(t) ==
    reconciling \/ finalizerStarted[t] \/ verdict = "unknown"

\* The except branch: an error after remote work, of a reconciliation, after the
\* finalizer, or of class OutcomeUnknown keeps the ticket as the unknown owner;
\* any other error settles it, and a failed cleanup becomes the parent's debt.
KeepsOwner(t) ==
    reconciling \/ Outstanding(t) \/ finalizerStarted[t] \/ verdict = "unknown"

MutantFailureLeavesNoDebt(t) == cleanupDebt

DebtAfterFailure(t) == IF IsCleanup(t) THEN parent[t] ELSE cleanupDebt

Fail(t) ==
    /\ active = t /\ worker = "verdict"
    /\ verdict \in {"plain", "unknown"}
    /\ ~KeepsOwner(t)
    /\ SettleActive(t, "error", route)
    /\ cleanupDebt' = DebtAfterFailure(t)
    /\ WorkerReturns
    /\ UNCHANGED <<evidenceVars, stopVars, reconciliation, teardownVars, gateVars,
                   closerVars, truthVars>>

BecomeUnknown(t) ==
    /\ active = t /\ worker = "verdict"
    /\ verdict \in {"plain", "unknown"}
    /\ KeepsOwner(t)
    /\ phase' = [phase EXCEPT ![t] = "unknown"]
    /\ ScheduleAutoStop(t, stopRequested[t], TRUE)
    /\ WorkerReturns
    /\ UNCHANGED <<identityVars, replyVars, ready, result, evidenceVars, stopRequested,
                   stopBlocked, ownerVars, reconciliation, gateVars, closerVars, truthVars>>

-----------------------------------------------------------------------------
(* The worker: a termination attempt (server session or file process).     *)

\* terminate_server_target / terminate_file_target: the request is sent at most
\* once, its response proves nothing.
TeardownBegins ==
    /\ worker = "idle" /\ ~closed /\ teardown # NoTicket
    /\ worker' = "probe"
    /\ IF requestTermination
       THEN /\ kills' = [kills EXCEPT ![teardown] = @ + 1]
            /\ alive' \in {alive, FALSE}
       ELSE UNCHANGED <<kills, alive>>
    /\ UNCHANGED <<identityVars, replyVars, lifeVars, evidenceVars, stopVars, ownerVars,
                   reconciliation, teardownVars, gateVars, op, reconciling, verdict,
                   nextRoute, previouslyEntered, closerVars, remote>>

\* A target whose termination was requested may exit late.
TargetExits ==
    /\ alive /\ \E t \in Tickets : kills[t] > 0
    /\ alive' = FALSE
    /\ UNCHANGED <<identityVars, replyVars, lifeVars, evidenceVars, stopVars, ownerVars,
                   reconciliation, teardownVars, gateVars, workerVars, closerVars,
                   remote, kills>>

\* The absence of the target is proven: retire_terminated_target closes the
\* arbiter, cancels the queue and retires the ticket with all its evidence.
TeardownConfirms ==
    /\ worker = "probe" /\ ~alive
    /\ worker' = "idle"
    /\ teardown' = NoTicket
    /\ requestTermination' = FALSE
    /\ terminated' = TRUE
    /\ closed' = TRUE
    /\ queue' = <<>>
    /\ phase' = [t \in Tickets |-> IF t \in Queued \cup {teardown} THEN "settled" ELSE phase[t]]
    /\ result' = [t \in Tickets |-> IF t = teardown THEN "terminated"
                                    ELSE IF t \in Queued THEN "cancelled" ELSE result[t]]
    /\ pending' = [pending EXCEPT ![teardown] = FALSE]
    /\ pendingStop' = [pendingStop EXCEPT ![teardown] = FALSE]
    /\ stopTarget' = [stopTarget EXCEPT ![teardown] = FALSE]
    /\ entered' = [entered EXCEPT ![teardown] = FALSE]
    /\ active' = NoTicket
    /\ UNCHANGED <<identityVars, replyVars, ready, everEntered, effectTarget, stopVars,
                   idleHeartbeat, cleanupDebt, route, reconciliation, closing, op,
                   reconciling, verdict, nextRoute, previouslyEntered, closerVars, truthVars>>

\* No proof within the grace interval (or the probe failed): ownership is kept.
TeardownUnproven ==
    /\ worker = "probe"
    /\ worker' = "idle"
    /\ teardown' = NoTicket
    /\ requestTermination' = FALSE
    /\ UNCHANGED <<identityVars, replyVars, lifeVars, evidenceVars, stopVars, ownerVars,
                   reconciliation, gateVars, op, reconciling, verdict, nextRoute,
                   previouslyEntered, closerVars, truthVars>>

-----------------------------------------------------------------------------

CallerNext ==
    \/ \E t \in Tickets : \/ Submit(t) \/ Dispatch(t) \/ TryHeartbeat(t)
                          \/ RequestStop(t) \/ Reconcile(t)
    \/ \E i \in DOMAIN queue : CancelQueued(i)
    \/ \E p, c \in Tickets : RetryCleanup(p, c)
    \/ Close \/ CloseWakes \/ CloseJoins

PlanNext ==
    \E t \in Tickets :
        \/ \E k \in Ops : EnterCommand(t, k) \/ BeginWait(t, k)
        \/ RefuseCommand(t) \/ EnterResume(t) \/ Poll(t)
        \/ RegisterCleanup(t) \/ HandoffRoute(t)

\* Every port call ends: RDBG requests and polls have bounded timeouts.
CallEnds ==
    \E t \in Tickets :
        \/ RejectDispatch(t) \/ Send(t) \/ RequestAnswered(t) \/ ReadTimesOut(t)
        \/ EvaluationStarted(t) \/ ContinueSent(t) \/ EvaluationResumed(t)
        \/ EvaluationResult(t) \/ EvaluationStopped(t) \/ TargetStopped(t)
        \/ IntervalElapses(t) \/ TransportFails(t) \/ PollRefused(t)

PlanEnds == \E t \in Tickets : ReturnRefused(t) \/ ReturnAccepted(t) \/ PlanRaises(t)

MailboxNext ==
    \/ TakeReconciliation \/ TakeHead \/ WorkerExits
    \/ \E t \in Tickets : FinalizerEnds(t) \/ Settle(t) \/ Fail(t) \/ BecomeUnknown(t)
    \/ TeardownBegins \/ TeardownConfirms \/ TeardownUnproven

Next == CallerNext \/ PlanNext \/ CallEnds \/ PlanEnds \/ MailboxNext \/ TargetExits

Spec == Init /\ [][Next]_vars

\* The worker thread runs whenever it can, and so does a thread in close().  A plan
\* that can do nothing more ends; nothing makes a plan end that goes on polling,
\* since a BSL evaluation has no deadline.
Fairness ==
    /\ WF_vars(CallEnds)
    /\ WF_vars(PlanEnds)
    /\ WF_vars(MailboxNext)
    /\ WF_vars(CloseWakes \/ CloseJoins)

FairSpec == Spec /\ Fairness

-----------------------------------------------------------------------------
(* Safety.                                                                 *)

Owning == {"running", "unknown", "reconciling"}

\* One mailbox owner: a ticket is running, unknown or reconciling exactly if it is
\* the active one, and the queue holds each queued ticket once (submit, stop,
\* cancel, close, cleanup and settlement all move tickets in and out of both).
SingleOwner ==
    /\ \A t \in Tickets : phase[t] \in Owning <=> active = t
    /\ \A t \in Tickets : phase[t] = "queued" <=> t \in Queued
    /\ \A i, j \in DOMAIN queue : queue[i] = queue[j] => i = j

\* Whatever the existing target may still execute is work of the active ticket, and
\* that ticket holds evidence of it, so that neither a next command nor a
\* settlement of the ticket is admitted: no remote work is ever orphaned.
RemoteAccounted ==
    (remote # NoTicket /\ alive) => (active = remote /\ Outstanding(remote))

\* A scheduled termination attempt pins its ticket as the stopped, unknown owner
\* until the worker has finished the attempt; otherwise retire_terminated_target
\* would raise on the worker thread and end it.
TeardownFence ==
    teardown # NoTicket =>
        /\ active = teardown /\ phase[teardown] = "unknown"
        /\ stopRequested[teardown] /\ ~reconciliation /\ ~closed
        /\ worker \in {"idle", "probe"}

\* Only the owed cleanup itself runs between the settlement of a ticket that
\* registered one and its success: not even a heartbeat overtakes it.
NothingOvertakesCleanup ==
    (active # NoTicket /\ ~IsCleanup(active)) =>
        /\ cleanupDebt = NoTicket
        /\ \A t \in Tickets : IsCleanup(t) => phase[t] = "settled"

\* The answer of p has been published and p has registered a cleanup.
OwesCleanup(p) ==
    registered[p] /\ phase[p] = "settled" /\ result[p] \in {"value", "failure", "error"}

\* A cleanup is never forgotten, whatever route changes, Stops, retries and close
\* attempts happen: it is on its way, it is recorded as retryable debt, it has
\* succeeded, or the target it belongs to was terminated.  A close() that gave the
\* ownership up without such a termination has waited for its success.
CleanupNotLost ==
    \A p \in Tickets : OwesCleanup(p) =>
        /\ child[p] # NoTicket
        /\ \/ phase[child[p]] \in Owning \cup {"queued"}
           \/ result[child[p]] = "value"
           \/ cleanupDebt = p
           \/ terminated
        /\ closed => result[child[p]] = "value" \/ terminated

\* Both: a cleanup comes first, and it comes (arbiter.py).
CleanupKept == NothingOvertakesCleanup /\ CleanupNotLost

(* Action properties.                                                      *)

\* A settled ticket keeps its result: no later stop, close, retirement or
\* reconciliation answers its waiters a second time.
SettledIsFinal ==
    [][\A t \in Tickets : phase[t] = "settled" =>
            phase'[t] = "settled" /\ result'[t] = result[t]]_vars

\* After Stop was requested for a ticket, no command, poll or resume of it enters
\* the transport any more, during reconciliation neither.
StopFencesTransport ==
    [][\A t \in Tickets : stopRequested[t] =>
            /\ entered'[t] => entered[t]
            /\ everEntered'[t] => everEntered[t]
            /\ stopTarget'[t] => stopTarget[t]]_vars

-----------------------------------------------------------------------------
(* Liveness, under FairSpec.                                               *)

\* After Stop the plan gives the worker up, and a ticket that stays unknown after
\* remote work gets its target terminated, also if it was reconciled in vain.
StopReachesTarget ==
    \A t \in Tickets :
        stopRequested[t] ~> \/ phase[t] = "settled"
                            \/ phase[t] = "unknown" /\ (effectTarget[t] => kills[t] > 0)

\* A closed arbiter ends its worker thread, and so the join of close() returns.
CloseReleasesWorker == closed ~> (worker = "exited" /\ closer # "join")

\* A cleanup that is queued by the worker, and a retry of one, is started, whatever
\* waits beside it: requests that came before it, heartbeats, Stops, an unfinished
\* submission, a close. It is not turned away for a stale route, and only the caller
\* of a retry can withdraw it.
CleanupServed ==
    \A t \in Tickets : (phase[t] = "queued" /\ IsCleanup(t)) ~>
        (phase[t] = "running" \/ (kind[t] = "retry" /\ result[t] = "cancelled"))

-----------------------------------------------------------------------------
(* The arbiter implements exclusive ownership of remote work.              *)

Stage(t) == CASE phase[t] = "new" -> "new"
              [] phase[t] = "queued" -> "queued"
              [] phase[t] = "settled" -> "done"
              [] OTHER -> "owner"

Ownership == INSTANCE RemoteOwnership
                WITH Ids <- Tickets, NoId <- NoTicket,
                     stage <- [t \in Tickets |-> Stage(t)],
                     owner <- active, busy <- remote # NoTicket, alive <- alive

\* Every step of the arbiter is a step of RemoteOwnership or changes nothing it shows:
\* the worker, the callers, close() and the termination attempts together never let
\* a second operation use the target while the first may still execute there.
ImplementsOwnership == Ownership!Spec

=============================================================================
