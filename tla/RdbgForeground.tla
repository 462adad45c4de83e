-------------------------- MODULE RdbgForeground ---------------------------
(* A foreground caller that prepares a statement: the two waits that       *)
(* ExecutionController.await_preparation_context makes before it reads the *)
(* context, wait_for_idle_heartbeat and wait_for_dependent_cleanup, beside *)
(* the arbiter and its heartbeat thread.                                   *)
(*                                                                         *)
(* Bound: nobody stops, cancels, reconciles or closes in this composition. *)
EXTENDS RdbgArbiter

VARIABLES
    foreground,  \* "out", "start", "heartbeat", "between", "cleanup" or "ready"
    waitsFor     \* the ticket of the current wait

foregroundVars == <<foreground, waitsFor>>

ForegroundInit ==
    /\ Init
    /\ foreground = "out"
    /\ waitsFor = NoTicket

ArbiterFrame ==
    UNCHANGED <<identityVars, replyVars, lifeVars, evidenceVars, stopVars, queue, active,
                cleanupDebt, route, reconciliation, teardownVars, gateVars, workerVars,
                closerVars, truthVars>>

Prepare ==
    /\ foreground \in {"out", "ready"}
    /\ foreground' = "start"
    /\ UNCHANGED <<waitsFor, idleHeartbeat>>
    /\ ArbiterFrame

\* wait_for_idle_heartbeat() up to its wait.
LookForHeartbeat ==
    /\ foreground = "start"
    /\ IF idleHeartbeat # NoTicket /\ (active = idleHeartbeat \/ idleHeartbeat \in Queued)
       THEN /\ foreground' = "heartbeat"
            /\ waitsFor' = idleHeartbeat
            /\ UNCHANGED idleHeartbeat
       ELSE /\ foreground' = "between"
            /\ idleHeartbeat' = NoTicket
            /\ UNCHANGED waitsFor
    /\ ArbiterFrame

\* The condition both waits have.
WaitOver(t) ==
    \/ phase[t] = "unknown"
    \/ phase[t] = "settled" /\ active # t /\ t \notin Queued

\* An unknown outcome or an error is raised, otherwise the caller looks again.
WaitReturns ==
    /\ foreground' = IF phase[waitsFor] = "settled" /\ result[waitsFor] = "value"
                     THEN "start" ELSE "out"
    /\ waitsFor' = NoTicket

HeartbeatWaitReturns ==
    /\ foreground = "heartbeat" /\ WaitOver(waitsFor)
    /\ WaitReturns
    /\ idleHeartbeat' = IF idleHeartbeat = waitsFor THEN NoTicket ELSE idleHeartbeat
    /\ ArbiterFrame

\* The cleanup wait_for_dependent_cleanup() waits for: the active ticket or, if that
\* is no cleanup, the head of the queue.
DependentCleanup ==
    {t \in Tickets : /\ IsCleanup(t)
                     /\ active = t \/ (queue # <<>> /\ Head(queue) = t)}

LookForCleanup ==
    /\ foreground = "between"
    /\ \/ /\ terminated \/ cleanupDebt # NoTicket
          /\ foreground' = "out"
          /\ UNCHANGED waitsFor
       \/ /\ ~terminated /\ cleanupDebt = NoTicket
          /\ \E t \in DependentCleanup : waitsFor' = t
          /\ foreground' = "cleanup"
       \/ /\ ~terminated /\ cleanupDebt = NoTicket
          /\ DependentCleanup = {}
          /\ foreground' = "ready"
          /\ UNCHANGED waitsFor
    /\ UNCHANGED idleHeartbeat
    /\ ArbiterFrame

CleanupWaitReturns ==
    /\ foreground = "cleanup" /\ WaitOver(waitsFor)
    /\ WaitReturns
    /\ UNCHANGED idleHeartbeat
    /\ ArbiterFrame

ForegroundStep ==
    LookForHeartbeat \/ HeartbeatWaitReturns \/ LookForCleanup \/ CleanupWaitReturns

ArbiterStep ==
    /\ \/ \E t \in Tickets : Submit(t) \/ Dispatch(t) \/ TryHeartbeat(t)
       \/ \E p, c \in Tickets : RetryCleanup(p, c)
       \/ PlanNext \/ CallEnds \/ PlanEnds \/ MailboxNext
    /\ UNCHANGED foregroundVars

ForegroundNext == ArbiterStep \/ Prepare \/ ForegroundStep

foregroundAndArbiterVars == <<vars, foregroundVars>>

ForegroundSpec == ForegroundInit /\ [][ForegroundNext]_foregroundAndArbiterVars

\* The worker and the waiting thread are scheduled; heartbeats, submissions and
\* retries may or may not come.
ForegroundFairSpec ==
    /\ ForegroundSpec
    /\ WF_foregroundAndArbiterVars(CallEnds /\ UNCHANGED foregroundVars)
    /\ WF_foregroundAndArbiterVars(PlanEnds /\ UNCHANGED foregroundVars)
    /\ WF_foregroundAndArbiterVars(MailboxNext /\ UNCHANGED foregroundVars)
    /\ WF_foregroundAndArbiterVars(ForegroundStep)

-----------------------------------------------------------------------------

\* A wait for the idle heartbeat ends: session.py says of the keepalive "The request
\* itself has a bounded transport wait", and try_heartbeat admits it only while the
\* RDBG owner is idle.
HeartbeatWaitEnds == (foreground = "heartbeat") ~> (foreground # "heartbeat")

=============================================================================
