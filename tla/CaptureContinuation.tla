------------------------ MODULE CaptureContinuation ------------------------
(* One stopped CAPTURE frame from its publication to the Continue that     *)
(* releases it: the cells that register dirty roots, the per-root          *)
(* writeback ledger, the resume plan on the arbiter's worker, and the      *)
(* continuation attempts with their rollback, quarantine and commit.       *)
(*                                                                         *)
(* A controller method is atomic where it holds the controller's lock; a   *)
(* plan interleaves with the clients at every transport command.           *)
(* A root is a spelling of a variable of the frame: BSL ignores case, and  *)
(* the code compares some roots by their casefold and some as spelled.     *)
(* Abstracted: a variable's value (a version number), the name of its      *)
(* temporary-storage address, the ports and the route tokens.              *)
(* Not here: temporary cleanup debts, value inspection, breakpoint         *)
(* shielding, and what happens at the stop after this one.                 *)
EXTENDS Integers, Sequences, SequencesExt

CONSTANTS
    Roots,          \* the spellings of variables that cells and clients use
    Casefold,       \* [Roots -> Roots]: the variable that a root names
    PointSets,      \* sets of capture points a registry can hold
    InitialPoints,  \* the points of the registry that recognised this stop
    MaxCells,       \* bound: cells submitted in this stop
    MaxAttempts,    \* bound: continuation attempts admitted in this stop
    MaxResumes      \* bound: resume tickets submitted in this stop

ASSUME CasefoldAssumption ==
    DOMAIN Casefold = Roots
ASSUME InitialPointsAssumption == InitialPoints \in PointSets
ASSUME BoundsAssumption == MaxCells \in Nat /\ MaxAttempts \in Nat /\ MaxResumes \in Nat

VARIABLES
    main,        \* MainOperation.phase
    context,     \* CaptureScope.context_state
    frame,       \* CaptureScope.frame_identity
    dirty,       \* CaptureScope._dirty_roots, in order of registration
    ledger,      \* CaptureScope._writeback_ledger
    resuming,    \* CaptureEvaluationLedger._resuming
    evaluating,  \* CaptureEvaluationLedger._active_id is set
    registry,    \* the capture points of ExecutionController._registry
    admission,   \* _continuation_admission: an attempt, or 0
    attempts,    \* _continuation_attempts: the admissions, in order of their ids
    rollback,    \* the rollback under way: its attempt (or 0) and its restore ticket
    queue,       \* tickets waiting at the arbiter: "cell", "resume" or "restore"
    active,      \* the ticket on the worker, or "none"
    worker,      \* the active ticket's plan: phase, step, effect and Stop flags
    job,         \* the resume ticket: attempt (or 0), roots and successor points
    cell,        \* the cell ticket: its static dirty roots
    version,     \* ghost: how often cells changed a variable's live value
    exported,    \* ghost: the version in its temporary storage
    written,     \* ghost: the version in the frame
    sent,        \* ghost: modify commands that entered transport for it
    continues,   \* ghost: the attempts whose Continue entered transport
    cells,       \* bound: cells submitted
    resumes      \* bound: resumes submitted

scopeVars == <<context, frame, dirty, ledger>>
publicVars == <<resuming, evaluating>>
admissionVars == <<admission, attempts, rollback>>
ticketVars == <<job, cell>>
truthVars == <<version, exported, written, sent, continues>>
boundVars == <<cells, resumes>>
vars == <<main, scopeVars, publicVars, registry, admissionVars, queue, active, worker,
          ticketVars, truthVars, boundVars>>

RootPhases == {"unattempted", "export_pending", "exported", "modify_sent", "succeeded",
               "export_failed", "modify_failed", "unknown"}

Variables == {Casefold[r] : r \in Roots}

\* Dirty roots: tuples that name no variable twice, at most two long.
RootLists == {<<>>} \cup {<<r>> : r \in Roots}
             \cup {p \in Roots \X Roots : Casefold[p[1]] # Casefold[p[2]]}

Named(roots) == {Casefold[r] : r \in ToSet(roots)}
NoPoints == "none"
NoLedger == [begun |-> FALSE, roots |-> <<>>, phase |-> [r \in Roots |-> "unattempted"]]
NoJob == [attempt |-> 0, roots |-> <<>>, points |-> NoPoints]
NoRollback == [attempt |-> 0, restore |-> "none"]
IdleWorker == [phase |-> "running", step |-> "none", ever |-> FALSE, stop |-> FALSE]

Init ==
    /\ main = "suspended_capture" /\ context = "ready" /\ frame = "confirmed"
    /\ dirty = <<>> /\ ledger = NoLedger
    /\ resuming = FALSE /\ evaluating = FALSE
    /\ registry = InitialPoints
    /\ admission = 0 /\ attempts = <<>> /\ rollback = NoRollback
    /\ queue = <<>> /\ active = "none" /\ worker = IdleWorker
    /\ job = NoJob /\ cell = <<>>
    /\ version = [v \in Variables |-> 0] /\ exported = version /\ written = version
    /\ sent = [v \in Variables |-> 0] /\ continues = <<>>
    /\ cells = 0 /\ resumes = 0

-----------------------------------------------------------------------------
(* What the controller and the ledger read.                                *)

ResumeInFlight == "resume" \in ToSet(queue) \/ active = "resume"
PendingOperations == queue # <<>> \/ active # "none"
Stopped == context = "ready" /\ main = "suspended_capture"
ConfirmedStop == Stopped /\ frame = "confirmed"

PhasesOf(l) == {l.phase[r] : r \in ToSet(l.roots)}

\* RootWritebackLedger.disposition.
Disposition(l) ==
    LET seen == PhasesOf(l)
        failed == seen \cap {"export_failed", "modify_failed"}
    IN  IF "unknown" \in seen THEN "outcome_unknown"
        ELSE IF seen \subseteq {"succeeded"} THEN "ready"
        ELSE IF "modify_sent" \in seen THEN "outcome_unknown"
        ELSE IF failed = {} THEN "in_progress"
        ELSE IF "succeeded" \in seen \/ "modify_failed" \in failed THEN "partial_write"
        ELSE "paused_export_failed"

\* No root may have reached modifyValue.
Unmodified(l) == PhasesOf(l) \subseteq {"unattempted", "export_failed"}

\* The registered roots with one more, unless they name its variable already.
Added(known, r) == IF Casefold[r] \in Named(known) THEN known ELSE Append(known, r)

MutantAdmitBySpelling(known, roots) ==
    LET Add(to, r) == IF r \in ToSet(to) THEN to ELSE Append(to, r)
        first == IF roots = <<>> THEN known ELSE Add(known, roots[1])
    IN  IF Len(roots) < 2 THEN first ELSE Add(first, roots[2])

\* The roots a cell or a resume adds to the registered ones, one after the other.
Admit(known, roots) ==
    LET first == IF roots = <<>> THEN known ELSE Added(known, roots[1])
    IN  IF Len(roots) < 2 THEN first ELSE Added(first, roots[2])

MutantSentIsUnattempted(phase) ==
    CASE phase \in {"unattempted", "export_pending", "exported", "modify_sent"} ->
            "unattempted"
      [] phase \in {"export_failed", "modify_failed"} -> "failed"
      [] phase = "unknown" -> "outcome_unknown"
      [] OTHER -> "succeeded"

\* continuation_attempt_evidence(): one status for each root of the attempt.
Status(phase) ==
    CASE phase \in {"unattempted", "export_pending", "exported"} -> "unattempted"
      [] phase = "modify_sent" -> "sent"
      [] phase \in {"export_failed", "modify_failed"} -> "failed"
      [] phase = "unknown" -> "outcome_unknown"
      [] OTHER -> "succeeded"

\* The ledger has a record for every root of the attempt, as it spells them.
Recorded(a) == ledger.begun => ToSet(attempts[a].roots) \subseteq ToSet(ledger.roots)
Readable(a) == attempts[a].frozen # <<>> \/ Recorded(a)

RootStatuses(a) ==
    IF attempts[a].frozen # <<>> THEN attempts[a].frozen[1]
    ELSE [r \in ToSet(attempts[a].roots) |-> Status(ledger.phase[r])]

-----------------------------------------------------------------------------
(* Cells.                                                                  *)

SubmitCell(roots) ==
    /\ cells < MaxCells
    /\ ~ResumeInFlight /\ Stopped /\ ~evaluating
    /\ evaluating' = TRUE
    /\ queue' = Append(queue, "cell")
    /\ cell' = roots
    /\ cells' = cells + 1
    /\ UNCHANGED <<main, scopeVars, resuming, registry, admissionVars, active, worker, job,
                   truthVars, resumes>>

\* The active ticket settles and leaves the worker; its plan is forgotten, but not
\* that of a cell submitted since its own evaluation ended.
WorkerFreed ==
    /\ active' = "none" /\ worker' = IdleWorker
    /\ job' = IF active = "resume" THEN NoJob ELSE job
    /\ cell' = IF active = "cell" /\ "cell" \notin ToSet(queue) THEN <<>> ELSE cell

\* CaptureScope.admit_cell_dirty_roots, before the cell's first remote command.
CellAdmitsRoots ==
    /\ active = "cell" /\ worker.step = "admit"
    /\ ~ledger.begun /\ context = "ready" /\ frame = "confirmed"
    /\ dirty' = Admit(dirty, cell)
    /\ worker' = [worker EXCEPT !.step = "run"]
    /\ UNCHANGED <<main, context, frame, ledger, publicVars, registry, admissionVars, queue,
                   active, ticketVars, truthVars, boundVars>>

\* It raises, or the Worker cannot be pinned: a confirmed failure.
CellRefused ==
    /\ active = "cell" /\ worker.step = "admit"
    /\ evaluating' = FALSE
    /\ worker' = [worker EXCEPT !.step = "done"]
    /\ UNCHANGED <<main, scopeVars, resuming, registry, admissionVars, queue, active,
                   ticketVars, truthVars, boundVars>>

\* The BSL runs, with an error or without, and changes some of its roots.
CellRuns(changed) ==
    /\ active = "cell" /\ worker.step = "run" /\ worker.phase = "running" /\ ~worker.stop
    /\ version' = [v \in Variables |-> IF v \in changed THEN version[v] + 1 ELSE version[v]]
    /\ \/ /\ worker' = [worker EXCEPT !.step = "done", !.ever = TRUE]
          /\ evaluating' = FALSE
       \/ /\ worker' = [worker EXCEPT !.phase = "unknown", !.ever = TRUE]
          /\ UNCHANGED evaluating
    /\ UNCHANGED <<main, scopeVars, resuming, registry, admissionVars, queue, active,
                   ticketVars, exported, written, sent, continues, boundVars>>

\* Stopped, or failed locally, before any command entered transport.
CellDropped ==
    /\ active = "cell" /\ worker.step = "run" /\ worker.phase = "running"
    /\ WorkerFreed
    /\ UNCHANGED <<main, scopeVars, publicVars, registry, admissionVars, queue, truthVars,
                   boundVars>>

\* reconcile_capture_pending_eval(): the accepted evaluation is observed.
CellReconciled ==
    /\ active = "cell" /\ worker.phase = "unknown"
    /\ ConfirmedStop
    /\ worker' = [worker EXCEPT !.phase = "running", !.step = "done"]
    /\ evaluating' = FALSE
    /\ UNCHANGED <<main, scopeVars, resuming, registry, admissionVars, queue, active,
                   ticketVars, truthVars, boundVars>>

CellSettles ==
    /\ active = "cell" /\ worker.step = "done"
    /\ WorkerFreed
    /\ UNCHANGED <<main, scopeVars, publicVars, registry, admissionVars, queue, truthVars,
                   boundVars>>

\* _observe_capture_ticket(): retire the record of a ticket that settled early.
ObserveCellSettled ==
    /\ evaluating
    /\ "cell" \notin ToSet(queue) /\ active # "cell"
    /\ context # "closed"
    /\ evaluating' = FALSE
    /\ UNCHANGED <<main, scopeVars, resuming, registry, admissionVars, queue, active, worker,
                   ticketVars, truthVars, boundVars>>

-----------------------------------------------------------------------------
(* Continuation attempts.                                                  *)

Update(a, field, value) == attempts' = [attempts EXCEPT ![a][field] = value]

\* The outcome of the resume ticket that attempt a owns.
TicketOutcome(a, outcome) ==
    attempts' = IF a = 0 THEN attempts ELSE [attempts EXCEPT ![a].ticket = outcome]

\* begin_continuation_admission(): one attempt, on an idle stop.
BeginAdmission(roots, points) ==
    /\ Len(attempts) < MaxAttempts
    /\ ConfirmedStop /\ ~PendingOperations
    /\ admission = 0
    /\ attempts' = Append(attempts,
            [roots |-> roots, points |-> points, original |-> registry,
             consumed |-> FALSE, closed |-> FALSE, continueState |-> "unattempted",
             ticket |-> "none", frozen |-> <<>>])
    /\ admission' = Len(attempts) + 1
    /\ UNCHANGED <<main, scopeVars, publicVars, registry, rollback, queue, active, worker,
                   ticketVars, truthVars, boundVars>>

\* commit(): only a resume ticket that settled with a value after Continue.
Commit ==
    /\ admission # 0
    /\ LET a == attempts[admission] IN
        /\ a.consumed /\ a.continueState = "acknowledged" /\ a.ticket = "value"
        /\ Readable(admission)
        /\ attempts' = [attempts EXCEPT ![admission].closed = TRUE,
                                        ![admission].frozen = <<RootStatuses(admission)>>]
    /\ admission' = 0
    /\ UNCHANGED <<main, scopeVars, publicVars, registry, rollback, queue, active, worker,
                   ticketVars, truthVars, boundVars>>

Quarantine ==
    /\ admission # 0
    /\ Update(admission, "closed", TRUE)
    /\ admission' = 0
    /\ UNCHANGED <<main, scopeVars, publicVars, registry, rollback, queue, active, worker,
                   ticketVars, truthVars, boundVars>>

\* rollback() of an attempt that no resume consumed.
RollbackUnused ==
    /\ admission # 0 /\ ~attempts[admission].consumed
    /\ Update(admission, "closed", TRUE)
    /\ admission' = 0
    /\ UNCHANGED <<main, scopeVars, publicVars, registry, rollback, queue, active, worker,
                   ticketVars, truthVars, boundVars>>

\* What rollback() requires before it restores anything.
RollbackAllowed(a) ==
    /\ attempts[a].consumed /\ attempts[a].continueState = "unattempted"
    /\ ConfirmedStop /\ ~PendingOperations
    /\ ledger.begun
    /\ Disposition(ledger) = "paused_export_failed" /\ Unmodified(ledger)

MutantRollbackWithoutRestore ==
    /\ admission # 0 /\ rollback = NoRollback
    /\ RollbackAllowed(admission)
    /\ rollback' = [attempt |-> admission, restore |-> "value"]
    /\ UNCHANGED <<main, scopeVars, publicVars, registry, admission, attempts, queue, active,
                   worker, ticketVars, truthVars, boundVars>>

\* Its first locked section; the lock is released while the restore runs.
RollbackBegins ==
    /\ admission # 0 /\ rollback = NoRollback
    /\ RollbackAllowed(admission)
    /\ LET restore == registry # attempts[admission].original IN
        /\ rollback' = [attempt |-> admission,
                        restore |-> IF restore THEN "waiting" ELSE "value"]
        /\ queue' = IF restore THEN Append(queue, "restore") ELSE queue
    /\ UNCHANGED <<main, scopeVars, publicVars, registry, admission, attempts, active,
                   worker, ticketVars, truthVars, boundVars>>

\* The restore ticket has failed or is unknown, the admission has changed, or
\* the attempt's roots are not those of the ledger.
RollbackRaises ==
    /\ rollback # NoRollback
    /\ \/ rollback.restore \in {"error", "unknown"}
       \/ rollback.restore = "value" /\ admission # rollback.attempt
       \/ /\ rollback.restore = "value" /\ admission = rollback.attempt
          /\ ~Readable(admission)
    /\ rollback' = NoRollback
    /\ UNCHANGED <<main, scopeVars, publicVars, registry, admission, attempts, queue, active,
                   worker, ticketVars, truthVars, boundVars>>

MutantRollbackForgetsEvidence ==
    /\ rollback.restore = "value" /\ admission = rollback.attempt
    /\ rollback' = NoRollback
    /\ ledger' = NoLedger /\ resuming' = FALSE /\ admission' = 0
    /\ attempts' = [attempts EXCEPT ![admission].closed = TRUE]
    /\ UNCHANGED <<main, context, frame, dirty, evaluating, registry, queue, active, worker,
                   ticketVars, truthVars, boundVars>>

\* Its second locked section. Evidence is frozen before the scope may refuse.
RollbackEnds ==
    /\ rollback.restore = "value" /\ admission = rollback.attempt
    /\ Readable(admission)
    /\ rollback' = NoRollback
    /\ IF /\ context = "ready" /\ frame = "confirmed" /\ ledger.begun
          /\ Disposition(ledger) = "paused_export_failed" /\ Unmodified(ledger)
       THEN /\ attempts' = [attempts EXCEPT ![admission].closed = TRUE,
                                            ![admission].frozen = <<RootStatuses(admission)>>]
            /\ ledger' = NoLedger
            /\ resuming' = FALSE
            /\ admission' = 0
       ELSE /\ Update(admission, "frozen", <<RootStatuses(admission)>>)
            /\ UNCHANGED <<ledger, resuming, admission>>
    /\ UNCHANGED <<main, context, frame, dirty, evaluating, registry, queue, active, worker,
                   ticketVars, truthVars, boundVars>>

\* The restore plan: rearm_captured_successor with the original points.
RestoreRunning == active = "restore" /\ worker.phase = "running"

RestoreInstalled ==
    /\ RestoreRunning /\ ~worker.stop
    /\ registry' = attempts[rollback.attempt].original
    /\ rollback' = [rollback EXCEPT !.restore = "value"]
    /\ WorkerFreed
    /\ UNCHANGED <<main, scopeVars, publicVars, admission, attempts, queue,
                   truthVars, boundVars>>

\* Stopped, or refused locally, before the breakpoints were sent.
RestoreDropped ==
    /\ RestoreRunning
    /\ rollback' = [rollback EXCEPT !.restore = "error"]
    /\ WorkerFreed
    /\ UNCHANGED <<main, scopeVars, publicVars, registry, admission, attempts, queue,
                   truthVars, boundVars>>

RestoreLost ==
    /\ RestoreRunning /\ ~worker.stop
    /\ rollback' = [rollback EXCEPT !.restore = "unknown"]
    /\ worker' = [worker EXCEPT !.phase = "unknown", !.ever = TRUE]
    /\ UNCHANGED <<main, scopeVars, publicVars, registry, admission, attempts, queue, active,
                   ticketVars, truthVars, boundVars>>

-----------------------------------------------------------------------------
(* submit_resume().                                                        *)

\* The resume ticket of attempt a, or of no attempt (0), is queued.
Resume(a, roots, points) ==
    /\ resumes < MaxResumes
    /\ ~ResumeInFlight /\ Stopped
    /\ ledger.begun => Named(roots) \subseteq Named(dirty)
    /\ ~evaluating                                   \* mark_resuming()
    /\ resuming' = TRUE
    /\ job' = [attempt |-> a, roots |-> roots, points |-> points]
    /\ queue' = Append(queue, "resume")
    /\ resumes' = resumes + 1
    /\ UNCHANGED <<main, scopeVars, evaluating, registry, rollback, active, worker, cell,
                   truthVars, cells>>

ResumeDirectly(roots, points) ==
    /\ admission = 0
    /\ Resume(0, roots, points)
    /\ UNCHANGED <<admission, attempts>>

ResumeAttempt ==
    /\ admission # 0 /\ ~attempts[admission].consumed
    /\ ConfirmedStop
    /\ Resume(admission, attempts[admission].roots, attempts[admission].points)
    /\ attempts' = [attempts EXCEPT ![admission].consumed = TRUE,
                                    ![admission].ticket = "live"]
    /\ UNCHANGED admission

-----------------------------------------------------------------------------
(* The resume plan on the worker.                                          *)

At(step) == active = "resume" /\ worker.phase = "running" /\ worker.step = step
Goto(step) == worker' = [worker EXCEPT !.step = step]
EnterTransport(step) == worker' = [worker EXCEPT !.step = step, !.ever = TRUE]

\* The plan raises with no command outstanding: the ticket settles.
Fails ==
    /\ WorkerFreed
    /\ TicketOutcome(job.attempt, "error")

\* The plan raises in or after a command whose outcome is not established.
Unknown ==
    /\ worker' = [worker EXCEPT !.phase = "unknown", !.ever = TRUE]
    /\ UNCHANGED <<active, job, attempts>>

\* _transport_entered() refuses a stopped ticket; a local error does the same.
Refused == IF worker.stop /\ worker.ever THEN Unknown ELSE Fails

planFrame == <<main, publicVars, admission, rollback, queue, cell, version, boundVars>>

\* Dirty roots of this call, unless the ledger of an earlier one is retained.
ResumeAdmitsRoots ==
    /\ At("admit")
    /\ dirty' = IF ledger.begun THEN dirty ELSE Admit(dirty, job.roots)
    /\ Goto(IF job.points = NoPoints THEN "ledger" ELSE "rearm")
    /\ UNCHANGED <<context, frame, ledger, registry, attempts, active, job, exported, written,
                   sent, continues, planFrame>>

RearmFrame == UNCHANGED <<scopeVars, exported, written, sent, continues, planFrame>>

Rearmed ==
    /\ At("rearm") /\ ~worker.stop
    /\ registry' = job.points
    /\ EnterTransport("ledger")
    /\ UNCHANGED <<active, job, attempts>>
    /\ RearmFrame

RearmFails ==
    /\ At("rearm")
    /\ Refused \/ (~worker.stop /\ Unknown)
    /\ UNCHANGED registry
    /\ RearmFrame

MutantLedgerOfThisResume ==
    /\ At("ledger")
    /\ ledger' = IF ledger.begun THEN ledger
                 ELSE [begun |-> TRUE, roots |-> job.roots, phase |-> NoLedger.phase]
    /\ IF Disposition(ledger') \in {"outcome_unknown", "partial_write", "paused_export_failed"}
       THEN Fails
       ELSE Goto("flush") /\ UNCHANGED <<active, job, attempts>>
    /\ UNCHANGED <<context, frame, dirty, registry, exported, written, sent, continues,
                   planFrame>>

\* begin_writeback(), and the dispositions that flush() refuses.
LedgerBegins ==
    /\ At("ledger")
    /\ ledger' = IF ledger.begun THEN ledger
                 ELSE [begun |-> TRUE, roots |-> dirty, phase |-> NoLedger.phase]
    /\ IF Disposition(ledger') \in {"outcome_unknown", "partial_write", "paused_export_failed"}
       THEN Fails
       ELSE Goto("flush") /\ UNCHANGED <<active, job, attempts>>
    /\ UNCHANGED <<context, frame, dirty, registry, exported, written, sent, continues,
                   planFrame>>

\* flush(): the first root, in order, that is not written yet.
Unwritten == {i \in 1 .. Len(ledger.roots) : ledger.phase[ledger.roots[i]] # "succeeded"}
NextRoot == ledger.roots[CHOOSE i \in Unwritten : \A j \in Unwritten : i <= j]
NextVariable == Casefold[NextRoot]

AtRoot(step, phase) == At(step) /\ Unwritten # {} /\ ledger.phase[NextRoot] = phase
SetPhase(phase) == ledger' = [ledger EXCEPT !.phase[NextRoot] = phase]
FlushFrame == UNCHANGED <<context, frame, dirty, registry, continues, planFrame>>

ExportEnters ==
    /\ AtRoot("flush", "unattempted") /\ ~worker.stop
    /\ SetPhase("export_pending")
    /\ EnterTransport("export")
    /\ UNCHANGED <<active, job, attempts, exported, written, sent>>
    /\ FlushFrame

\* Any exception makes the root unknown, whether or not a command was sent.
ExportRaises ==
    /\ \/ AtRoot("flush", "unattempted") /\ Refused
       \/ AtRoot("export", "export_pending") /\ Unknown
    /\ SetPhase("unknown")
    /\ UNCHANGED <<exported, written, sent>>
    /\ FlushFrame

ExportReturns ==
    /\ AtRoot("export", "export_pending")
    /\ SetPhase("exported")
    /\ exported' = [exported EXCEPT ![NextVariable] = version[NextVariable]]
    /\ Goto("flush")
    /\ UNCHANGED <<active, job, attempts, written, sent>>
    /\ FlushFrame

\* A confirmed BSL error, or an address that is not usable.
ExportFails ==
    /\ AtRoot("export", "export_pending")
    /\ SetPhase("export_failed")
    /\ Fails
    /\ UNCHANGED <<exported, written, sent>>
    /\ FlushFrame

ModifyEnters ==
    /\ AtRoot("flush", "exported") /\ ~worker.stop
    /\ SetPhase("modify_sent")
    /\ sent' = [sent EXCEPT ![NextVariable] = @ + 1]
    /\ EnterTransport("modify")
    /\ UNCHANGED <<active, job, attempts, exported, written>>
    /\ FlushFrame

\* Before its dispatch callback: the confirmed export is kept.
ModifyRefused ==
    /\ AtRoot("flush", "exported")
    /\ Refused
    /\ UNCHANGED <<ledger, exported, written, sent>>
    /\ FlushFrame

ModifyReturns ==
    /\ AtRoot("modify", "modify_sent")
    /\ SetPhase("succeeded")
    /\ written' = [written EXCEPT ![NextVariable] = exported[NextVariable]]
    /\ Goto("flush")
    /\ UNCHANGED <<active, job, attempts, exported, sent>>
    /\ FlushFrame

MutantModifyFailureIsRetried ==
    /\ AtRoot("modify", "modify_sent")
    /\ SetPhase("exported")
    /\ Fails
    /\ UNCHANGED <<exported, written, sent>>
    /\ FlushFrame

\* A confirmed error of the write itself: the root is never tried again.
ModifyFails ==
    /\ AtRoot("modify", "modify_sent")
    /\ SetPhase("modify_failed")
    /\ Fails
    /\ UNCHANGED <<exported, written, sent>>
    /\ FlushFrame

\* The write may have reached the frame or not.
ModifyLost ==
    /\ AtRoot("modify", "modify_sent")
    /\ SetPhase("unknown")
    /\ written' \in {written,
                    [written EXCEPT ![NextVariable] = exported[NextVariable]]}
    /\ Unknown
    /\ UNCHANGED <<exported, sent>>
    /\ FlushFrame

FlushEnds ==
    /\ At("flush") /\ Unwritten = {}
    /\ Goto("end")
    /\ UNCHANGED <<ledger, active, job, attempts, exported, written, sent>>
    /\ FlushFrame

\* CaptureExecutor.end_scope and the Continue that follows it.
ReleaseFrame == UNCHANGED <<dirty, ledger, registry, publicVars, admission, rollback, queue,
                            cell, version, exported, written, sent, boundVars>>

ContinueState(state) ==
    attempts' = IF job.attempt = 0 THEN attempts
                ELSE [attempts EXCEPT ![job.attempt].continueState = state]

ScopeEnds ==
    /\ At("end") /\ ~worker.stop
    /\ ContinueState("planned")
    /\ EnterTransport("continue")
    /\ UNCHANGED <<main, context, frame, active, job, continues>>
    /\ ReleaseFrame

\* Refused before transport, a confirmed BSL error, or an unknown outcome.
ScopeEndFails ==
    /\ At("end")
    /\ Refused \/ (~worker.stop /\ Unknown)
    /\ UNCHANGED <<main, context, frame, continues>>
    /\ ReleaseFrame

MutantContinueKeepsPhase ==
    /\ At("continue") /\ ~worker.stop
    /\ continues' = Append(continues, job.attempt)
    /\ EnterTransport("acknowledge")
    /\ UNCHANGED <<main, context, frame, active, job, attempts>>
    /\ ReleaseFrame

\* continue_requested(), at the entry of the Continue command.
ContinueEnters ==
    /\ At("continue") /\ ~worker.stop
    /\ main' = "unknown"
    /\ continues' = Append(continues, job.attempt)
    /\ EnterTransport("acknowledge")
    /\ UNCHANGED <<context, frame, active, job, attempts>>
    /\ ReleaseFrame

ContinueRefused ==
    /\ At("continue")
    /\ Refused
    /\ UNCHANGED <<main, context, frame, continues>>
    /\ ReleaseFrame

ContinueAcknowledged ==
    /\ At("acknowledge")
    /\ main' = "running"
    /\ ContinueState("acknowledged")
    /\ Goto("close")
    /\ UNCHANGED <<context, frame, active, job, continues>>
    /\ ReleaseFrame

\* mark_unverified(): nobody knows whether the frame still exists.
ContinueLost ==
    /\ At("acknowledge")
    /\ ContinueState("outcome_unknown")
    /\ context' = "closing" /\ frame' = "unverified"
    /\ worker' = [worker EXCEPT !.phase = "unknown"]
    /\ UNCHANGED <<main, active, job, continues>>
    /\ ReleaseFrame

\* mark_closed(), and the controller forgets the scope.
ScopeCloses ==
    /\ At("close")
    /\ context' = "closed" /\ frame' = "released"
    /\ Goto("await")
    /\ UNCHANGED <<main, active, job, attempts, continues>>
    /\ ReleaseFrame

\* The next stop of MAIN settles the ticket, with a reply or with an error.
ResumeReturns(outcome) ==
    /\ At("await")
    /\ WorkerFreed
    /\ TicketOutcome(job.attempt, outcome)
    /\ UNCHANGED <<main, context, frame, continues>>
    /\ ReleaseFrame

-----------------------------------------------------------------------------
(* The arbiter: dispatch, Stop and the loss of the target.                 *)

\* The worker takes the first ticket.
TakeTicket ==
    /\ active = "none" /\ queue # <<>>
    /\ active' = Head(queue)
    /\ queue' = Tail(queue)
    /\ worker' = [IdleWorker EXCEPT !.step = "admit"]
    /\ UNCHANGED <<main, scopeVars, publicVars, registry, admissionVars, ticketVars,
                   truthVars, boundVars>>

\* Queued tickets settle as cancelled: nothing else is told.
Cancelled(kinds) ==
    /\ TicketOutcome(IF "resume" \in kinds THEN job.attempt ELSE 0, "error")
    /\ job' = IF "resume" \in kinds THEN NoJob ELSE job
    /\ cell' = IF "cell" \in kinds THEN <<>> ELSE cell

\* request_stop() of a queued cell or resume.
StopQueued(kind) ==
    /\ \E i \in 1 .. Len(queue) : queue[i] = kind /\ queue' = RemoveAt(queue, i)
    /\ Cancelled({kind})
    /\ UNCHANGED <<main, scopeVars, publicVars, registry, admission, rollback, active,
                   worker, truthVars, boundVars>>

\* request_stop() of the active ticket fences it and cancels what waits.
StopActive ==
    /\ active # "none" /\ worker.step # "await" /\ ~worker.stop
    /\ worker' = [worker EXCEPT !.stop = TRUE]
    /\ queue' = <<>> /\ Cancelled(ToSet(queue))
    /\ UNCHANGED <<main, scopeVars, publicVars, registry, admission, rollback, active,
                   truthVars, boundVars>>

\* Exact teardown of a stopped ticket of unknown outcome: mark_lost().
TargetLost ==
    /\ worker.phase = "unknown" /\ worker.stop
    /\ main' = "lost" /\ context' = "closed" /\ frame' = "lost"
    /\ active' = "none" /\ worker' = IdleWorker
    /\ queue' = <<>> /\ job' = NoJob /\ cell' = <<>>
    /\ TicketOutcome(IF ResumeInFlight THEN job.attempt ELSE 0, "error")
    /\ UNCHANGED <<dirty, ledger, publicVars, registry, admission, rollback,
                   truthVars, boundVars>>

-----------------------------------------------------------------------------
CellStep ==
    \/ \E roots \in RootLists : SubmitCell(roots)
    \/ CellAdmitsRoots \/ CellRefused
    \/ \E changed \in SUBSET Named(cell) : CellRuns(changed)
    \/ CellDropped \/ CellReconciled \/ CellSettles \/ ObserveCellSettled

AttemptStep ==
    \/ \E roots \in RootLists, points \in PointSets : BeginAdmission(roots, points)
    \/ Commit \/ Quarantine \/ RollbackUnused
    \/ RollbackBegins \/ RollbackRaises \/ RollbackEnds
    \/ RestoreInstalled \/ RestoreDropped \/ RestoreLost

ResumeStep ==
    \/ \E roots \in RootLists, points \in PointSets \cup {NoPoints} :
            ResumeDirectly(roots, points)
    \/ ResumeAttempt
    \/ ResumeAdmitsRoots \/ Rearmed \/ RearmFails \/ LedgerBegins
    \/ ExportEnters \/ ExportRaises \/ ExportReturns \/ ExportFails
    \/ ModifyEnters \/ ModifyRefused \/ ModifyReturns \/ ModifyFails \/ ModifyLost
    \/ FlushEnds \/ ScopeEnds \/ ScopeEndFails
    \/ ContinueEnters \/ ContinueRefused \/ ContinueAcknowledged \/ ContinueLost
    \/ ScopeCloses
    \/ \E outcome \in {"value", "error"} : ResumeReturns(outcome)

ArbiterStep ==
    \/ TakeTicket
    \/ \E kind \in {"cell", "resume"} : StopQueued(kind)
    \/ StopActive \/ TargetLost

Next == CellStep \/ AttemptStep \/ ResumeStep \/ ArbiterStep

Spec == Init /\ [][Next]_vars

-----------------------------------------------------------------------------
(* Properties.                                                             *)

Statuses == {"unattempted", "sent", "succeeded", "failed", "outcome_unknown"}
Evidences == UNION {[S -> Statuses] : S \in SUBSET Roots}
Attempts ==
    [roots : RootLists, points : PointSets, original : PointSets, consumed : BOOLEAN,
     closed : BOOLEAN,
     continueState : {"unattempted", "planned", "acknowledged", "outcome_unknown"},
     ticket : {"none", "live", "value", "error"},
     frozen : {<<>>} \cup {<<f>> : f \in Evidences}]

\* Every variable keeps its type; the dirty roots name no variable twice.
TypeOK ==
    /\ main \in {"suspended_capture", "unknown", "running", "lost"}
    /\ context \in {"ready", "closing", "closed"}
    /\ frame \in {"confirmed", "unverified", "released", "lost"}
    /\ dirty \in Seq(Roots) /\ \A i, j \in 1 .. Len(dirty) :
            Casefold[dirty[i]] = Casefold[dirty[j]] => i = j
    /\ ledger \in [begun : BOOLEAN, roots : Seq(Roots), phase : [Roots -> RootPhases]]
    /\ resuming \in BOOLEAN /\ evaluating \in BOOLEAN
    /\ registry \in PointSets
    /\ admission \in 0 .. Len(attempts) /\ attempts \in Seq(Attempts)
    /\ rollback \in [attempt : 0 .. Len(attempts),
                     restore : {"none", "waiting", "value", "error", "unknown"}]
    /\ queue \in Seq({"cell", "resume", "restore"})
    /\ active \in {"none", "cell", "resume", "restore"}
    /\ worker \in [phase : {"running", "unknown"}, ever : BOOLEAN, stop : BOOLEAN,
                   step : {"none", "admit", "run", "done", "rearm", "ledger", "flush",
                           "export", "modify", "end", "continue", "acknowledge", "close",
                           "await"}]
    /\ job \in [attempt : 0 .. Len(attempts), roots : RootLists,
                points : PointSets \cup {NoPoints}]
    /\ cell \in RootLists
    /\ version \in [Variables -> Nat] /\ exported \in [Variables -> Nat]
    /\ written \in [Variables -> Nat] /\ sent \in [Variables -> Nat]
    /\ continues \in Seq(0 .. Len(attempts))
    /\ cells \in 0 .. MaxCells /\ resumes \in 0 .. MaxResumes

\* No variable is ever sent to the frame twice: neither a retry, nor a ledger
\* that a rollback reopened, nor a second attempt, nor another spelling of it
\* repeats a write (writeback.py, scope.py).
WriteOnce == \A v \in Variables : sent[v] <= 1

\* When Continue enters transport, the frame holds the latest value of every
\* variable that any cell changed, however often the resume was tried before.
ContinueCarriesEveryChange == continues # <<>> => written = version

\* MAIN is continued at most once from this stop, and never offered to clients
\* as a ready stop afterwards, even when the acknowledgement was lost.
ContinueOnce ==
    /\ Len(continues) <= 1
    /\ Stopped => continues = <<>>

\* Both: no effect on the target is repeated (writeback.py, controller.py).
EffectsOnce == WriteOnce /\ ContinueOnce

\* What continuation_attempt_evidence() tells an agent that decides on a retry
\* is never better than the truth: a root it calls unattempted was not sent
\* under this ledger, one it calls succeeded holds the latest value, and a
\* settled attempt that continued MAIN does not report Continue as not sent.
EvidenceNotOptimistic ==
    \A a \in 1 .. Len(attempts) :
        /\ attempts[a].frozen = <<>> /\ Recorded(a) =>
            \A r \in ToSet(attempts[a].roots) :
                /\ RootStatuses(a)[r] = "unattempted" => sent[Casefold[r]] = 0
                /\ RootStatuses(a)[r] = "succeeded" =>
                        written[Casefold[r]] = version[Casefold[r]]
        /\ a \in ToSet(continues) /\ attempts[a].ticket # "live" =>
                attempts[a].continueState \in {"acknowledged", "outcome_unknown"}
        /\ attempts[a].continueState = "acknowledged" => a \in ToSet(continues)

\* A rollback reopens the stop only as it was: no root was sent, Continue was
\* not sent, the original points are back, no resume is reserved or in flight;
\* and the evidence an agent read about the failed attempt stays as it was.
RollbackIsClean ==
    [][ledger.begun /\ ~ledger'.begun =>
        /\ \A v \in Variables : sent[v] = 0
        /\ continues = <<>> /\ Stopped'
        /\ registry' = attempts[admission].original
        /\ ~resuming' /\ admission' = 0 /\ ~ResumeInFlight'
        /\ \E a \in 1 .. Len(attempts) :
              a = admission /\ RootStatuses(a)' = RootStatuses(a)]_vars
=============================================================================
