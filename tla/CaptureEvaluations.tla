------------------------- MODULE CaptureEvaluations ------------------------
(* The public record of what is evaluated in one CAPTURE stop: the bounded *)
(* ledger of evaluations, the submissions that begin and discard records,  *)
(* the plans that retire them, the observer thread that mirrors a ticket   *)
(* into the ledger, and the clients that wait for an outcome.              *)
(*                                                                         *)
(* The ledger is a monitor: every method is atomic under its condition.    *)
(* A submission holds the controller's lock but not the ledger's, so waits *)
(* interleave with its steps. An interruption (KeyboardInterrupt) may hit  *)
(* a submission after its ticket was adopted.                              *)
(* Abstracted: results, messages and diagnostics; timing marks, which no   *)
(* product code sets; what a plan sends (RdbgArbiter).                     *)
EXTENDS Integers, Sequences, SequencesExt

CONSTANTS
    Receipts,      \* identities of evaluations, each used once
    NoReceipt,     \* None
    HistoryLimit,  \* how many records the ledger retains
    Waiters        \* threads that call wait()

ASSUME ReceiptAssumption == NoReceipt \notin Receipts
ASSUME LimitAssumption == HistoryLimit \in Nat \ {0}

VARIABLES
    scope,       \* "ready", "resuming", or "ended": the stop is no longer current
    records,     \* CaptureEvaluationLedger._records, oldest first
    kind,        \* the kind of each record
    outcome,     \* the outcome of each record, kept by its waiters
    activeId, lastId, lastUserId,
    ticket,      \* the phase or result of each evaluation's arbiter ticket
    observer,    \* the observer thread of each ticket
    submission,  \* the submission under way: its receipt and stage
    waiter       \* each waiting thread: where it is and its record

ledgerVars == <<records, kind, outcome, activeId, lastId, lastUserId>>
vars == <<scope, ledgerVars, ticket, observer, submission, waiter>>

Kinds == {"user", "helper"}
Outcomes == {"none", "unknown", "completed", "failed"}
\* A ticket that can still reach the target, and one that has settled.
Live == {"queued", "running", "reconciling", "unknown"}
Settled == {"value", "error", "cancelled"}
NoSubmission == [receipt |-> NoReceipt, stage |-> "none"]
NoWait == [pc |-> "idle", record |-> NoReceipt]

Init ==
    /\ scope = "ready"
    /\ records = <<>>
    /\ kind = [r \in Receipts |-> "none"] /\ outcome = [r \in Receipts |-> "none"]
    /\ activeId = NoReceipt /\ lastId = NoReceipt /\ lastUserId = NoReceipt
    /\ ticket = [r \in Receipts |-> "none"] /\ observer = [r \in Receipts |-> "none"]
    /\ submission = NoSubmission
    /\ waiter = [w \in Waiters |-> NoWait]

-----------------------------------------------------------------------------
(* The ledger.                                                             *)

Current == scope # "ended"

Newest(seq) == IF seq = <<>> THEN NoReceipt ELSE seq[Len(seq)]

\* The last record that is a cell's.
NewestUser(seq) ==
    LET User(i) == kind[seq[i]] = "user"
        Latest == {i \in DOMAIN seq : User(i) /\ \A j \in DOMAIN seq : j > i => ~User(j)}
    IN  IF Latest = {} THEN NoReceipt ELSE seq[CHOOSE i \in Latest : TRUE]

NotifyAll ==
    waiter' = [w \in Waiters |->
        IF waiter[w].pc = "waiting" THEN [waiter[w] EXCEPT !.pc = "notified"] ELSE waiter[w]]

MutantTrimmed(recs) == recs

\* The oldest record leaves a full history.
Trimmed(recs) == IF Len(recs) > HistoryLimit THEN Tail(recs) ELSE recs

\* _trim_locked(): what selected a removed record selects the newest left.
Retain(recs, last, lastUser) ==
    LET kept == Trimmed(recs)
        Gone(r) == r # NoReceipt /\ r \notin ToSet(kept)
    IN  /\ records' = kept
        /\ lastId' = IF Gone(last) THEN Newest(kept) ELSE last
        /\ lastUserId' = IF Gone(lastUser) THEN NewestUser(kept) ELSE lastUser

\* begin().
BeginRecord(r, k) ==
    /\ Current /\ activeId = NoReceipt /\ kind[r] = "none"
    /\ kind' = [kind EXCEPT ![r] = k]
    /\ activeId' = r
    /\ Retain(Append(records, r), r, IF k = "user" THEN r ELSE lastUserId)
    /\ NotifyAll
    /\ UNCHANGED outcome

\* discard_unstarted(): it raises unless the record is active and unanswered.
DiscardRecord(r) ==
    IF Current /\ activeId = r /\ outcome[r] = "none"
    THEN LET kept == RemoveAt(records, CHOOSE i \in DOMAIN records : records[i] = r)
         IN  /\ records' = kept /\ lastId' = Newest(kept) /\ lastUserId' = NewestUser(kept)
             /\ activeId' = NoReceipt
             /\ NotifyAll
             /\ UNCHANGED <<kind, outcome>>
    ELSE UNCHANGED <<ledgerVars, waiter>>

MutantSettlesSilently(r, o) ==
    IF Current /\ activeId = r
    THEN /\ outcome' = [outcome EXCEPT ![r] = o]
         /\ activeId' = NoReceipt
         /\ Retain(records, lastId, lastUserId)
         /\ UNCHANGED <<kind, waiter>>
    ELSE UNCHANGED <<ledgerVars, waiter>>

\* complete() and fail(): they raise unless the record is active.
SettleRecord(r, o) ==
    IF Current /\ activeId = r
    THEN /\ outcome' = [outcome EXCEPT ![r] = o]
         /\ activeId' = NoReceipt
         /\ Retain(records, lastId, lastUserId)
         /\ NotifyAll
         /\ UNCHANGED kind
    ELSE UNCHANGED <<ledgerVars, waiter>>

MutantMarksAnyRecord(r) ==
    /\ outcome' = [outcome EXCEPT ![r] = "unknown"]
    /\ NotifyAll
    /\ UNCHANGED <<records, kind, activeId, lastId, lastUserId>>

\* mark_unknown(): the record stays active.
MarkRecordUnknown(r) ==
    IF Current /\ activeId = r
    THEN /\ outcome' = [outcome EXCEPT ![r] = "unknown"]
         /\ NotifyAll
         /\ UNCHANGED <<records, kind, activeId, lastId, lastUserId>>
    ELSE UNCHANGED <<ledgerVars, waiter>>

-----------------------------------------------------------------------------
(* Submissions: a cell, or a helper (inspection, metadata, completion,     *)
(* materialization). One at a time, under the controller's lock.           *)

Begin(r, k) ==
    /\ submission = NoSubmission /\ scope = "ready"
    /\ BeginRecord(r, k)
    /\ submission' = [receipt |-> r, stage |-> "begun"]
    /\ UNCHANGED <<scope, ticket, observer>>

BeginCell(r) == Begin(r, "user")
BeginHelper(r) == Begin(r, "helper")

\* The arbiter refuses the ticket, or the cell's registration fails.
SubmitRefused ==
    /\ submission.stage = "begun"
    /\ DiscardRecord(submission.receipt)
    /\ submission' = NoSubmission
    /\ UNCHANGED <<scope, ticket, observer>>

Submitted ==
    /\ submission.stage = "begun"
    /\ ticket' = [ticket EXCEPT ![submission.receipt] = "queued"]
    /\ submission' = [submission EXCEPT !.stage = "submitted"]
    /\ UNCHANGED <<scope, ledgerVars, observer, waiter>>

Dispatched ==
    /\ submission.stage = "submitted"
    /\ submission' = [submission EXCEPT !.stage = "dispatched"]
    /\ UNCHANGED <<scope, ledgerVars, ticket, observer, waiter>>

StartObserver(r) == observer' = [observer EXCEPT ![r] = "watching"]

ObserverStarts ==
    /\ submission.stage = "dispatched"
    /\ StartObserver(submission.receipt)
    /\ submission' = [submission EXCEPT !.stage = "observed"]
    /\ UNCHANGED <<scope, ledgerVars, ticket, waiter>>

Returns ==
    /\ submission.stage = "observed"
    /\ submission' = NoSubmission
    /\ UNCHANGED <<scope, ledgerVars, ticket, observer, waiter>>

\* The submission is interrupted after adoption: cancel what has not begun.
InterruptedEarly(r) ==
    /\ ticket[r] \in {"queued", "cancelled"}
    /\ ticket' = [ticket EXCEPT ![r] = "cancelled"]
    /\ DiscardRecord(r)
    /\ UNCHANGED observer

MutantInterruptedCell ==
    /\ submission.stage \in {"submitted", "dispatched", "observed"}
    /\ LET r == submission.receipt IN
        /\ kind[r] = "user"
        /\ \/ InterruptedEarly(r)
           \/ /\ ticket[r] \notin {"queued", "cancelled"}
              /\ UNCHANGED <<observer, ticket, ledgerVars, waiter>>
    /\ submission' = NoSubmission
    /\ UNCHANGED scope

\* A cell that may have begun still gets its observer.
InterruptedCell ==
    /\ submission.stage \in {"submitted", "dispatched", "observed"}
    /\ LET r == submission.receipt IN
        /\ kind[r] = "user"
        /\ \/ InterruptedEarly(r)
           \/ /\ ticket[r] \notin {"queued", "cancelled"}
              /\ IF observer[r] = "none" THEN StartObserver(r) ELSE UNCHANGED observer
              /\ UNCHANGED <<ticket, ledgerVars, waiter>>
    /\ submission' = NoSubmission
    /\ UNCHANGED scope

MutantInterruptedHelper ==
    /\ submission.stage \in {"submitted", "dispatched"}
    /\ kind[submission.receipt] = "helper"
    /\ DiscardRecord(submission.receipt)
    /\ submission' = NoSubmission
    /\ UNCHANGED <<scope, observer, ticket>>

\* _submit_direct_ticket() cancels a queued helper, or stops one that may have
\* begun; once it has returned, nothing is done if no observer can be started.
InterruptedHelper ==
    /\ submission.stage \in {"submitted", "dispatched"}
    /\ LET r == submission.receipt IN
        /\ kind[r] = "helper"
        /\ \/ InterruptedEarly(r)
           \/ /\ ticket[r] \notin {"queued", "cancelled"} \/ submission.stage = "dispatched"
              /\ UNCHANGED <<observer, ticket, ledgerVars, waiter>>
    /\ submission' = NoSubmission
    /\ UNCHANGED scope

-----------------------------------------------------------------------------
(* The arbiter's worker, as far as the ledger is concerned.                *)

Owned == \E r \in Receipts : ticket[r] \in {"running", "reconciling", "finishing", "unknown"}
Moves(r, phase) == ticket' = [ticket EXCEPT ![r] = phase]
WorkerFrame == UNCHANGED <<scope, observer, submission>>

TakeTicket(r) ==
    /\ ticket[r] = "queued" /\ ~Owned
    /\ submission # [receipt |-> r, stage |-> "submitted"]
    /\ Moves(r, "running")
    /\ UNCHANGED <<ledgerVars, waiter>> /\ WorkerFrame

\* The plan, or its finalizer, retires the record before the ticket settles.
Retire(r, o) ==
    /\ SettleRecord(r, o)
    /\ Moves(r, "finishing")
    /\ WorkerFrame

RetireCell(r, o) ==
    /\ kind[r] = "user" /\ ticket[r] \in {"running", "reconciling"}
    /\ Retire(r, o)

RetireHelper(r, o) ==
    /\ kind[r] = "helper" /\ ticket[r] = "running"
    /\ Retire(r, o)

Finish(r, result) ==
    /\ ticket[r] = "finishing"
    /\ outcome[r] = "completed" => result = "value"
    /\ Moves(r, result)
    /\ UNCHANGED <<ledgerVars, waiter>> /\ WorkerFrame

\* A stopped or locally failed plan raises without telling the ledger.
Drops(r, result) ==
    /\ ticket[r] = "running"
    /\ Moves(r, result)
    /\ UNCHANGED <<ledgerVars, waiter>> /\ WorkerFrame

BecomesUnknown(r) ==
    /\ ticket[r] \in {"running", "reconciling"}
    /\ Moves(r, "unknown")
    /\ UNCHANGED <<ledgerVars, waiter>> /\ WorkerFrame

\* Only cells are repaired or reconciled.
Reconcile(r) ==
    /\ ticket[r] = "unknown" /\ kind[r] = "user" /\ scope = "ready"
    /\ Moves(r, "reconciling")
    /\ UNCHANGED <<ledgerVars, waiter>> /\ WorkerFrame

StopQueued(r) ==
    /\ ticket[r] = "queued"
    /\ Moves(r, "cancelled")
    /\ UNCHANGED <<ledgerVars, waiter>> /\ WorkerFrame

\* _stop_confirmed_exit() for a stopped ticket of unknown outcome; it takes the
\* lock a submission holds.
TargetLost(r) ==
    /\ ticket[r] = "unknown" /\ submission = NoSubmission
    /\ scope' = "ended"
    /\ Moves(r, "error")
    /\ NotifyAll
    /\ UNCHANGED <<ledgerVars, observer, submission>>

-----------------------------------------------------------------------------
(* _observe_capture_ticket().                                              *)

ObserverGoes(r, pc) == observer' = [observer EXCEPT ![r] = pc]

Observes(r) ==
    /\ observer[r] = "watching"
    /\ \/ ticket[r] = "unknown" /\ ObserverGoes(r, "saw unknown")
       \/ ticket[r] \in {"error", "cancelled"} /\ ObserverGoes(r, "saw error")
       \/ ticket[r] = "value" /\ ObserverGoes(r, "done")
    /\ UNCHANGED <<scope, ledgerVars, ticket, submission, waiter>>

Mirrors(r) ==
    /\ \/ observer[r] = "saw unknown" /\ MarkRecordUnknown(r)
       \/ observer[r] = "saw error" /\ SettleRecord(r, "failed")
    /\ ObserverGoes(r, "done")
    /\ UNCHANGED <<scope, ticket, submission>>

-----------------------------------------------------------------------------
(* The resume of the stop, and its end.                                    *)

ResumeBegins ==
    /\ submission = NoSubmission /\ scope = "ready" /\ activeId = NoReceipt
    /\ scope' = "resuming"
    /\ NotifyAll
    /\ UNCHANGED <<ledgerVars, ticket, observer, submission>>

ResumeFails ==
    /\ scope = "resuming"
    /\ scope' = "ready"
    /\ UNCHANGED <<ledgerVars, ticket, observer, submission, waiter>>

\* The scope closes and the ledger is told.
ResumeEnds ==
    /\ scope = "resuming" /\ ~Owned
    /\ scope' = "ended"
    /\ NotifyAll
    /\ UNCHANGED <<ledgerVars, ticket, observer, submission>>

\* A lost Continue: mark_unverified() tells the ledger nothing.
ResumeLost ==
    /\ scope = "resuming" /\ ~Owned
    /\ scope' = "ended"
    /\ UNCHANGED <<ledgerVars, ticket, observer, submission, waiter>>

-----------------------------------------------------------------------------
(* wait().                                                                 *)

\* The named record, or the active one, or the last one.
Selected(id) ==
    IF id # NoReceipt THEN id ELSE IF activeId # NoReceipt THEN activeId ELSE lastId

WaitBegins(w, id) ==
    /\ waiter[w].pc = "idle" /\ Current
    /\ Selected(id) \in ToSet(records) /\ outcome[Selected(id)] = "none"
    /\ waiter' = [waiter EXCEPT ![w] = [pc |-> "waiting", record |-> Selected(id)]]
    /\ UNCHANGED <<scope, ledgerVars, ticket, observer, submission>>

\* A notified waiter answers, raises StaleCaptureError, or waits again.
WaiterWakes(w) ==
    /\ waiter[w].pc = "notified"
    /\ waiter' = [waiter EXCEPT ![w] =
            IF ~Current \/ outcome[waiter[w].record] # "none" THEN NoWait
            ELSE [waiter[w] EXCEPT !.pc = "waiting"]]
    /\ UNCHANGED <<scope, ledgerVars, ticket, observer, submission>>

\* A wait with a timeout gives up; nothing says that a wait has one.
WaitTimesOut(w) ==
    /\ waiter[w].pc # "idle"
    /\ waiter' = [waiter EXCEPT ![w] = NoWait]
    /\ UNCHANGED <<scope, ledgerVars, ticket, observer, submission>>

-----------------------------------------------------------------------------
SubmissionProceeds == SubmitRefused \/ Submitted \/ Dispatched \/ ObserverStarts \/ Returns

Submission ==
    \/ \E r \in Receipts : BeginCell(r) \/ BeginHelper(r)
    \/ SubmissionProceeds \/ InterruptedCell \/ InterruptedHelper

Worker ==
    \E r \in Receipts :
        \/ TakeTicket(r) \/ BecomesUnknown(r) \/ Reconcile(r)
        \/ StopQueued(r) \/ TargetLost(r)
        \/ \E o \in {"completed", "failed"} : RetireCell(r, o) \/ RetireHelper(r, o)
        \/ \E result \in {"value", "error"} : Finish(r, result)
        \/ \E result \in {"error", "cancelled"} : Drops(r, result)

Observer(r) == Observes(r) \/ Mirrors(r)

Waiting ==
    \E w \in Waiters :
        \/ \E id \in Receipts \cup {NoReceipt} : WaitBegins(w, id)
        \/ WaiterWakes(w) \/ WaitTimesOut(w)

Next ==
    \/ Submission \/ Worker \/ Waiting
    \/ \E r \in Receipts : Observer(r)
    \/ ResumeBegins \/ ResumeFails \/ ResumeEnds \/ ResumeLost

Spec == Init /\ [][Next]_vars

\* Threads that can run do run: a submission, an observer, a notified waiter.
Fairness ==
    /\ WF_vars(SubmissionProceeds)
    /\ \A r \in Receipts : WF_vars(Observer(r))
    /\ \A w \in Waiters : WF_vars(WaiterWakes(w))

FairSpec == Spec /\ Fairness

-----------------------------------------------------------------------------
(* Properties.                                                             *)

\* Every variable keeps its type and the history its bound, and trimming never
\* leaves a selection of a record that is gone, nor removes the active one.
TypeOK ==
    /\ scope \in {"ready", "resuming", "ended"}
    /\ records \in Seq(Receipts) /\ Len(records) <= HistoryLimit
    /\ kind \in [Receipts -> Kinds \cup {"none"}] /\ outcome \in [Receipts -> Outcomes]
    /\ {activeId, lastId, lastUserId} \subseteq ToSet(records) \cup {NoReceipt}
    /\ ticket \in [Receipts -> Live \cup Settled \cup {"none", "finishing"}]
    /\ observer \in [Receipts -> {"none", "watching", "saw unknown", "saw error", "done"}]
    /\ submission \in [receipt : Receipts \cup {NoReceipt},
                       stage : {"none", "begun", "submitted", "dispatched", "observed"}]
    /\ waiter \in [Waiters -> [pc : {"idle", "waiting", "notified"},
                               record : Receipts \cup {NoReceipt}]]

\* While the stop is current, an evaluation that may still reach the target is
\* the active record: the public phase is never paused, and no resume begins,
\* beside it, even when its submission was interrupted or refused.
PausedMeansQuiet ==
    Current => \A r \in Receipts : ticket[r] \in Live => activeId = r /\ scope = "ready"

\* A published outcome is final; an unknown one may only be resolved. A late
\* observer never revives a record that a reconciliation has settled.
OutcomeIsFinal ==
    [][\A r \in Receipts :
        /\ outcome[r] \in {"completed", "failed"} => outcome'[r] = outcome[r]
        /\ outcome[r] = "unknown" => outcome'[r] # "none"]_vars

\* However a cell's ticket settles, its record does not stay active: the stop
\* does not remain "evaluating" for a cell that is over.
CellRetires ==
    \A r \in Receipts :
        kind[r] = "user" /\ ticket[r] \in Settled ~> activeId # r \/ ~Current

\* No notification is lost: a waiter whose record is answered returns.
AnsweredWaiterReturns ==
    \A w \in Waiters :
        waiter[w].pc # "idle" /\ outcome[waiter[w].record] # "none"
            ~> waiter[w].pc = "idle"
=============================================================================
