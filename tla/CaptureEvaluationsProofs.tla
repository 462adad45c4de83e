---------------------- MODULE CaptureEvaluationsProofs ----------------------
(***************************************************************************)
(* Proofs about CaptureEvaluations: type correctness of the ledger, that   *)
(* no evaluation is live beside a paused or resuming stop, and that a      *)
(* published outcome is final.                                             *)
(***************************************************************************)
EXTENDS CaptureEvaluations, QueueLemmas

USE DEF ledgerVars, vars

-----------------------------------------------------------------------------
(* The inductive invariant.                                                *)

\* An evaluation that was never begun has left no trace.
FreshIsUnused ==
    \A r \in Receipts : kind[r] = "none" =>
        ticket[r] = "none" /\ outcome[r] = "none" /\ observer[r] = "none"

\* A submission holds the controller's lock, so the stop stays ready; until its ticket
\* is released its record is active, and nothing but itself can answer or discard it.
SubmissionOwns ==
    submission # NoSubmission =>
        LET r == submission.receipt IN
        /\ r \in Receipts /\ kind[r] \in Kinds /\ scope = "ready"
        /\ submission.stage \in {"begun", "submitted", "dispatched", "observed"}
        /\ submission.stage = "begun" => activeId = r /\ ticket[r] = "none"
        /\ submission.stage \in {"begun", "submitted", "dispatched"} => observer[r] = "none"

\* The active record has no final outcome, and only a ready stop has one.
ActiveIsOpen ==
    activeId # NoReceipt =>
        /\ outcome[activeId] \in {"none", "unknown"}
        /\ kind[activeId] \in Kinds
        /\ scope # "resuming"

\* What an observer saw settled stays settled.
ObserverSaw ==
    \A r \in Receipts : observer[r] = "saw error" => ticket[r] \in {"error", "cancelled"}

LedgerInv == FreshIsUnused /\ SubmissionOwns /\ ActiveIsOpen /\ ObserverSaw /\ PausedMeansQuiet

-----------------------------------------------------------------------------
(* The bounded history.                                                    *)

\* Trimming an overfull history by one keeps its newest record.
LEMMA TrimmedFacts ==
    ASSUME NEW recs \in Seq(Receipts), Len(recs) <= HistoryLimit + 1
    PROVE  /\ Trimmed(recs) \in Seq(Receipts) /\ Len(Trimmed(recs)) <= HistoryLimit
           /\ recs # <<>> => recs[Len(recs)] \in ToSet(Trimmed(recs))
<1>1. CASE Len(recs) > HistoryLimit
  <2> DEFINE kept == Tail(recs)
  <2>1. recs # <<>> /\ Len(recs) \in Nat /\ Len(recs) > 1
    BY <1>1, LimitAssumption, LenProperties, EmptySeq
  <2>2. /\ kept \in Seq(Receipts) /\ Len(kept) = Len(recs) - 1
        /\ \A i \in 1 .. Len(kept) : kept[i] = recs[i + 1]
    BY <2>1, HeadTailProperties
  <2> HIDE DEF kept
  <2>3. Len(recs) - 1 \in DOMAIN kept /\ kept[Len(recs) - 1] = recs[Len(recs)]
    BY <2>1, <2>2, LenProperties
  <2>4. recs[Len(recs)] \in ToSet(kept)
    BY <2>3 DEF ToSet
  <2> QED BY <1>1, <2>1, <2>2, <2>4, LimitAssumption DEF Trimmed, kept
<1>2. CASE ~(Len(recs) > HistoryLimit)
  <2>1. Len(recs) \in Nat /\ DOMAIN recs = 1 .. Len(recs) /\ (recs # <<>> => Len(recs) > 0)
    BY LenProperties, EmptySeq
  <2>2. recs # <<>> => recs[Len(recs)] \in ToSet(recs)
    BY <2>1 DEF ToSet
  <2> QED BY <1>2, <2>1, <2>2, LimitAssumption DEF Trimmed
<1> QED BY <1>1, <1>2

\* What selects the newest record, or the newest of a cell, selects one that is there.
LEMMA NewestFacts ==
    ASSUME NEW recs \in Seq(Receipts)
    PROVE  /\ Newest(recs) \in ToSet(recs) \cup {NoReceipt}
           /\ NewestUser(recs) \in ToSet(recs) \cup {NoReceipt}
<1>1. Newest(recs) \in ToSet(recs) \cup {NoReceipt}
  <2>1. Len(recs) \in Nat /\ DOMAIN recs = 1 .. Len(recs) /\ (recs # <<>> => Len(recs) > 0)
    BY LenProperties, EmptySeq
  <2> QED BY <2>1 DEF Newest, ToSet
<1>2. NewestUser(recs) \in ToSet(recs) \cup {NoReceipt}
  BY DEF NewestUser, ToSet
<1> QED BY <1>1, <1>2

\* The selections of the ledger name records it retains.
LedgerOK ==
    /\ records \in Seq(Receipts) /\ Len(records) <= HistoryLimit
    /\ kind \in [Receipts -> Kinds \cup {"none"}] /\ outcome \in [Receipts -> Outcomes]
    /\ {activeId, lastId, lastUserId} \subseteq ToSet(records) \cup {NoReceipt}

WaiterOK == waiter \in [Waiters -> [pc : {"idle", "waiting", "notified"},
                                    record : Receipts \cup {NoReceipt}]]

LEMMA RetainFacts ==
    ASSUME NEW recs \in Seq(Receipts), Len(recs) <= HistoryLimit + 1,
           NEW last, NEW lastUser, Retain(recs, last, lastUser)
    PROVE  /\ records' \in Seq(Receipts) /\ Len(records') <= HistoryLimit
           /\ {lastId', lastUserId'} \subseteq ToSet(records') \cup {NoReceipt}
           /\ recs # <<>> => recs[Len(recs)] \in ToSet(records')
<1>1. /\ records' = Trimmed(recs)
      /\ lastId' = IF last # NoReceipt /\ last \notin ToSet(records') THEN Newest(records') ELSE last
      /\ lastUserId' = IF lastUser # NoReceipt /\ lastUser \notin ToSet(records')
                       THEN NewestUser(records') ELSE lastUser
  BY DEF Retain
<1>2. /\ records' \in Seq(Receipts) /\ Len(records') <= HistoryLimit
      /\ recs # <<>> => recs[Len(recs)] \in ToSet(records')
  BY <1>1, TrimmedFacts
<1>3. Newest(records') \in ToSet(records') \cup {NoReceipt}
      /\ NewestUser(records') \in ToSet(records') \cup {NoReceipt}
  BY <1>2, NewestFacts
<1> QED BY <1>1, <1>2, <1>3

LEMMA NotifyFacts == ASSUME WaiterOK, NotifyAll PROVE WaiterOK'
BY DEF WaiterOK, NotifyAll

\* begin(): the new record is retained and active.
LEMMA BeginFacts ==
    ASSUME LedgerOK, WaiterOK, NEW r \in Receipts, NEW k \in Kinds, BeginRecord(r, k)
    PROVE  LedgerOK' /\ WaiterOK'
<1> DEFINE recs == Append(records, r)
           user == IF k = "user" THEN r ELSE lastUserId
<1>1. /\ recs \in Seq(Receipts) /\ Len(recs) = Len(records) + 1 /\ recs[Len(records) + 1] = r
      /\ recs # <<>>
  BY AppendProperties DEF LedgerOK
<1>2. Len(records) \in Nat
  BY LenProperties DEF LedgerOK
<1>3. Retain(recs, r, user)
  BY DEF BeginRecord
<1> HIDE DEF recs, user
<1>4. /\ records' \in Seq(Receipts) /\ Len(records') <= HistoryLimit
      /\ {lastId', lastUserId'} \subseteq ToSet(records') \cup {NoReceipt}
      /\ r \in ToSet(records')
  BY <1>1, <1>2, <1>3, RetainFacts, LimitAssumption DEF LedgerOK
<1>5. activeId' = r /\ kind' = [kind EXCEPT ![r] = k] /\ outcome' = outcome /\ NotifyAll
  BY DEF BeginRecord
<1>6. kind' \in [Receipts -> Kinds \cup {"none"}]
  BY <1>5 DEF LedgerOK
<1> QED
  BY <1>4, <1>5, <1>6, NotifyFacts DEF LedgerOK

\* complete() and fail().
LEMMA SettleFacts ==
    ASSUME LedgerOK, WaiterOK, NEW r \in Receipts, NEW o \in Outcomes, SettleRecord(r, o)
    PROVE  LedgerOK' /\ WaiterOK'
<1>1. CASE Current /\ activeId = r
  <2>1. Retain(records, lastId, lastUserId) /\ NotifyAll /\ activeId' = NoReceipt
        /\ outcome' = [outcome EXCEPT ![r] = o] /\ kind' = kind
    BY <1>1 DEF SettleRecord
  <2>2. Len(records) \in Nat
    BY LenProperties DEF LedgerOK
  <2>3. /\ records' \in Seq(Receipts) /\ Len(records') <= HistoryLimit
        /\ {lastId', lastUserId'} \subseteq ToSet(records') \cup {NoReceipt}
    BY <2>1, <2>2, RetainFacts, LimitAssumption DEF LedgerOK
  <2> QED
    BY <2>1, <2>3, NotifyFacts DEF LedgerOK
<1>2. CASE ~(Current /\ activeId = r)
  BY <1>2 DEF SettleRecord, LedgerOK, WaiterOK
<1> QED BY <1>1, <1>2

\* discard_unstarted(): the record is taken out wherever it is.
LEMMA DiscardFacts ==
    ASSUME LedgerOK, WaiterOK, NEW r \in Receipts, DiscardRecord(r)
    PROVE  LedgerOK' /\ WaiterOK'
<1>1. CASE Current /\ activeId = r /\ outcome[r] = "none"
  <2> DEFINE n == CHOOSE i \in DOMAIN records : records[i] = r
             kept == RemoveAt(records, n)
  <2>1. /\ records' = kept /\ lastId' = Newest(kept) /\ lastUserId' = NewestUser(kept)
        /\ activeId' = NoReceipt /\ NotifyAll /\ kind' = kind /\ outcome' = outcome
    BY <1>1 DEF DiscardRecord
  <2>2. n \in DOMAIN records
    BY <1>1, ReceiptAssumption DEF LedgerOK, ToSet
  <2> HIDE DEF n
  <2>3. kept \in Seq(Receipts) /\ Len(kept) = Len(records) - 1
    <3>1. kept \in Seq(Receipts) /\ 1 .. Len(kept) = 1 .. (Len(records) - 1)
      BY <2>2, RemoveAtType, RemoveAtElements, LenProperties DEF LedgerOK
    <3>2. Len(kept) \in Nat /\ Len(records) \in Nat \ {0}
      BY <2>2, <3>1, LenProperties DEF LedgerOK
    <3> HIDE DEF kept
    <3> QED BY <3>1, <3>2
  <2>4. Len(records) \in Nat
    BY LenProperties DEF LedgerOK
  <2> HIDE DEF kept
  <2>5. Newest(kept) \in ToSet(kept) \cup {NoReceipt} /\ NewestUser(kept) \in ToSet(kept) \cup {NoReceipt}
    BY <2>3, NewestFacts
  <2> QED
    BY <2>1, <2>3, <2>4, <2>5, NotifyFacts, LimitAssumption DEF LedgerOK
<1>2. CASE ~(Current /\ activeId = r /\ outcome[r] = "none")
  BY <1>2 DEF DiscardRecord, LedgerOK, WaiterOK
<1> QED BY <1>1, <1>2

\* mark_unknown().
LEMMA MarkFacts ==
    ASSUME LedgerOK, WaiterOK, NEW r \in Receipts, MarkRecordUnknown(r)
    PROVE  LedgerOK' /\ WaiterOK'
BY NotifyFacts DEF MarkRecordUnknown, LedgerOK, WaiterOK, Outcomes

-----------------------------------------------------------------------------
(* Type correctness.                                                       *)

\* What TypeOK says of the rest.
RestOK ==
    /\ scope \in {"ready", "resuming", "ended"}
    /\ ticket \in [Receipts -> Live \cup Settled \cup {"none", "finishing"}]
    /\ observer \in [Receipts -> {"none", "watching", "saw unknown", "saw error", "done"}]
    /\ submission \in [receipt : Receipts \cup {NoReceipt},
                       stage : {"none", "begun", "submitted", "dispatched", "observed"}]

LEMMA TypeParts == TypeOK <=> LedgerOK /\ WaiterOK /\ RestOK
BY DEF TypeOK, LedgerOK, WaiterOK, RestOK

LEMMA TypeJoins == ASSUME LedgerOK', WaiterOK', RestOK' PROVE TypeOK'
BY DEF TypeOK, LedgerOK, WaiterOK, RestOK

\* A submission under way names the evaluation it began.
LEMMA SubmissionFacts ==
    ASSUME TypeOK, SubmissionOwns, submission.stage # "none"
    PROVE  submission.receipt \in Receipts /\ submission # NoSubmission
BY DEF SubmissionOwns, NoSubmission

LEMMA SubmissionTypes == ASSUME TypeOK, SubmissionOwns, Submission PROVE TypeOK'
<1> DEFINE r == submission.receipt
<1>0. LedgerOK /\ WaiterOK /\ RestOK /\ NoSubmission \in [receipt : Receipts \cup {NoReceipt},
                       stage : {"none", "begun", "submitted", "dispatched", "observed"}]
  BY TypeParts DEF NoSubmission
<1>1. ASSUME NEW s \in Receipts, NEW k \in Kinds, Begin(s, k) PROVE TypeOK'
  BY <1>0, <1>1, BeginFacts, TypeJoins DEF Begin, RestOK
<1>2. CASE SubmitRefused
  BY <1>0, <1>2, SubmissionFacts, DiscardFacts, TypeJoins DEF SubmitRefused, RestOK
<1>3. CASE Submitted
  <2>1. LedgerOK' /\ WaiterOK'
    BY <1>0, <1>3 DEF Submitted, LedgerOK, WaiterOK
  <2>2. RestOK'
    BY <1>0, <1>3 DEF Submitted, RestOK, Live
  <2> QED BY <2>1, <2>2, TypeJoins
<1>4. CASE Dispatched
  <2>1. LedgerOK' /\ WaiterOK'
    BY <1>0, <1>4 DEF Dispatched, LedgerOK, WaiterOK
  <2>2. RestOK'
    BY <1>0, <1>4 DEF Dispatched, RestOK
  <2> QED BY <2>1, <2>2, TypeJoins
<1>5. CASE ObserverStarts
  <2>1. LedgerOK' /\ WaiterOK'
    BY <1>0, <1>5 DEF ObserverStarts, LedgerOK, WaiterOK
  <2>2. RestOK'
    BY <1>0, <1>5 DEF ObserverStarts, StartObserver, RestOK
  <2> QED BY <2>1, <2>2, TypeJoins
<1>6. CASE Returns
  <2>1. LedgerOK' /\ WaiterOK'
    BY <1>0, <1>6 DEF Returns, LedgerOK, WaiterOK
  <2>2. RestOK'
    BY <1>0, <1>6 DEF Returns, RestOK
  <2> QED BY <2>1, <2>2, TypeJoins
<1>7. ASSUME InterruptedCell \/ InterruptedHelper PROVE TypeOK'
  <2>1. r \in Receipts
    BY <1>7, SubmissionFacts DEF InterruptedCell, InterruptedHelper
  <2>2. CASE InterruptedEarly(r)
    <3>1. LedgerOK' /\ WaiterOK'
      BY <1>0, <2>1, <2>2, DiscardFacts DEF InterruptedEarly
    <3>2. RestOK'
      BY <1>0, <1>7, <2>2 DEF InterruptedCell, InterruptedHelper, InterruptedEarly, RestOK, Settled
    <3> QED BY <3>1, <3>2, TypeJoins
  <2>3. CASE ~InterruptedEarly(r)
    <3>1. LedgerOK' /\ WaiterOK'
      BY <1>0, <1>7, <2>3 DEF InterruptedCell, InterruptedHelper, LedgerOK, WaiterOK
    <3>2. RestOK'
      BY <1>0, <1>7, <2>3 DEF InterruptedCell, InterruptedHelper, StartObserver, RestOK
    <3> QED BY <3>1, <3>2, TypeJoins
  <2> QED BY <2>2, <2>3
<1> QED
  BY <1>1, <1>2, <1>3, <1>4, <1>5, <1>6, <1>7
     DEF Submission, SubmissionProceeds, BeginCell, BeginHelper, Kinds

\* Steps that move a ticket or an observer, and at most settle the record.
LEMMA WorkerTypes == ASSUME TypeOK, Worker PROVE TypeOK'
<1>0. LedgerOK /\ WaiterOK /\ RestOK
  BY TypeParts
<1>1. ASSUME NEW r \in Receipts, NEW phase \in Live \cup Settled \cup {"finishing"}, Moves(r, phase),
             scope' \in {scope, "ended"}, UNCHANGED <<observer, submission>>
      PROVE  RestOK'
  BY <1>0, <1>1 DEF Moves, RestOK
<1>2. UNCHANGED ledgerVars /\ (UNCHANGED waiter \/ NotifyAll) => LedgerOK' /\ WaiterOK'
  BY <1>0, NotifyFacts DEF LedgerOK, WaiterOK
<1>3. ASSUME NEW r \in Receipts,
             TakeTicket(r) \/ BecomesUnknown(r) \/ Reconcile(r) \/ StopQueued(r) \/ TargetLost(r)
      PROVE  TypeOK'
  <2>1. \E phase \in Live \cup Settled \cup {"finishing"} : Moves(r, phase)
    BY <1>3 DEF TakeTicket, BecomesUnknown, Reconcile, StopQueued, TargetLost, Live, Settled
  <2>2. scope' \in {scope, "ended"} /\ UNCHANGED <<observer, submission>>
    BY <1>3 DEF TakeTicket, BecomesUnknown, Reconcile, StopQueued, TargetLost, WorkerFrame
  <2>3. UNCHANGED ledgerVars /\ (UNCHANGED waiter \/ NotifyAll)
    BY <1>3 DEF TakeTicket, BecomesUnknown, Reconcile, StopQueued, TargetLost
  <2> QED BY <1>1, <1>2, <2>1, <2>2, <2>3, TypeJoins
<1>4. ASSUME NEW r \in Receipts, NEW o \in {"completed", "failed"}, RetireCell(r, o) \/ RetireHelper(r, o)
      PROVE  TypeOK'
  <2>1. SettleRecord(r, o) /\ Moves(r, "finishing") /\ UNCHANGED <<scope, observer, submission>>
    BY <1>4 DEF RetireCell, RetireHelper, Retire, WorkerFrame
  <2>2. o \in Outcomes
    BY DEF Outcomes
  <2>3. LedgerOK' /\ WaiterOK'
    BY <1>0, <2>1, <2>2, SettleFacts
  <2>4. RestOK'
    BY <1>1, <2>1
  <2> QED BY <2>3, <2>4, TypeJoins
<1>5. ASSUME NEW r \in Receipts, NEW result \in {"value", "error", "cancelled"},
             Finish(r, result) \/ Drops(r, result)
      PROVE  TypeOK'
  BY <1>1, <1>2, <1>5, TypeJoins DEF Finish, Drops, WorkerFrame, Settled
<1> QED
  BY <1>3, <1>4, <1>5 DEF Worker

LEMMA ObserverTypes == ASSUME TypeOK, NEW r \in Receipts, Observer(r) PROVE TypeOK'
<1>0. LedgerOK /\ WaiterOK /\ RestOK
  BY TypeParts
<1>1. CASE Observes(r)
  <2>1. LedgerOK' /\ WaiterOK'
    BY <1>0, <1>1 DEF Observes, LedgerOK, WaiterOK
  <2>2. RestOK'
    BY <1>0, <1>1 DEF Observes, ObserverGoes, RestOK
  <2> QED BY <2>1, <2>2, TypeJoins
<1>2. CASE Mirrors(r)
  <2>1. LedgerOK' /\ WaiterOK'
    BY <1>0, <1>2, SettleFacts, MarkFacts DEF Mirrors, Outcomes
  <2>2. RestOK'
    BY <1>0, <1>2 DEF Mirrors, ObserverGoes, RestOK
  <2> QED BY <2>1, <2>2, TypeJoins
<1> QED BY <1>1, <1>2 DEF Observer

LEMMA WaitingTypes == ASSUME TypeOK, Waiting PROVE TypeOK'
<1>0. LedgerOK /\ WaiterOK /\ RestOK
  BY TypeParts
<1>1. ASSUME UNCHANGED <<scope, ledgerVars, ticket, observer, submission>> PROVE LedgerOK' /\ RestOK'
  <2>1. LedgerOK'
    BY <1>0, <1>1 DEF LedgerOK
  <2>2. RestOK'
    BY <1>0, <1>1 DEF RestOK
  <2> QED BY <2>1, <2>2
<1>2. ASSUME NEW w \in Waiters, NEW id, WaitBegins(w, id) PROVE TypeOK'
  <2>1. Selected(id) \in Receipts
    BY <1>0, <1>2 DEF WaitBegins, LedgerOK, ToSet
  <2>2. WaiterOK'
    BY <1>0, <1>2, <2>1 DEF WaitBegins, WaiterOK
  <2> QED BY <1>1, <1>2, <2>2, TypeJoins DEF WaitBegins
<1>3. ASSUME NEW w \in Waiters, WaiterWakes(w) \/ WaitTimesOut(w) PROVE TypeOK'
  <2>1. WaiterOK'
    BY <1>0, <1>3 DEF WaiterWakes, WaitTimesOut, WaiterOK, NoWait
  <2> QED BY <1>1, <1>3, <2>1, TypeJoins DEF WaiterWakes, WaitTimesOut
<1> QED BY <1>2, <1>3 DEF Waiting

LEMMA ResumeTypes ==
    ASSUME TypeOK, ResumeBegins \/ ResumeFails \/ ResumeEnds \/ ResumeLost PROVE TypeOK'
<1>0. LedgerOK /\ WaiterOK /\ RestOK
  BY TypeParts
<1>1. UNCHANGED <<ledgerVars, ticket, observer, submission>> /\ scope' \in {"ready", "resuming", "ended"}
      /\ (UNCHANGED waiter \/ NotifyAll)
  BY DEF ResumeBegins, ResumeFails, ResumeEnds, ResumeLost
<1>2. LedgerOK' /\ RestOK' /\ WaiterOK'
  BY <1>0, <1>1, NotifyFacts DEF LedgerOK, RestOK, WaiterOK
<1> QED BY <1>2, TypeJoins

LEMMA NextTypes == ASSUME TypeOK, SubmissionOwns, [Next]_vars PROVE TypeOK'
<1>1. CASE UNCHANGED vars
  BY <1>1 DEF TypeOK
<1> QED
  BY <1>1, SubmissionTypes, WorkerTypes, ObserverTypes, WaitingTypes, ResumeTypes DEF Next

-----------------------------------------------------------------------------
(* Nothing live beside a paused stop, and final outcomes.                  *)

\* A submission takes the record for its ticket, and gives it up only with it.
LEMMA SubmissionKeepsLedger == ASSUME TypeOK, LedgerInv, Submission PROVE LedgerInv'
<1> DEFINE r == submission.receipt
<1>0. /\ FreshIsUnused /\ SubmissionOwns /\ ActiveIsOpen /\ ObserverSaw /\ PausedMeansQuiet
      /\ kind \in [Receipts -> Kinds \cup {"none"}] /\ outcome \in [Receipts -> Outcomes]
      /\ ticket \in [Receipts -> Live \cup Settled \cup {"none", "finishing"}]
      /\ observer \in [Receipts -> {"none", "watching", "saw unknown", "saw error", "done"}]
      /\ submission \in [receipt : Receipts \cup {NoReceipt},
                         stage : {"none", "begun", "submitted", "dispatched", "observed"}]
      /\ NoReceipt \notin Receipts
  BY ReceiptAssumption DEF LedgerInv, TypeOK
<1>1. submission.stage # "none" =>
         /\ r \in Receipts /\ kind[r] \in Kinds /\ scope = "ready" /\ submission # NoSubmission
         /\ submission.stage = "begun" => activeId = r /\ ticket[r] = "none"
         /\ submission.stage \in {"begun", "submitted", "dispatched"} => observer[r] = "none"
  <2>1. submission.stage # "none" => submission # NoSubmission
    BY DEF NoSubmission
  <2> QED BY <1>0, <2>1 DEF SubmissionOwns
<1>2. ASSUME NEW q \in Receipts, NEW k \in Kinds, Begin(q, k) PROVE LedgerInv'
  <2>1. /\ scope = "ready" /\ scope' = scope /\ activeId = NoReceipt /\ kind[q] = "none"
        /\ kind' = [kind EXCEPT ![q] = k] /\ activeId' = q
        /\ submission' = [receipt |-> q, stage |-> "begun"]
        /\ UNCHANGED <<ticket, observer, outcome>>
    BY <1>2 DEF Begin, BeginRecord
  <2>2. ticket[q] = "none" /\ outcome[q] = "none" /\ observer[q] = "none"
    BY <1>0, <2>1 DEF FreshIsUnused
  <2>3. \A s \in Receipts : ticket[s] \notin Live
    BY <1>0, <2>1 DEF PausedMeansQuiet, Current
  <2>4. FreshIsUnused' /\ ObserverSaw' /\ PausedMeansQuiet'
    BY <1>0, <2>1, <2>3 DEF FreshIsUnused, ObserverSaw, PausedMeansQuiet, Kinds
  <2>5. SubmissionOwns' /\ ActiveIsOpen'
    BY <1>0, <2>1, <2>2 DEF SubmissionOwns, ActiveIsOpen, NoSubmission
  <2> QED BY <2>4, <2>5 DEF LedgerInv
<1>3. CASE SubmitRefused
  <2>1. /\ activeId = r /\ ticket[r] = "none" /\ r \in Receipts /\ activeId' \in {activeId, NoReceipt}
        /\ submission' = NoSubmission /\ UNCHANGED <<scope, ticket, observer, kind, outcome>>
    BY <1>1, <1>3 DEF SubmitRefused, DiscardRecord
  <2>2. \A s \in Receipts : Current => ticket[s] \notin Live
    BY <1>0, <2>1 DEF PausedMeansQuiet, Live
  <2>3. FreshIsUnused' /\ ObserverSaw' /\ PausedMeansQuiet' /\ SubmissionOwns' /\ ActiveIsOpen'
    BY <1>0, <2>1, <2>2 DEF FreshIsUnused, ObserverSaw, PausedMeansQuiet, SubmissionOwns, ActiveIsOpen, Current
  <2> QED BY <2>3 DEF LedgerInv
<1>4. CASE Submitted
  <2>1. /\ activeId = r /\ ticket[r] = "none" /\ r \in Receipts /\ kind[r] \in Kinds
        /\ scope = "ready" /\ observer[r] = "none" /\ ticket' = [ticket EXCEPT ![r] = "queued"]
        /\ submission' = [submission EXCEPT !.stage = "submitted"]
        /\ UNCHANGED <<scope, observer, activeId, kind, outcome>>
    BY <1>1, <1>4 DEF Submitted
  <2>2. submission'.receipt = r /\ submission'.stage = "submitted"
    BY <1>0, <2>1
  <2>3. FreshIsUnused' /\ ObserverSaw'
    BY <1>0, <2>1 DEF FreshIsUnused, ObserverSaw, Kinds
  <2>4. PausedMeansQuiet'
    BY <1>0, <2>1 DEF PausedMeansQuiet, Current, Live
  <2>5. SubmissionOwns' /\ ActiveIsOpen'
    BY <1>0, <2>1, <2>2 DEF SubmissionOwns, ActiveIsOpen
  <2> QED BY <2>3, <2>4, <2>5 DEF LedgerInv
<1>5. ASSUME Dispatched \/ ObserverStarts \/ Returns PROVE LedgerInv'
  <2>1. /\ UNCHANGED <<scope, ticket, activeId, kind, outcome>>
        /\ r \in Receipts /\ kind[r] \in Kinds
        /\ \/ observer' = observer
           \/ observer' = [observer EXCEPT ![r] = "watching"] /\ submission'.stage = "observed"
        /\ \/ submission' = NoSubmission
           \/ /\ submission'.receipt = r /\ submission'.stage \in {"dispatched", "observed"}
              /\ observer[r] = "none" /\ scope = "ready"
    BY <1>0, <1>1, <1>5 DEF Dispatched, ObserverStarts, Returns, StartObserver
  <2>2. FreshIsUnused' /\ ObserverSaw'
    BY <1>0, <2>1 DEF FreshIsUnused, ObserverSaw, Kinds
  <2>3. ActiveIsOpen'
    BY <1>0, <2>1 DEF ActiveIsOpen
  <2>4. PausedMeansQuiet'
    BY <1>0, <2>1 DEF PausedMeansQuiet, Current
  <2>5. SubmissionOwns'
    BY <1>0, <2>1 DEF SubmissionOwns, NoSubmission
  <2> QED BY <2>2, <2>3, <2>4, <2>5 DEF LedgerInv
<1>6. ASSUME InterruptedCell \/ InterruptedHelper PROVE LedgerInv'
  <2>1. r \in Receipts /\ kind[r] \in Kinds /\ submission' = NoSubmission /\ scope' = scope
    BY <1>1, <1>6 DEF InterruptedCell, InterruptedHelper
  <2>2. CASE InterruptedEarly(r)
    <3>1. /\ ticket' = [ticket EXCEPT ![r] = "cancelled"] /\ UNCHANGED <<observer, kind, outcome>>
          /\ activeId' = activeId \/ (activeId = r /\ activeId' = NoReceipt)
      BY <2>2 DEF InterruptedEarly, DiscardRecord
    <3>2. FreshIsUnused' /\ ObserverSaw' /\ ActiveIsOpen' /\ SubmissionOwns'
      BY <1>0, <2>1, <3>1 DEF FreshIsUnused, ObserverSaw, ActiveIsOpen, SubmissionOwns, Kinds
    <3>3. PausedMeansQuiet'
      BY <1>0, <2>1, <3>1 DEF PausedMeansQuiet, Current, Live
    <3> QED BY <3>2, <3>3 DEF LedgerInv
  <2>3. CASE ~InterruptedEarly(r)
    <3>1. /\ UNCHANGED <<ticket, activeId, kind, outcome>>
          /\ observer' = observer \/ observer' = [observer EXCEPT ![r] = "watching"]
      BY <1>6, <2>3 DEF InterruptedCell, InterruptedHelper, StartObserver
    <3>2. FreshIsUnused' /\ ObserverSaw'
      BY <1>0, <2>1, <3>1 DEF FreshIsUnused, ObserverSaw, Kinds
    <3>3. ActiveIsOpen' /\ SubmissionOwns'
      BY <1>0, <2>1, <3>1 DEF ActiveIsOpen, SubmissionOwns
    <3>4. PausedMeansQuiet'
      BY <1>0, <2>1, <3>1 DEF PausedMeansQuiet, Current
    <3> QED BY <3>2, <3>3, <3>4 DEF LedgerInv
  <2> QED BY <2>2, <2>3
<1> QED
  BY <1>2, <1>3, <1>4, <1>5, <1>6 DEF Submission, SubmissionProceeds, BeginCell, BeginHelper, Kinds

\* What settles a record leaves the others alone.
LEMMA SettledOutcome ==
    ASSUME NEW r, NEW o, SettleRecord(r, o)
    PROVE  /\ kind' = kind
           /\ \/ activeId = r /\ activeId' = NoReceipt /\ outcome' = [outcome EXCEPT ![r] = o]
              \/ ~(Current /\ activeId = r) /\ activeId' = activeId /\ outcome' = outcome
BY DEF SettleRecord

\* The worker revives no settled ticket, and retires a record only with its ticket.
LEMMA WorkerKeepsLedger == ASSUME TypeOK, LedgerInv, Worker PROVE LedgerInv'
<1>0. /\ FreshIsUnused /\ SubmissionOwns /\ ActiveIsOpen /\ ObserverSaw /\ PausedMeansQuiet
      /\ kind \in [Receipts -> Kinds \cup {"none"}] /\ outcome \in [Receipts -> Outcomes]
      /\ ticket \in [Receipts -> Live \cup Settled \cup {"none", "finishing"}]
      /\ NoReceipt \notin Receipts
  BY ReceiptAssumption DEF LedgerInv, TypeOK
<1>1. ASSUME NEW r \in Receipts, NEW phase, Moves(r, phase),
             ticket[r] \in Live \cup {"finishing"}, phase \in Live => ticket[r] \in Live,
             UNCHANGED <<scope, observer, submission>>,
             \/ UNCHANGED <<kind, outcome, activeId>>
             \/ phase \notin Live /\ \E o \in {"completed", "failed"} : SettleRecord(r, o)
      PROVE  LedgerInv'
  <2>1. /\ ticket' = [ticket EXCEPT ![r] = phase] /\ kind' = kind /\ kind[r] # "none"
        /\ \/ activeId' = activeId /\ outcome' = outcome
           \/ /\ activeId = r /\ activeId' = NoReceipt /\ phase \notin Live
              /\ \E o \in {"completed", "failed"} : outcome' = [outcome EXCEPT ![r] = o]
    BY <1>0, <1>1, SettledOutcome DEF Moves, FreshIsUnused, Live
  <2>2. FreshIsUnused' /\ ActiveIsOpen'
    BY <1>0, <1>1, <2>1 DEF FreshIsUnused, ActiveIsOpen
  <2>3. ObserverSaw'
    BY <1>0, <1>1, <2>1 DEF ObserverSaw, Live
  <2>4. PausedMeansQuiet'
    BY <1>0, <1>1, <2>1 DEF PausedMeansQuiet, Current
  <2>5. SubmissionOwns'
    <3>1. submission.stage = "begun" /\ submission # NoSubmission => submission.receipt # r
      BY <1>0, <1>1 DEF SubmissionOwns, Live
    <3>2. submission.stage = "begun" /\ submission # NoSubmission => activeId # r
      BY <1>0, <3>1 DEF SubmissionOwns
    <3> QED BY <1>0, <1>1, <2>1, <3>1, <3>2 DEF SubmissionOwns
  <2> QED BY <2>2, <2>3, <2>4, <2>5 DEF LedgerInv
<1>2. ASSUME NEW r \in Receipts,
             TakeTicket(r) \/ BecomesUnknown(r) \/ Reconcile(r) \/ StopQueued(r)
      PROVE  LedgerInv'
  <2>1. PICK phase \in {"running", "unknown", "reconciling", "cancelled"} : Moves(r, phase)
    BY <1>2 DEF TakeTicket, BecomesUnknown, Reconcile, StopQueued
  <2>2. ticket[r] \in Live /\ UNCHANGED <<scope, observer, submission, kind, outcome, activeId>>
    BY <1>2 DEF TakeTicket, BecomesUnknown, Reconcile, StopQueued, WorkerFrame, Live
  <2> QED BY <1>1, <2>1, <2>2
<1>3. ASSUME NEW r \in Receipts, TargetLost(r) PROVE LedgerInv'
  <2>1. /\ scope' = "ended" /\ ticket' = [ticket EXCEPT ![r] = "error"] /\ submission = NoSubmission
        /\ UNCHANGED <<kind, outcome, activeId, observer, submission>> /\ ticket[r] = "unknown"
    BY <1>3 DEF TargetLost, Moves
  <2>2. kind[r] # "none"
    BY <1>0, <2>1 DEF FreshIsUnused
  <2> QED
    BY <1>0, <2>1, <2>2 DEF LedgerInv, FreshIsUnused, SubmissionOwns, ActiveIsOpen, ObserverSaw,
                            PausedMeansQuiet, Current
<1>4. ASSUME NEW r \in Receipts, NEW o \in {"completed", "failed"}, RetireCell(r, o) \/ RetireHelper(r, o)
      PROVE  LedgerInv'
  <2>1. /\ SettleRecord(r, o) /\ Moves(r, "finishing") /\ UNCHANGED <<scope, observer, submission>>
        /\ ticket[r] \in Live /\ "finishing" \notin Live
    BY <1>4 DEF RetireCell, RetireHelper, Retire, WorkerFrame, Live
  <2> QED BY <1>1, <2>1
<1>5. ASSUME NEW r \in Receipts, NEW result \in {"value", "error", "cancelled"},
             Finish(r, result) \/ Drops(r, result)
      PROVE  LedgerInv'
  <2>1. /\ Moves(r, result) /\ UNCHANGED <<scope, observer, submission, kind, outcome, activeId>>
        /\ ticket[r] \in Live \cup {"finishing"} /\ result \notin Live
    BY <1>5 DEF Finish, Drops, WorkerFrame, Live
  <2> QED BY <1>1, <2>1
<1> QED
  BY <1>2, <1>3, <1>4, <1>5 DEF Worker

\* An observer settles a record only for a ticket that was settled before it.
LEMMA ObserverKeepsLedger ==
    ASSUME TypeOK, LedgerInv, NEW r \in Receipts, Observer(r) PROVE LedgerInv'
<1>0. /\ FreshIsUnused /\ SubmissionOwns /\ ActiveIsOpen /\ ObserverSaw /\ PausedMeansQuiet
      /\ kind \in [Receipts -> Kinds \cup {"none"}] /\ outcome \in [Receipts -> Outcomes]
      /\ observer \in [Receipts -> {"none", "watching", "saw unknown", "saw error", "done"}]
      /\ NoReceipt \notin Receipts
  BY ReceiptAssumption DEF LedgerInv, TypeOK
<1>1. /\ UNCHANGED <<scope, ticket, submission>> /\ observer[r] # "none" /\ kind[r] # "none"
      /\ \E pc \in {"saw unknown", "saw error", "done"} :
            /\ observer' = [observer EXCEPT ![r] = pc]
            /\ pc = "saw error" => ticket[r] \in {"error", "cancelled"}
  BY <1>0 DEF Observer, Observes, Mirrors, ObserverGoes, FreshIsUnused
<1>2. \/ UNCHANGED <<kind, outcome, activeId>>
      \/ /\ activeId = r /\ kind' = kind /\ activeId' = activeId
         /\ outcome' = [outcome EXCEPT ![r] = "unknown"]
      \/ /\ activeId = r /\ kind' = kind /\ activeId' = NoReceipt /\ observer[r] = "saw error"
         /\ outcome' = [outcome EXCEPT ![r] = "failed"]
  <2>1. CASE Observes(r)
    BY <2>1 DEF Observes
  <2>2. CASE observer[r] = "saw unknown" /\ MarkRecordUnknown(r)
    BY <2>2 DEF MarkRecordUnknown
  <2>3. CASE observer[r] = "saw error" /\ SettleRecord(r, "failed")
    BY <2>3, SettledOutcome
  <2> QED BY <2>1, <2>2, <2>3 DEF Observer, Mirrors
<1>3. FreshIsUnused' /\ ActiveIsOpen' /\ ObserverSaw'
  <2>1. FreshIsUnused'
    BY <1>0, <1>1, <1>2 DEF FreshIsUnused
  <2>2. ActiveIsOpen'
    BY <1>0, <1>1, <1>2, ZenonT(30) DEF ActiveIsOpen
  <2>3. ObserverSaw'
    BY <1>0, <1>1 DEF ObserverSaw
  <2> QED BY <2>1, <2>2, <2>3
<1>4. SubmissionOwns'
  <2>1. submission # NoSubmission /\ submission.stage \in {"begun", "submitted", "dispatched"} =>
            submission.receipt # r
    BY <1>0, <1>1 DEF SubmissionOwns
  <2>2. submission # NoSubmission /\ submission.stage = "begun" => activeId # r
    BY <1>0, <2>1 DEF SubmissionOwns
  <2> QED BY <1>0, <1>1, <1>2, <2>1, <2>2 DEF SubmissionOwns
<1>5. PausedMeansQuiet'
  BY <1>0, <1>1, <1>2 DEF PausedMeansQuiet, Current, ObserverSaw, Live
<1> QED BY <1>3, <1>4, <1>5 DEF LedgerInv

LEMMA ResumeKeepsLedger ==
    ASSUME LedgerInv, ResumeBegins \/ ResumeFails \/ ResumeEnds \/ ResumeLost PROVE LedgerInv'
<1>1. /\ UNCHANGED <<ledgerVars, ticket, observer, submission>>
      /\ \/ submission = NoSubmission /\ activeId = NoReceipt /\ scope = "ready" /\ scope' = "resuming"
         \/ scope = "resuming" /\ scope' \in {"ready", "ended"}
  BY DEF ResumeBegins, ResumeFails, ResumeEnds, ResumeLost
<1>2. FreshIsUnused' /\ ObserverSaw' /\ ActiveIsOpen' /\ SubmissionOwns'
  BY <1>1 DEF LedgerInv, FreshIsUnused, ObserverSaw, ActiveIsOpen, SubmissionOwns
<1>3. PausedMeansQuiet'
  BY <1>1, ReceiptAssumption DEF LedgerInv, PausedMeansQuiet, Current
<1> QED BY <1>2, <1>3 DEF LedgerInv

LEMMA NextKeepsLedger == ASSUME TypeOK, LedgerInv, [Next]_vars PROVE LedgerInv'
<1>1. CASE UNCHANGED <<scope, ledgerVars, ticket, observer, submission>>
  BY <1>1 DEF LedgerInv, FreshIsUnused, SubmissionOwns, ActiveIsOpen, ObserverSaw, PausedMeansQuiet, Current
<1>2. CASE Waiting
  BY <1>1, <1>2 DEF Waiting, WaitBegins, WaiterWakes, WaitTimesOut
<1> QED
  BY <1>1, <1>2, SubmissionKeepsLedger, WorkerKeepsLedger, ObserverKeepsLedger, ResumeKeepsLedger DEF Next

LEMMA InitLedger == ASSUME Init PROVE TypeOK /\ LedgerInv
<1>1. LedgerOK
  <2>1. records \in Seq(Receipts) /\ Len(records) = 0
    BY DEF Init
  <2> QED BY <2>1, LimitAssumption DEF Init, LedgerOK, Outcomes
<1>2. WaiterOK
  BY DEF Init, WaiterOK, NoWait
<1>3. RestOK
  BY DEF Init, RestOK, NoSubmission
<1>4. LedgerInv
  BY DEF Init, LedgerInv, FreshIsUnused, SubmissionOwns, ActiveIsOpen, ObserverSaw, PausedMeansQuiet, Live
<1> QED BY <1>1, <1>2, <1>3, <1>4, TypeParts

LEMMA Invariants == Spec => [](TypeOK /\ LedgerInv)
<1>1. TypeOK /\ LedgerInv /\ [Next]_vars => (TypeOK /\ LedgerInv)'
  BY NextTypes, NextKeepsLedger DEF LedgerInv
<1> QED BY <1>1, InitLedger, PTL DEF Spec

\* For every history limit: the ledger never exceeds it, and neither trimming nor the
\* discarding of an admission leaves the active, the last or the last user selection
\* on a record that is gone.
THEOREM LedgerTyped == Spec => []TypeOK
BY Invariants, PTL

\* While the stop is current, an evaluation that may still reach the target is the
\* active record: the public phase is never paused and no resume begins beside it, for
\* any number of evaluations, observers, interruptions and reconciliations.
THEOREM PausedIsQuiet == Spec => []PausedMeansQuiet
<1>1. LedgerInv => PausedMeansQuiet
  BY DEF LedgerInv
<1> QED BY <1>1, Invariants, PTL

\* A published outcome is final and an unknown one can only be resolved: only the
\* active record is ever answered, and the active record has no final outcome, so a late
\* observer cannot overwrite what a reconciliation settled.
THEOREM OutcomesFinal == Spec => OutcomeIsFinal
<1> DEFINE Final == \A r \in Receipts :
              /\ outcome[r] \in {"completed", "failed"} => outcome'[r] = outcome[r]
              /\ outcome[r] = "unknown" => outcome'[r] # "none"
<1>1. ASSUME TypeOK, LedgerInv, [Next]_vars PROVE Final
  <2>0. /\ ActiveIsOpen /\ outcome \in [Receipts -> Outcomes] /\ NoReceipt \notin Receipts
    BY <1>1, ReceiptAssumption DEF TypeOK, LedgerInv
  <2>1. CASE outcome' = outcome
    BY <2>1
  <2>2. ASSUME NEW r \in Receipts, NEW o \in {"completed", "failed"}, SettleRecord(r, o) PROVE Final
    BY <2>0, <2>1, <2>2, SettledOutcome DEF ActiveIsOpen
  <2>3. ASSUME NEW r \in Receipts, MarkRecordUnknown(r) PROVE Final
    BY <2>0, <2>1, <2>3 DEF MarkRecordUnknown, ActiveIsOpen
  <2>4. CASE Submission
    <3>1. ASSUME NEW r \in Receipts, BeginCell(r) \/ BeginHelper(r) PROVE outcome' = outcome
      BY <3>1 DEF BeginCell, BeginHelper, Begin, BeginRecord
    <3>2. CASE SubmissionProceeds
      BY <3>2 DEF SubmissionProceeds, SubmitRefused, Submitted, Dispatched, ObserverStarts, Returns, DiscardRecord
    <3>3. CASE InterruptedCell \/ InterruptedHelper
      BY <3>3 DEF InterruptedCell, InterruptedHelper, InterruptedEarly, DiscardRecord
    <3> QED BY <2>1, <2>4, <3>1, <3>2, <3>3 DEF Submission
  <2>5. CASE Worker
    <3>1. ASSUME NEW r \in Receipts, NEW o \in {"completed", "failed"}, RetireCell(r, o) \/ RetireHelper(r, o)
          PROVE  Final
      BY <2>2, <3>1 DEF RetireCell, RetireHelper, Retire
    <3>2. ASSUME NEW r \in Receipts, NEW result,
                 \/ TakeTicket(r) \/ BecomesUnknown(r) \/ Reconcile(r) \/ StopQueued(r) \/ TargetLost(r)
                 \/ Finish(r, result) \/ Drops(r, result)
          PROVE  outcome' = outcome
      BY <3>2 DEF TakeTicket, BecomesUnknown, Reconcile, StopQueued, TargetLost, Finish, Drops
    <3> HIDE DEF Final
    <3> QED BY <2>1, <2>5, <3>1, <3>2 DEF Worker
  <2>6. ASSUME NEW r \in Receipts, Observer(r) PROVE Final
    <3>1. CASE Observes(r)
      BY <2>1, <3>1 DEF Observes
    <3>2. CASE Mirrors(r)
      BY <2>2, <2>3, <3>2 DEF Mirrors
    <3> QED BY <2>6, <3>1, <3>2 DEF Observer
  <2>7. CASE Waiting \/ ResumeBegins \/ ResumeFails \/ ResumeEnds \/ ResumeLost \/ UNCHANGED vars
    BY <2>1, <2>7 DEF Waiting, WaitBegins, WaiterWakes, WaitTimesOut,
                      ResumeBegins, ResumeFails, ResumeEnds, ResumeLost
  <2> HIDE DEF Final
  <2> QED BY <1>1, <2>4, <2>5, <2>6, <2>7 DEF Next
<1>2. TypeOK /\ LedgerInv /\ [Next]_vars => [Final]_vars
  BY <1>1
<1>3. Spec => [][Final]_vars
  BY <1>2, Invariants, PTL DEF Spec
<1> QED BY <1>3 DEF OutcomeIsFinal

=============================================================================
