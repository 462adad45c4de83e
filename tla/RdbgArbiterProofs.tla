------------------------- MODULE RdbgArbiterProofs -------------------------
(***************************************************************************)
(* Proofs about RdbgArbiter, for every set of tickets and every value of   *)
(* its other constants: types and the mailbox first; then remote work is   *)
(* accounted for, Stop fences the transport, a settlement is final, the    *)
(* arbiter implements exclusive ownership of the target, and no cleanup is *)
(* lost.                                                                   *)
(***************************************************************************)
EXTENDS RdbgArbiter, QueueLemmas

USE DEF identityVars, replyVars, lifeVars, evidenceVars, stopVars, ownerVars,
        teardownVars, gateVars, workerVars, closerVars, truthVars

\* The types of the tickets, of the mailbox with its owners, and of the worker.
TicketTypes ==
    /\ kind \in [Tickets -> Kinds] /\ parent \in [Tickets -> Maybe]
    /\ finalizer \in [Tickets -> BOOLEAN] /\ ticketRoute \in [Tickets -> 0..MaxRoute]
    /\ phase \in [Tickets -> Phases] /\ ready \in [Tickets -> BOOLEAN]
    /\ result \in [Tickets -> Results] /\ finalizerStarted \in [Tickets -> BOOLEAN]
    /\ registered \in [Tickets -> BOOLEAN] /\ child \in [Tickets -> Maybe]

EvidenceTypes ==
    /\ entered \in [Tickets -> BOOLEAN] /\ everEntered \in [Tickets -> BOOLEAN]
    /\ pending \in [Tickets -> BOOLEAN] /\ pendingStop \in [Tickets -> BOOLEAN]
    /\ stopTarget \in [Tickets -> BOOLEAN] /\ effectTarget \in [Tickets -> BOOLEAN]
    /\ stopRequested \in [Tickets -> BOOLEAN] /\ stopBlocked \in [Tickets -> BOOLEAN]
    /\ terminationAttempted \in [Tickets -> BOOLEAN]

OwnerTypes ==
    /\ queue \in Seq(Tickets) /\ active \in Maybe /\ idleHeartbeat \in Maybe
    /\ cleanupDebt \in Maybe /\ route \in 0..MaxRoute /\ reconciliation \in BOOLEAN
    /\ teardown \in Maybe /\ requestTermination \in BOOLEAN
    /\ closing \in BOOLEAN /\ closed \in BOOLEAN /\ terminated \in BOOLEAN

WorkerTypes ==
    /\ worker \in WorkerStates /\ op \in Ops /\ reconciling \in BOOLEAN
    /\ verdict \in {"none", "value", "failure", "plain", "unknown"}
    /\ nextRoute \in 0..MaxRoute /\ previouslyEntered \in BOOLEAN
    /\ closer \in {"out", "waitActive", "waitQueue", "join"} /\ closeOn \in Maybe
    /\ remote \in Maybe /\ alive \in BOOLEAN /\ kills \in [Tickets -> Nat]

LEMMA TypeParts == TypeOK <=> TicketTypes /\ EvidenceTypes /\ OwnerTypes /\ WorkerTypes
BY Zenon DEF TypeOK, TicketTypes, EvidenceTypes, OwnerTypes, WorkerTypes

\* Changing one value of a function to another of its range keeps its type.
LEMMA ExceptType ==
    ASSUME NEW S, NEW V, NEW f \in [S -> V], NEW x, NEW v \in V
    PROVE  [f EXCEPT ![x] = v] \in [S -> V]
OBVIOUS

\* Settling tickets keeps the types of phase and result.
LEMMA SettleAllType ==
    ASSUME TypeOK, NEW S, NEW r \in Results, SettleAll(S, r)
    PROVE  phase' \in [Tickets -> Phases] /\ result' \in [Tickets -> Results]
<1>1. phase \in [Tickets -> Phases] /\ result \in [Tickets -> Results]
  BY Zenon DEF TypeOK
<1>2. phase' \in [Tickets -> Phases]
  BY <1>1 DEF SettleAll, Phases
<1>3. result' \in [Tickets -> Results]
  BY <1>1 DEF SettleAll
<1> QED BY <1>2, <1>3

\* An automatic Stop leaves a ticket or none as the scheduled attempt.
LEMMA ScheduleAutoStopType == ASSUME TypeOK, NEW t \in Tickets, NEW b, NEW c, ScheduleAutoStop(t, b, c)
  PROVE teardown' \in Maybe /\ requestTermination' \in BOOLEAN
        /\ terminationAttempted' \in [Tickets -> BOOLEAN]
<1>1. /\ teardown \in Maybe /\ requestTermination \in BOOLEAN
      /\ terminationAttempted \in [Tickets -> BOOLEAN]
  BY Zenon DEF TypeOK
<1> QED BY <1>1 DEF ScheduleAutoStop, Maybe

\* What every return of the worker resets keeps its type.
LEMMA WorkerReturnsType ==
    ASSUME TypeOK, WorkerReturns
    PROVE  /\ worker' \in WorkerStates /\ op' \in Ops /\ reconciling' \in BOOLEAN
           /\ verdict' \in {"none", "value", "failure", "plain", "unknown"}
           /\ nextRoute' \in 0..MaxRoute /\ previouslyEntered' \in BOOLEAN
<1>1. nextRoute' \in 0..MaxRoute
  BY MaxRouteAssumption DEF WorkerReturns
<1> QED
  BY <1>1 DEF TypeOK, WorkerReturns, WorkerStates

\* Settling the active ticket and queueing its cleanup keep the types.
LEMMA SettleActiveType ==
    ASSUME TypeOK, NEW t \in Tickets, NEW r \in Results, NEW n \in 0..MaxRoute,
           SettleActive(t, r, n)
    PROVE  /\ kind' \in [Tickets -> Kinds] /\ parent' \in [Tickets -> Maybe]
           /\ child' \in [Tickets -> Maybe] /\ phase' \in [Tickets -> Phases]
           /\ ready' \in [Tickets -> BOOLEAN] /\ ticketRoute' \in [Tickets -> 0..MaxRoute]
           /\ queue' \in Seq(Tickets) /\ active' \in Maybe /\ route' \in 0..MaxRoute
           /\ result' \in [Tickets -> Results]
<1>1. active' \in Maybe /\ route' \in 0..MaxRoute /\ result' \in [Tickets -> Results]
  BY DEF TypeOK, SettleActive, Maybe
<1>2. CASE registered[t]
  <2>1. PICK c \in Fresh : QueueCleanup(t, c, n) /\ phase' = [phase EXCEPT ![t] =
     "settled", ![c] = "queued"]
    BY <1>2, Zenon DEF SettleActive
  <2>2. c \in Tickets
    BY DEF Fresh
  <2>3. queue' \in Seq(Tickets)
    BY <2>1, <2>2, ConcatProperties DEF TypeOK, QueueCleanup
  <2> QED BY <1>1, <2>1, <2>2, <2>3 DEF TypeOK, QueueCleanup, Kinds, Maybe, Phases
<1>3. CASE ~registered[t]
  BY <1>1, <1>3 DEF TypeOK, SettleActive, Phases
<1> QED BY <1>2, <1>3

\* Submitting keeps the types: the finalizer comes from Policies.
LEMMA SubmitKeepsTypes == ASSUME TypeOK, NEW t \in Tickets, Submit(t) PROVE TypeOK'
<1>1. PICK f \in Policies : finalizer' = [finalizer EXCEPT ![t] = f]
  BY Zenon DEF Submit
<1>2. finalizer' \in [Tickets -> BOOLEAN]
  BY <1>1, PoliciesAssumption DEF TypeOK
<1>3. phase' \in [Tickets -> Phases] /\ result' \in [Tickets -> Results] /\ queue' \in Seq(Tickets)
  <2>1. CASE UNCHANGED result /\ queue' = Append(queue, t) /\ phase' = [phase EXCEPT ![t]
     = "queued"]
    BY <2>1 DEF TypeOK, Phases
  <2>2. CASE SettleAll({t}, "cancelled") /\ UNCHANGED queue
    BY <2>2, SettleAllType DEF TypeOK, Results
  <2> QED BY <2>1, <2>2, Zenon DEF Submit
<1>4. ticketRoute' \in [Tickets -> 0..MaxRoute]
  BY Zenon, ExceptType DEF TypeOK, Submit
<1> QED BY <1>2, <1>3, <1>4 DEF TypeOK, Submit

\* Cancelling keeps the types.
LEMMA CancelQueuedKeepsTypes == ASSUME TypeOK, NEW i \in DOMAIN queue, CancelQueued(i) PROVE TypeOK'
<1>1. queue' \in Seq(Tickets)
  BY RemoveAtType DEF TypeOK, CancelQueued
<1>2. phase' \in [Tickets -> Phases] /\ result' \in [Tickets -> Results]
  BY SettleAllType, Zenon DEF CancelQueued, Results
<1> QED BY <1>1, <1>2 DEF TypeOK, CancelQueued

\* Stop keeps the types, whether it is the first one and whether it schedules an attempt.
LEMMA RequestStopKeepsTypes == ASSUME TypeOK, NEW t \in Tickets, RequestStop(t) PROVE TypeOK'
<1>1. /\ teardown' \in Maybe /\ requestTermination' \in BOOLEAN
      /\ terminationAttempted' \in [Tickets -> BOOLEAN]
  BY ScheduleAutoStopType, Zenon DEF RequestStop
<1>2. phase' \in [Tickets -> Phases] /\ result' \in [Tickets -> Results]
  BY SettleAllType, Zenon DEF TypeOK, RequestStop, Results
<1>3. queue' \in Seq(Tickets)
  <2>1. queue' = queue \/ queue' = <<>>
    BY Zenon DEF RequestStop
  <2> QED BY <2>1, EmptySeq, ZenonT(30) DEF TypeOK
<1>4. stopRequested' \in [Tickets -> BOOLEAN]
  BY DEF TypeOK, RequestStop
<1> QED BY <1>1, <1>2, <1>3, <1>4 DEF TypeOK, RequestStop

\* A retry keeps the types.
LEMMA RetryCleanupKeepsTypes == ASSUME TypeOK, NEW p \in Tickets, NEW c \in Tickets, RetryCleanup(p, c) PROVE TypeOK'
<1>1. /\ kind' \in [Tickets -> Kinds] /\ parent' \in [Tickets -> Maybe]
      /\ child' \in [Tickets -> Maybe] /\ phase' \in [Tickets -> Phases]
      /\ ready' \in [Tickets -> BOOLEAN] /\ ticketRoute' \in [Tickets -> 0..MaxRoute]
  BY DEF TypeOK, RetryCleanup, Kinds, Maybe, Phases
<1>2. queue' \in Seq(Tickets)
  BY ConcatProperties DEF TypeOK, RetryCleanup
<1> QED BY <1>1, <1>2, SMTT(30) DEF TypeOK, RetryCleanup

\* Each exit of the loop of close() keeps the types.
LEMMA CloseLoopKeepsTypes == ASSUME TypeOK, CloseLoop PROVE TypeOK'
<1>1. /\ closing' \in BOOLEAN /\ closed' \in BOOLEAN
      /\ closer' \in {"out", "waitActive", "waitQueue", "join"} /\ closeOn' \in Maybe
      /\ phase' \in [Tickets -> Phases] /\ result' \in [Tickets -> Results]
      /\ queue' \in Seq(Tickets)
  <2>1. CASE CloseRefused
    BY <2>1, Zenon DEF TypeOK, CloseRefused, Maybe
  <2>2. CASE CloseWaitsForActive
    BY <2>2, Zenon DEF TypeOK, CloseWaitsForActive, Maybe
  <2>3. CASE CloseWaitsForQueued
    <3>1. PICK i \in DOMAIN queue :
            /\ SettleAll({queue[j] : j \in 1..(i - 1)}, "cancelled")
            /\ queue' = SubSeq(queue, i, Len(queue))
            /\ closeOn' = queue[i]
      BY <2>3, Zenon DEF CloseWaitsForQueued
    <3>2. i \in 1..Len(queue) /\ Len(queue) \in Nat /\ queue[i] \in Tickets
      BY LenProperties, ElementOfSeq DEF TypeOK
    <3>3. queue' \in Seq(Tickets)
      BY <3>1, <3>2, SubSeqProperties, ElementOfSeq DEF TypeOK
    <3>4. phase' \in [Tickets -> Phases] /\ result' \in [Tickets -> Results]
      BY <3>1, SettleAllType, Zenon DEF Results
    <3> QED BY <2>3, <3>1, <3>2, <3>3, <3>4, Zenon DEF TypeOK, CloseWaitsForQueued, Maybe
  <2>4. CASE CloseCompletes
    <3>1. phase' \in [Tickets -> Phases] /\ result' \in [Tickets -> Results]
      BY <2>4, SettleAllType, Zenon DEF CloseCompletes, Results
    <3> QED BY <2>4, <3>1, EmptySeq, Zenon DEF CloseCompletes, Maybe
  <2> QED BY <2>1, <2>2, <2>3, <2>4, Zenon DEF CloseLoop
<1> QED BY <1>1 DEF TypeOK, CloseLoop

\* Taking the head keeps the types, stale or not.
LEMMA TakeHeadKeepsTypes == ASSUME TypeOK, TakeHead PROVE TypeOK'
<1>1. queue # <<>> /\ Head(queue) \in Tickets /\ queue' \in Seq(Tickets)
  BY HeadTailProperties DEF TypeOK, TakeHead, HeadRunnable
<1>2. CASE HeadStale
  <2>1. phase' \in [Tickets -> Phases] /\ result' \in [Tickets -> Results]
    BY <1>2, SettleAllType, Zenon DEF TakeHead, Results
  <2> QED BY <1>1, <1>2, <2>1 DEF TypeOK, TakeHead
<1>3. CASE ~HeadStale
  <2>1. /\ active' \in Maybe /\ phase' \in [Tickets -> Phases] /\ worker' \in WorkerStates
        /\ reconciling' \in BOOLEAN
    BY <1>1, <1>3 DEF TypeOK, TakeHead, Maybe, Phases, WorkerStates
  <2> QED BY <1>1, <1>3, <2>1 DEF TypeOK, TakeHead
<1> QED BY <1>2, <1>3

\* An accepted outcome keeps the types.
LEMMA ReturnAcceptedKeepsTypes == ASSUME TypeOK, NEW t \in Tickets, ReturnAccepted(t) PROVE TypeOK'
<1>1. /\ worker' \in WorkerStates
      /\ verdict' \in {"none", "value", "failure", "plain", "unknown"}
  BY Zenon DEF ReturnAccepted, WorkerStates
<1>2. nextRoute' \in 0..MaxRoute
  BY MaxRouteAssumption DEF TypeOK, ReturnAccepted
<1>3. finalizerStarted' \in [Tickets -> BOOLEAN]
  BY DEF TypeOK, ReturnAccepted
<1> QED BY <1>1, <1>2, <1>3 DEF TypeOK, ReturnAccepted

\* A settlement keeps the types.
LEMMA SettleKeepsTypes == ASSUME TypeOK, NEW t \in Tickets, Settle(t) PROVE TypeOK'
<1>1. PICK n \in 0..MaxRoute : SettleActive(t, verdict, n)
  BY Zenon DEF TypeOK, Settle
<1>2. verdict \in Results
  BY DEF Settle, Results
<1>3. cleanupDebt' \in Maybe
  BY Zenon DEF TypeOK, Settle, Maybe
<1>4. WorkerReturns
  BY Zenon DEF Settle
<1>5. UNCHANGED <<finalizer, finalizerStarted, registered, idleHeartbeat>>
  BY <1>1, Zenon DEF SettleActive
<1>6. TicketTypes /\ EvidenceTypes /\ OwnerTypes /\ WorkerTypes
  BY TypeParts
<1>7. /\ kind' \in [Tickets -> Kinds] /\ parent' \in [Tickets -> Maybe]
      /\ child' \in [Tickets -> Maybe] /\ phase' \in [Tickets -> Phases]
      /\ ready' \in [Tickets -> BOOLEAN] /\ ticketRoute' \in [Tickets -> 0..MaxRoute]
      /\ queue' \in Seq(Tickets) /\ active' \in Maybe /\ route' \in 0..MaxRoute
      /\ result' \in [Tickets -> Results]
  BY <1>1, <1>2, SettleActiveType
<1>8. /\ worker' \in WorkerStates /\ op' \in Ops /\ reconciling' \in BOOLEAN
      /\ verdict' \in {"none", "value", "failure", "plain", "unknown"}
      /\ nextRoute' \in 0..MaxRoute /\ previouslyEntered' \in BOOLEAN
  BY <1>4, WorkerReturnsType
<1>9. TicketTypes'
  BY <1>3, <1>5, <1>6, <1>7, <1>8 DEF TicketTypes, Settle
<1>10. EvidenceTypes'
  BY <1>3, <1>5, <1>6, <1>7, <1>8 DEF EvidenceTypes, Settle
<1>11. OwnerTypes'
  BY <1>3, <1>5, <1>6, <1>7, <1>8 DEF OwnerTypes, Settle
<1>12. WorkerTypes'
  BY <1>3, <1>5, <1>6, <1>7, <1>8 DEF WorkerTypes, Settle
<1> QED BY <1>9, <1>10, <1>11, <1>12, Zenon
       DEF TypeOK, TicketTypes, EvidenceTypes, OwnerTypes, WorkerTypes

\* A failure keeps the types.
LEMMA FailKeepsTypes == ASSUME TypeOK, NEW t \in Tickets, Fail(t) PROVE TypeOK'
<1>1. SettleActive(t, "error", route) /\ route \in 0..MaxRoute /\ "error" \in Results
  BY Zenon DEF TypeOK, Fail, Results
<1>3. cleanupDebt' \in Maybe
  BY Zenon DEF TypeOK, Fail, DebtAfterFailure, Maybe
<1>4. WorkerReturns
  BY Zenon DEF Fail
<1>5. UNCHANGED <<finalizer, finalizerStarted, registered, idleHeartbeat>>
  BY <1>1, Zenon DEF SettleActive
<1>6. TicketTypes /\ EvidenceTypes /\ OwnerTypes /\ WorkerTypes
  BY TypeParts
<1>7. /\ kind' \in [Tickets -> Kinds] /\ parent' \in [Tickets -> Maybe]
      /\ child' \in [Tickets -> Maybe] /\ phase' \in [Tickets -> Phases]
      /\ ready' \in [Tickets -> BOOLEAN] /\ ticketRoute' \in [Tickets -> 0..MaxRoute]
      /\ queue' \in Seq(Tickets) /\ active' \in Maybe /\ route' \in 0..MaxRoute
      /\ result' \in [Tickets -> Results]
  BY <1>1, SettleActiveType
<1>8. /\ worker' \in WorkerStates /\ op' \in Ops /\ reconciling' \in BOOLEAN
      /\ verdict' \in {"none", "value", "failure", "plain", "unknown"}
      /\ nextRoute' \in 0..MaxRoute /\ previouslyEntered' \in BOOLEAN
  BY <1>4, WorkerReturnsType
<1>9. TicketTypes'
  BY <1>3, <1>5, <1>6, <1>7, <1>8 DEF TicketTypes, Fail
<1>10. EvidenceTypes'
  BY <1>3, <1>5, <1>6, <1>7, <1>8 DEF EvidenceTypes, Fail
<1>11. OwnerTypes'
  BY <1>3, <1>5, <1>6, <1>7, <1>8 DEF OwnerTypes, Fail
<1>12. WorkerTypes'
  BY <1>3, <1>5, <1>6, <1>7, <1>8 DEF WorkerTypes, Fail
<1> QED BY <1>9, <1>10, <1>11, <1>12, Zenon
       DEF TypeOK, TicketTypes, EvidenceTypes, OwnerTypes, WorkerTypes

\* An unknown outcome keeps the types.
LEMMA BecomeUnknownKeepsTypes == ASSUME TypeOK, NEW t \in Tickets, BecomeUnknown(t) PROVE TypeOK'
<1>1. /\ teardown' \in Maybe /\ requestTermination' \in BOOLEAN
      /\ terminationAttempted' \in [Tickets -> BOOLEAN]
  BY ScheduleAutoStopType, Zenon DEF BecomeUnknown
<1>2. phase' \in [Tickets -> Phases]
  BY DEF TypeOK, BecomeUnknown, Phases
<1>3. WorkerReturns
  BY Zenon DEF BecomeUnknown
<1>4. /\ worker' \in WorkerStates /\ op' \in Ops /\ reconciling' \in BOOLEAN
      /\ verdict' \in {"none", "value", "failure", "plain", "unknown"}
      /\ nextRoute' \in 0..MaxRoute /\ previouslyEntered' \in BOOLEAN
  BY <1>3, WorkerReturnsType
<1>5. TicketTypes /\ EvidenceTypes /\ OwnerTypes /\ WorkerTypes
  BY TypeParts
<1>6. TicketTypes'
  BY <1>1, <1>2, <1>4, <1>5 DEF TicketTypes, BecomeUnknown
<1>7. EvidenceTypes'
  BY <1>1, <1>2, <1>4, <1>5 DEF EvidenceTypes, BecomeUnknown
<1>8. OwnerTypes'
  BY <1>1, <1>2, <1>4, <1>5 DEF OwnerTypes, BecomeUnknown
<1>9. WorkerTypes'
  BY <1>1, <1>2, <1>4, <1>5 DEF WorkerTypes, BecomeUnknown
<1> QED BY <1>6, <1>7, <1>8, <1>9, Zenon
       DEF TypeOK, TicketTypes, EvidenceTypes, OwnerTypes, WorkerTypes

\* The start of an attempt keeps the types.
LEMMA TeardownBeginsKeepsTypes == ASSUME TypeOK, TeardownBegins PROVE TypeOK'
<1>1. worker' \in WorkerStates
  BY DEF TeardownBegins, WorkerStates
<1>2. alive' \in BOOLEAN
  BY Zenon DEF TeardownBegins, TypeOK
<1>3. kills' \in [Tickets -> Nat]
  <2>1. CASE requestTermination
    <3>1. kills' = [kills EXCEPT ![teardown] = @ + 1] /\ kills \in [Tickets -> Nat]
      BY <2>1, Zenon DEF TeardownBegins, TypeOK
    <3>2. teardown \in Tickets /\ kills[teardown] + 1 \in Nat
      BY <3>1 DEF TeardownBegins, TypeOK, Maybe
    <3> QED BY <3>1, <3>2, ExceptType
  <2>2. CASE ~requestTermination
    BY <2>2, Zenon DEF TeardownBegins, TypeOK
  <2> QED BY <2>1, <2>2
<1>6. TicketTypes /\ EvidenceTypes /\ OwnerTypes /\ WorkerTypes
  BY TypeParts
<1>7. TicketTypes'
  BY <1>1, <1>2, <1>3, <1>6 DEF TicketTypes, TeardownBegins
<1>8. EvidenceTypes'
  BY <1>1, <1>2, <1>3, <1>6 DEF EvidenceTypes, TeardownBegins
<1>9. OwnerTypes'
  BY <1>1, <1>2, <1>3, <1>6 DEF OwnerTypes, TeardownBegins
<1>10. WorkerTypes'
  BY <1>1, <1>2, <1>3, <1>6 DEF WorkerTypes, TeardownBegins
<1> QED BY <1>7, <1>8, <1>9, <1>10, Zenon
       DEF TypeOK, TicketTypes, EvidenceTypes, OwnerTypes, WorkerTypes

\* A confirmed termination keeps the types.
LEMMA TeardownConfirmsKeepsTypes == ASSUME TypeOK, TeardownConfirms PROVE TypeOK'
<1>1. /\ teardown' \in Maybe /\ requestTermination' \in BOOLEAN /\ worker' \in WorkerStates
      /\ closed' \in BOOLEAN /\ terminated' \in BOOLEAN /\ active' \in Maybe
  BY Zenon DEF TeardownConfirms, WorkerStates, Maybe
<1>2. /\ phase' \in [Tickets -> Phases] /\ result' \in [Tickets -> Results]
      /\ queue' \in Seq(Tickets)
  BY DEF TypeOK, TeardownConfirms, Phases, Results
<1>6. TicketTypes /\ EvidenceTypes /\ OwnerTypes /\ WorkerTypes
  BY TypeParts
<1>7. TicketTypes'
  BY <1>1, <1>2, <1>6 DEF TicketTypes, TeardownConfirms
<1>8. EvidenceTypes'
  BY <1>1, <1>2, <1>6 DEF EvidenceTypes, TeardownConfirms
<1>9. OwnerTypes'
  BY <1>1, <1>2, <1>6 DEF OwnerTypes, TeardownConfirms
<1>10. WorkerTypes'
  BY <1>1, <1>2, <1>6 DEF WorkerTypes, TeardownConfirms
<1> QED BY <1>7, <1>8, <1>9, <1>10, Zenon
       DEF TypeOK, TicketTypes, EvidenceTypes, OwnerTypes, WorkerTypes

\* What the callers do keeps the types.
LEMMA CallerNextKeepsTypes == ASSUME TypeOK, CallerNext PROVE TypeOK'
<1>1. ASSUME NEW t \in Tickets, Submit(t) PROVE TypeOK'
  BY <1>1, SubmitKeepsTypes
<1>2. ASSUME NEW t \in Tickets, Dispatch(t) PROVE TypeOK'
  BY <1>2 DEF TypeOK, Dispatch
<1>3. ASSUME NEW t \in Tickets, TryHeartbeat(t) PROVE TypeOK'
  BY <1>3 DEF TypeOK, TryHeartbeat, Maybe, Phases, Kinds
<1>4. ASSUME NEW t \in Tickets, RequestStop(t) PROVE TypeOK'
  BY <1>4, RequestStopKeepsTypes
<1>5. ASSUME NEW t \in Tickets, Reconcile(t) PROVE TypeOK'
  BY <1>5 DEF TypeOK, Reconcile, Phases
<1>6. ASSUME NEW i \in DOMAIN queue, CancelQueued(i) PROVE TypeOK'
  BY <1>6, CancelQueuedKeepsTypes
<1>7. ASSUME NEW p \in Tickets, NEW c \in Tickets, RetryCleanup(p, c) PROVE TypeOK'
  BY <1>7, RetryCleanupKeepsTypes
<1>8. ASSUME CloseLoop PROVE TypeOK'
  BY <1>8, CloseLoopKeepsTypes
<1>9. ASSUME CloseJoins PROVE TypeOK'
  BY <1>9 DEF TypeOK, CloseJoins
<1> QED
  BY <1>1, <1>2, <1>3, <1>4, <1>5, <1>6, <1>7, <1>8, <1>9, Zenon DEF CallerNext, Close,
     CloseWakes

\* What a plan does through its port keeps the types.
LEMMA PlanNextKeepsTypes == ASSUME TypeOK, PlanNext PROVE TypeOK'
<1>1. ASSUME NEW t \in Tickets, NEW k \in Ops, EnterCommand(t, k) PROVE TypeOK'
  BY <1>1 DEF TypeOK, EnterCommand, TransportEntered, PlanFrame, InPlan, WorkerStates
<1>2. ASSUME NEW t \in Tickets, NEW k \in Ops, BeginWait(t, k) PROVE TypeOK'
  BY <1>2 DEF TypeOK, BeginWait, PlanFrame, InPlan, WorkerStates
<1>3. ASSUME NEW t \in Tickets, RefuseCommand(t) PROVE TypeOK'
  BY <1>3 DEF TypeOK, RefuseCommand, EntryRefused, PlanFrame, WorkerStates, Ops
<1>4. ASSUME NEW t \in Tickets, EnterResume(t) PROVE TypeOK'
  BY <1>4 DEF TypeOK, EnterResume, TransportEntered, PlanFrame, WorkerStates, Ops
<1>5. ASSUME NEW t \in Tickets, Poll(t) PROVE TypeOK'
  BY <1>5 DEF TypeOK, Poll, TransportEntered, PlanFrame, WorkerStates, Ops
<1>6. ASSUME NEW t \in Tickets, RegisterCleanup(t) PROVE TypeOK'
  BY <1>6 DEF TypeOK, RegisterCleanup, PlanFrame
<1>7. ASSUME NEW t \in Tickets, HandoffRoute(t) PROVE TypeOK'
  BY <1>7, MaxRouteAssumption DEF TypeOK, HandoffRoute, PlanFrame
<1> QED
  BY <1>1, <1>2, <1>3, <1>4, <1>5, <1>6, <1>7, Zenon DEF PlanNext

\* The end of a port call keeps the types.
LEMMA CallEndsKeepsTypes == ASSUME TypeOK, CallEnds PROVE TypeOK'
<1>1. ASSUME NEW t \in Tickets, RejectDispatch(t) PROVE TypeOK'
  BY <1>1 DEF TypeOK, RejectDispatch, PlanFrame, WorkerStates, Ops
<1>2. ASSUME NEW t \in Tickets, Send(t) PROVE TypeOK'
  BY <1>2 DEF TypeOK, Send, PlanFrame, WorkerStates
<1>3. ASSUME NEW t \in Tickets, RequestAnswered(t) PROVE TypeOK'
  BY <1>3, SMTT(30) DEF TypeOK, RequestAnswered, Answered, PlanFrame, WorkerStates, Ops, Maybe
<1>4. ASSUME NEW t \in Tickets, ReadTimesOut(t) PROVE TypeOK'
  <2>1. entered' \in [Tickets -> BOOLEAN] /\ remote' \in Maybe
    BY <1>4 DEF TypeOK, ReadTimesOut, Maybe
  <2> QED
    BY <1>4, <2>1 DEF TypeOK, ReadTimesOut, Answered, PlanFrame, WorkerStates, Ops
<1>5. ASSUME NEW t \in Tickets, EvaluationStarted(t) PROVE TypeOK'
  BY <1>5 DEF TypeOK, EvaluationStarted, Answered, PlanFrame, WorkerStates, Ops
<1>6. ASSUME NEW t \in Tickets, ContinueSent(t) PROVE TypeOK'
  BY <1>6 DEF TypeOK, ContinueSent, Answered, PlanFrame, WorkerStates, Ops
<1>7. ASSUME NEW t \in Tickets, EvaluationResumed(t) PROVE TypeOK'
  BY <1>7 DEF TypeOK, EvaluationResumed, Answered, PlanFrame, WorkerStates, Ops
<1>8. ASSUME NEW t \in Tickets, EvaluationResult(t) PROVE TypeOK'
  <2>1. /\ pending' \in [Tickets -> BOOLEAN] /\ pendingStop' \in [Tickets -> BOOLEAN]
        /\ entered' \in [Tickets -> BOOLEAN] /\ remote' \in Maybe
    BY <1>8 DEF TypeOK, EvaluationResult, Maybe
  <2> QED
    BY <1>8, <2>1 DEF TypeOK, EvaluationResult, Answered, PlanFrame, WorkerStates, Ops
<1>9. ASSUME NEW t \in Tickets, EvaluationStopped(t) PROVE TypeOK'
  BY <1>9 DEF TypeOK, EvaluationStopped, Answered, PlanFrame, WorkerStates, Ops
<1>10. ASSUME NEW t \in Tickets, TargetStopped(t) PROVE TypeOK'
  BY <1>10, SMTT(30) DEF TypeOK, TargetStopped, Answered, PlanFrame, WorkerStates, Ops, Maybe
<1>11. ASSUME NEW t \in Tickets, IntervalElapses(t) PROVE TypeOK'
  BY <1>11 DEF TypeOK, IntervalElapses, PlanFrame, WorkerStates, Ops
<1>12. ASSUME NEW t \in Tickets, TransportFails(t) PROVE TypeOK'
  BY <1>12 DEF TypeOK, TransportFails, PlanFrame, WorkerStates, Ops
<1>13. ASSUME NEW t \in Tickets, PollRefused(t) PROVE TypeOK'
  BY <1>13 DEF TypeOK, PollRefused, EntryRefused, PlanFrame, WorkerStates, Ops
<1> QED
  BY <1>1, <1>2, <1>3, <1>4, <1>5, <1>6, <1>7, <1>8, <1>9, <1>10, <1>11, <1>12, <1>13,
     Zenon DEF CallEnds

\* The end of a plan keeps the types.
LEMMA PlanEndsKeepsTypes == ASSUME TypeOK, PlanEnds PROVE TypeOK'
<1>1. ASSUME NEW t \in Tickets, ReturnRefused(t) PROVE TypeOK'
  BY <1>1 DEF TypeOK, ReturnRefused, WorkerStates
<1>2. ASSUME NEW t \in Tickets, ReturnAccepted(t) PROVE TypeOK'
  BY <1>2, ReturnAcceptedKeepsTypes
<1>3. ASSUME NEW t \in Tickets, PlanRaises(t) PROVE TypeOK'
  BY <1>3 DEF TypeOK, PlanRaises, WorkerStates
<1> QED
  BY <1>1, <1>2, <1>3, Zenon DEF PlanEnds

\* What the worker does under the mailbox keeps the types.
LEMMA MailboxNextKeepsTypes == ASSUME TypeOK, MailboxNext PROVE TypeOK'
<1>1. ASSUME TakeReconciliation PROVE TypeOK'
  BY <1>1, ZenonT(30) DEF TypeOK, TakeReconciliation, WorkerStates, Phases
<1>2. ASSUME TakeHead PROVE TypeOK'
  BY <1>2, TakeHeadKeepsTypes
<1>3. ASSUME WorkerExits PROVE TypeOK'
  BY <1>3 DEF TypeOK, WorkerExits, WorkerStates
<1>4. ASSUME NEW t \in Tickets, FinalizerEnds(t) PROVE TypeOK'
  BY <1>4 DEF TypeOK, FinalizerEnds, WorkerStates
<1>5. ASSUME NEW t \in Tickets, Settle(t) PROVE TypeOK'
  BY <1>5, SettleKeepsTypes
<1>6. ASSUME NEW t \in Tickets, Fail(t) PROVE TypeOK'
  BY <1>6, FailKeepsTypes
<1>7. ASSUME NEW t \in Tickets, BecomeUnknown(t) PROVE TypeOK'
  BY <1>7, BecomeUnknownKeepsTypes
<1>8. ASSUME TeardownBegins PROVE TypeOK'
  BY <1>8, TeardownBeginsKeepsTypes
<1>9. ASSUME TeardownConfirms PROVE TypeOK'
  BY <1>9, TeardownConfirmsKeepsTypes
<1>10. ASSUME TeardownUnproven PROVE TypeOK'
  <2>1. worker' \in WorkerStates /\ teardown' \in Maybe /\ requestTermination' \in BOOLEAN
    BY <1>10, Zenon DEF TeardownUnproven, WorkerStates, Maybe
  <2> QED
    BY <1>10, <2>1 DEF TypeOK, TeardownUnproven
<1> QED
  BY <1>1, <1>2, <1>3, <1>4, <1>5, <1>6, <1>7, <1>8, <1>9, <1>10, Zenon DEF MailboxNext

\* The late exit of the target keeps the types.
LEMMA TargetExitsKeepsTypes == ASSUME TypeOK, TargetExits PROVE TypeOK'
<1>1. alive' \in BOOLEAN
  BY Zenon DEF TargetExits
<1> QED
  BY <1>1 DEF TypeOK, TargetExits

\* Every step keeps the types.
LEMMA NextKeepsTypes == ASSUME TypeOK, [Next]_vars PROVE TypeOK'
<1>1. CASE UNCHANGED vars
  BY <1>1 DEF TypeOK, vars
<1>2. CASE Next
  BY <1>2, CallerNextKeepsTypes, PlanNextKeepsTypes, CallEndsKeepsTypes, PlanEndsKeepsTypes,
     MailboxNextKeepsTypes, TargetExitsKeepsTypes, Zenon DEF Next
<1> QED
  BY <1>1, <1>2

\* The first state, that of RdbgArbiter.__init__ and of unborn tickets, has the types.
LEMMA InitHasTypes == ASSUME Init PROVE TypeOK
<1>1. queue \in Seq(Tickets)
  BY EmptySeq DEF Init
<1>2. /\ ticketRoute \in [Tickets -> 0..MaxRoute]
      /\ route \in 0..MaxRoute /\ nextRoute \in 0..MaxRoute
      /\ kills \in [Tickets -> Nat]
  BY MaxRouteAssumption DEF Init
<1>3. /\ active \in Maybe /\ idleHeartbeat \in Maybe /\ cleanupDebt \in Maybe
      /\ teardown \in Maybe /\ closeOn \in Maybe /\ remote \in Maybe
      /\ parent \in [Tickets -> Maybe] /\ child \in [Tickets -> Maybe]
  BY DEF Init, Maybe
<1>4. /\ kind \in [Tickets -> Kinds] /\ phase \in [Tickets -> Phases]
      /\ result \in [Tickets -> Results] /\ op \in Ops /\ worker \in WorkerStates
  BY DEF Init, Kinds, Phases, Results, Ops, WorkerStates
<1> QED
  BY <1>1, <1>2, <1>3, <1>4 DEF Init, TypeOK

-----------------------------------------------------------------------------

\* Every field of the arbiter, its tickets and its threads keeps its type under every
\* interleaving of callers, plans, the worker, close() and termination attempts.
THEOREM TypeCorrect == Spec => []TypeOK
BY InitHasTypes, NextKeepsTypes, PTL DEF Spec

-----------------------------------------------------------------------------
(* One owner.                                                              *)

\* The worker is inside a plan, its finalizer or the handling of its outcome.
Busy == {"plan", "dispatch", "transport", "unwind", "policy", "verdict"}

\* The worker's locals and the mailbox agree about the owner.
WorkerAgrees ==
    /\ worker \in Busy => active # NoTicket /\ phase[active] = "running"
    /\ worker = "probe" => teardown # NoTicket
    /\ worker = "exited" => closed

\* A requested reconciliation has its ticket, and a closed arbiter has none.
MailboxAgrees ==
    /\ reconciliation => active # NoTicket /\ phase[active] = "reconciling"
    /\ closed => active = NoTicket

\* The inductive strengthening of SingleOwner and TeardownFence.
OwnerInv == SingleOwner /\ TeardownFence /\ WorkerAgrees /\ MailboxAgrees

\* A step inside a plan, or one that touches neither the worker nor the mailbox.
LEMMA OwnerFrame ==
    ASSUME OwnerInv,
           UNCHANGED <<phase, active, queue, reconciliation, teardown, stopRequested, closed>>,
           worker' = worker \/ (worker \in Busy /\ worker' \in Busy)
    PROVE  OwnerInv'
<1>1. SingleOwner'
  BY DEF OwnerInv, SingleOwner, Queued
<1>2. TeardownFence' /\ WorkerAgrees' /\ MailboxAgrees'
  BY DEF OwnerInv, TeardownFence, WorkerAgrees, MailboxAgrees, Busy
<1> QED
  BY <1>1, <1>2 DEF OwnerInv

\* Nobody but the active ticket owns, and a busy worker has no attempt scheduled.
LEMMA OwnerFacts ==
    ASSUME TypeOK, OwnerInv
    PROVE  /\ Distinct(queue)
           /\ Queued = {t \in Tickets : phase[t] = "queued"}
           /\ active # NoTicket => active \in Tickets
           /\ worker \in Busy => teardown = NoTicket /\ ~reconciliation /\ ~closed
           /\ worker = "probe" => teardown \in Tickets /\ active = teardown
<1>1. Queued \subseteq Tickets
  BY LenProperties, ElementOfSeq DEF TypeOK, Queued, ToSet
<1> QED
  BY <1>1 DEF TypeOK, OwnerInv, SingleOwner, TeardownFence, WorkerAgrees, MailboxAgrees,
              Distinct, Owning, Busy, Maybe

\* A step of the callers that moves no owner keeps the fence and the agreements.
LEMMA OwnerUndisturbed ==
    ASSUME OwnerInv, SingleOwner',
           UNCHANGED <<active, reconciliation, teardown, stopRequested, closed, worker>>,
           active # NoTicket => phase'[active] = phase[active]
    PROVE  OwnerInv'
<1>1. TeardownFence'
  BY DEF OwnerInv, TeardownFence
<1>2. WorkerAgrees' /\ MailboxAgrees'
  BY DEF OwnerInv, WorkerAgrees, MailboxAgrees
<1> QED
  BY <1>1, <1>2 DEF OwnerInv

\* Submitting keeps one owner.
LEMMA SubmitKeepsOwner ==
    ASSUME TypeOK, OwnerInv, NEW t \in Tickets, Submit(t) PROVE OwnerInv'
<1>1. phase[t] = "new" /\ t \notin Queued
  BY OwnerFacts DEF Submit, SpareTicket, Fresh
<1>2. UNCHANGED <<active, reconciliation, teardown, stopRequested, closed, worker>>
  BY DEF Submit
<1>3. SingleOwner'
  <2>1. CASE queue' = Append(queue, t) /\ phase' = [phase EXCEPT ![t] = "queued"]
    <3>1. Queued' = Queued \cup {t} /\ Distinct(queue')
      BY <1>1, <2>1, AppendDistinct, OwnerFacts DEF TypeOK, Queued
    <3> QED BY <1>1, <1>2, <2>1, <3>1 DEF TypeOK, OwnerInv, SingleOwner, Distinct, Owning
  <2>2. CASE SettleAll({t}, "cancelled") /\ UNCHANGED queue
    BY <1>1, <1>2, <2>2 DEF OwnerInv, SingleOwner, SettleAll, Owning, Queued
  <2> QED BY <2>1, <2>2, Zenon DEF Submit
<1>4. \A u \in Tickets : u # t => phase'[u] = phase[u]
  <2>1. phase' = [phase EXCEPT ![t] = "queued"] \/ SettleAll({t}, "cancelled")
    BY Zenon DEF Submit
  <2> QED BY <2>1 DEF TypeOK, SettleAll
<1>5. active # NoTicket => active \in Tickets /\ active # t
  BY <1>1, OwnerFacts DEF OwnerInv, SingleOwner, Owning
<1> QED
  BY <1>2, <1>3, <1>4, <1>5, OwnerUndisturbed

\* A heartbeat is admitted to an empty mailbox.
LEMMA TryHeartbeatKeepsOwner ==
    ASSUME TypeOK, OwnerInv, NEW t \in Tickets, TryHeartbeat(t) PROVE OwnerInv'
<1>1. phase[t] = "new" /\ queue' = <<t>> /\ phase' = [phase EXCEPT ![t] = "queued"]
      /\ active = NoTicket /\ queue = <<>>
  BY DEF TryHeartbeat, SpareTicket, Fresh
<1>2. UNCHANGED <<active, reconciliation, teardown, stopRequested, closed, worker>>
  BY DEF TryHeartbeat
<1>3. Queued = {} /\ Queued' = {t} /\ Distinct(queue')
  BY <1>1 DEF Queued, ToSet, Distinct
<1>4. SingleOwner'
  BY <1>1, <1>2, <1>3 DEF TypeOK, OwnerInv, SingleOwner, Distinct, Owning
<1> QED
  BY <1>1, <1>2, <1>4, OwnerUndisturbed

\* Cancelling takes exactly the settled ticket out of the queue.
LEMMA CancelQueuedKeepsOwner ==
    ASSUME TypeOK, OwnerInv, NEW i \in DOMAIN queue, CancelQueued(i) PROVE OwnerInv'
<1> DEFINE t == queue[i]
<1>1. t \in Tickets /\ phase[t] = "queued" /\ SettleAll({t}, "cancelled")
      /\ queue' = RemoveAt(queue, i)
  BY LenProperties, ElementOfSeq DEF TypeOK, CancelQueued
<1>2. UNCHANGED <<active, reconciliation, teardown, stopRequested, closed, worker>>
  BY DEF CancelQueued
<1>3. Queued' = Queued \ {t} /\ Distinct(queue')
  BY <1>1, RemoveAtDistinct, OwnerFacts DEF TypeOK, Queued
<1> HIDE DEF t
<1>4. SingleOwner'
  BY <1>1, <1>2, <1>3 DEF OwnerInv, SingleOwner, SettleAll, Owning, Distinct
<1>5. active # NoTicket => active \in Tickets /\ active # t
  BY <1>1, OwnerFacts DEF OwnerInv, SingleOwner, Owning
<1>6. active # NoTicket => phase'[active] = phase[active]
  BY <1>1, <1>5 DEF SettleAll
<1> QED
  BY <1>2, <1>4, <1>6, OwnerUndisturbed

\* What a Stop schedules is fenced: its ticket is the stopped, unknown owner.
LEMMA ScheduleAutoStopFenced ==
    ASSUME NEW t, NEW s, NEW u, ScheduleAutoStop(t, s, u)
    PROVE  UNCHANGED teardown \/ (teardown' = t /\ s /\ u /\ active = t /\ ~reconciliation)
BY Zenon DEF ScheduleAutoStop

\* The first Stop of a ticket empties the queue and settles what was in it.
LEMMA RequestStopKeepsOwner ==
    ASSUME TypeOK, OwnerInv, NEW t \in Tickets, RequestStop(t) PROVE OwnerInv'
<1>1. /\ active = t /\ t # NoTicket /\ stopRequested' = [stopRequested EXCEPT ![t] = TRUE]
      /\ UNCHANGED <<active, reconciliation, closed, worker>>
  BY NoTicketAssumption DEF RequestStop
<1>2. phase[t] # "queued" /\ ~closed
  BY <1>1 DEF RequestStop, OwnerInv, MailboxAgrees
<1>3. \/ UNCHANGED <<queue, phase>>
      \/ queue' = <<>> /\ SettleAll(Queued, "cancelled")
  BY Zenon DEF RequestStop
<1>4. /\ SingleOwner'
      /\ \A u \in Tickets : phase[u] # "queued" => phase'[u] = phase[u]
  <2>1. CASE UNCHANGED <<queue, phase>>
    BY <1>1, <2>1 DEF OwnerInv, SingleOwner, Queued
  <2>2. CASE queue' = <<>> /\ SettleAll(Queued, "cancelled")
    <3>1. Queued' = {} /\ Distinct(queue')
      BY <2>2 DEF Queued, ToSet, Distinct
    <3> QED BY <1>1, <2>2, <3>1, OwnerFacts
            DEF OwnerInv, SingleOwner, SettleAll, Owning, Distinct
  <2> QED BY <1>3, <2>1, <2>2
<1>5. phase'[t] = phase[t]
  BY <1>2, <1>4
<1>6. TeardownFence'
  <2>1. CASE UNCHANGED teardown
    BY <1>1, <1>5, <2>1 DEF TypeOK, OwnerInv, TeardownFence
  <2>2. CASE teardown' = t /\ phase[t] = "unknown" /\ ~reconciliation
    <3>1. worker \in {"idle", "probe"}
      BY <1>1, <1>2, <2>2 DEF TypeOK, WorkerStates, OwnerInv, WorkerAgrees, Busy
    <3> QED BY <1>1, <1>2, <1>5, <2>2, <3>1 DEF TypeOK, TeardownFence
  <2> QED BY <2>1, <2>2, ScheduleAutoStopFenced, Zenon DEF RequestStop
<1>7. worker = "probe" => teardown' # NoTicket
  BY <1>1, ScheduleAutoStopFenced, Zenon DEF RequestStop, OwnerInv, WorkerAgrees
<1> QED
  BY <1>1, <1>4, <1>5, <1>6, <1>7 DEF OwnerInv, WorkerAgrees, MailboxAgrees

\* A reconciliation is requested by the unknown owner.
LEMMA ReconcileKeepsOwner ==
    ASSUME TypeOK, OwnerInv, NEW t \in Tickets, Reconcile(t) PROVE OwnerInv'
<1>1. /\ active = t /\ phase[t] = "unknown" /\ teardown = NoTicket /\ t # NoTicket
      /\ phase' = [phase EXCEPT ![t] = "reconciling"]
      /\ UNCHANGED <<queue, active, teardown, closed, worker>>
  BY NoTicketAssumption DEF Reconcile
<1>2. SingleOwner'
  BY <1>1 DEF TypeOK, OwnerInv, SingleOwner, Owning, Queued
<1>3. TeardownFence'
  BY <1>1 DEF TeardownFence
<1>4. WorkerAgrees'
  BY <1>1 DEF OwnerInv, WorkerAgrees, Busy
<1>5. MailboxAgrees'
  BY <1>1 DEF TypeOK, OwnerInv, MailboxAgrees
<1> QED
  BY <1>2, <1>3, <1>4, <1>5 DEF OwnerInv

\* A retry of a cleanup enters an ownerless mailbox.
LEMMA RetryCleanupKeepsOwner ==
    ASSUME TypeOK, OwnerInv, NEW p \in Tickets, NEW c \in Tickets, RetryCleanup(p, c)
    PROVE  OwnerInv'
<1>1. /\ phase[c] = "new" /\ active = NoTicket
      /\ queue' = <<c>> \o queue /\ phase' = [phase EXCEPT ![c] = "queued"]
      /\ UNCHANGED <<active, reconciliation, teardown, stopRequested, closed, worker>>
  BY DEF RetryCleanup, SpareTicket, Fresh
<1>2. Queued' = Queued \cup {c} /\ Distinct(queue')
  BY <1>1, PushDistinct, OwnerFacts, SMTT(30) DEF TypeOK, Queued
<1>3. SingleOwner'
  BY <1>1, <1>2 DEF TypeOK, OwnerInv, SingleOwner, Distinct, Owning
<1> QED
  BY <1>1, <1>3, OwnerUndisturbed

\* close() settles only queued tickets, and closes only an ownerless arbiter.
LEMMA CloseLoopKeepsOwner == ASSUME TypeOK, OwnerInv, CloseLoop PROVE OwnerInv'
<1>1. UNCHANGED <<active, reconciliation, teardown, stopRequested, worker>>
  BY DEF CloseLoop
<1>2. CASE UNCHANGED <<closed, queue, phase>>
  BY <1>1, <1>2, OwnerFrame
<1>3. CASE CloseWaitsForQueued
  <2>1. PICK i \in DOMAIN queue :
          /\ SettleAll({queue[j] : j \in 1..(i - 1)}, "cancelled")
          /\ queue' = SubSeq(queue, i, Len(queue))
    BY <1>3, Zenon DEF CloseWaitsForQueued
  <2>2. active = NoTicket /\ UNCHANGED closed
    BY <1>3 DEF CloseWaitsForQueued
  <2> DEFINE D == {queue[j] : j \in 1..(i - 1)}
  <2>3. Queued' = Queued \ D /\ Distinct(queue')
    <3>1. queue \in Seq(Tickets) /\ Distinct(queue)
      BY OwnerFacts DEF TypeOK
    <3>2. /\ ToSet(SubSeq(queue, i, Len(queue))) = ToSet(queue) \ D
          /\ Distinct(SubSeq(queue, i, Len(queue)))
      BY <3>1, SuffixDistinct, Zenon
    <3> QED BY <2>1, <3>2, Zenon DEF Queued
  <2>4. D \subseteq Queued
    <3>1. \A j \in 1..(i - 1) : j \in DOMAIN queue
      BY LenProperties DEF TypeOK
    <3> QED BY <3>1 DEF Queued, ToSet
  <2>5. SettleAll(D, "cancelled")
    BY <2>1
  <2> HIDE DEF D
  <2>6. SingleOwner'
    BY <1>1, <2>2, <2>3, <2>4, <2>5, OwnerFacts DEF OwnerInv, SingleOwner, SettleAll, Owning, Distinct
  <2> QED
    BY <1>1, <2>2, <2>6, OwnerUndisturbed
<1>4. CASE CloseCompletes
  <2>1. active = NoTicket
    BY <1>4 DEF CloseCompletes, OwnerInv, MailboxAgrees
  <2>2. SettleAll(Queued, "cancelled") /\ queue' = <<>> /\ closed'
    BY <1>4 DEF CloseCompletes
  <2>3. Queued' = {} /\ Distinct(queue')
    BY <2>2 DEF Queued, ToSet, Distinct
  <2>4. SingleOwner'
    BY <1>1, <2>1, <2>2, <2>3, OwnerFacts DEF OwnerInv, SingleOwner, SettleAll, Owning, Distinct
  <2>5. teardown = NoTicket /\ ~reconciliation /\ worker \notin Busy
    BY <2>1 DEF OwnerInv, TeardownFence, WorkerAgrees, MailboxAgrees
  <2> QED
    BY <1>1, <2>1, <2>2, <2>4, <2>5
       DEF OwnerInv, TeardownFence, WorkerAgrees, MailboxAgrees
<1> QED
  BY <1>2, <1>3, <1>4, Zenon DEF CloseLoop, CloseRefused, CloseWaitsForActive

\* The worker picks the reconciliation of its own unknown ticket up.
LEMMA TakeReconciliationKeepsOwner ==
    ASSUME TypeOK, OwnerInv, TakeReconciliation PROVE OwnerInv'
<1>1. /\ active # NoTicket /\ active \in Tickets /\ ~closed /\ teardown = NoTicket
      /\ phase' = [phase EXCEPT ![active] = "running"] /\ ~reconciliation'
      /\ worker' = "plan" /\ UNCHANGED <<queue, active, teardown, closed>>
  BY OwnerFacts DEF TakeReconciliation, OwnerInv, MailboxAgrees
<1>2. phase[active] = "reconciling"
  BY DEF TakeReconciliation, OwnerInv, MailboxAgrees
<1>3. SingleOwner'
  BY <1>1, <1>2 DEF TypeOK, OwnerInv, SingleOwner, Owning, Queued
<1> QED
  BY <1>1, <1>3 DEF TypeOK, OwnerInv, TeardownFence, WorkerAgrees, MailboxAgrees

\* The head is taken by an ownerless worker; a stale one only leaves the queue.
LEMMA TakeHeadKeepsOwner == ASSUME TypeOK, OwnerInv, TakeHead PROVE OwnerInv'
<1> DEFINE t == Head(queue)
<1>1. /\ active = NoTicket /\ queue # <<>> /\ queue' = Tail(queue)
      /\ ~closed /\ teardown = NoTicket /\ ~reconciliation /\ worker = "idle"
      /\ UNCHANGED <<reconciliation, teardown, stopRequested, closed>>
  BY DEF TakeHead, HeadRunnable
<1>2. /\ Queued' = Queued \ {t} /\ Distinct(queue') /\ t \in Queued
  BY <1>1, TailDistinct, OwnerFacts DEF TypeOK, Queued
<1>3. t \in Tickets /\ phase[t] = "queued" /\ t # NoTicket
  BY <1>2, OwnerFacts, NoTicketAssumption
<1>4. CASE HeadStale
  <2>1. SettleAll({t}, "stale") /\ UNCHANGED <<active, worker>>
    BY <1>4 DEF TakeHead
  <2> HIDE DEF t
  <2>2. SingleOwner'
    BY <1>1, <1>2, <1>3, <2>1 DEF OwnerInv, SingleOwner, SettleAll, Owning, Distinct
  <2> QED
    BY <1>1, <2>1, <2>2, OwnerUndisturbed
<1>5. CASE ~HeadStale
  <2>1. active' = t /\ phase' = [phase EXCEPT ![t] = "running"] /\ worker' = "plan"
    BY <1>5 DEF TakeHead
  <2> HIDE DEF t
  <2>2. SingleOwner'
    BY <1>1, <1>2, <1>3, <2>1, NoTicketAssumption
       DEF TypeOK, OwnerInv, SingleOwner, Owning, Distinct
  <2> QED
    BY <1>1, <1>3, <2>1, <2>2 DEF TypeOK, OwnerInv, TeardownFence, WorkerAgrees, MailboxAgrees
<1> QED
  BY <1>4, <1>5

\* Only a closed arbiter loses its worker.
LEMMA WorkerExitsKeepsOwner == ASSUME OwnerInv, WorkerExits PROVE OwnerInv'
<1>1. closed /\ worker' = "exited"
      /\ UNCHANGED <<phase, queue, active, reconciliation, teardown, stopRequested, closed>>
  BY DEF WorkerExits
<1>2. active = NoTicket /\ teardown = NoTicket
  BY <1>1, NoTicketAssumption DEF OwnerInv, MailboxAgrees, TeardownFence
<1> QED
  BY <1>1, <1>2 DEF OwnerInv, SingleOwner, Queued, TeardownFence, WorkerAgrees, MailboxAgrees, Busy

\* A settlement releases the worker and may put the fresh cleanup in front.
LEMMA SettleActiveKeepsOwner ==
    ASSUME TypeOK, OwnerInv, NEW t \in Tickets, NEW r, NEW n, active = t, worker = "verdict",
           SettleActive(t, r, n), WorkerReturns,
           UNCHANGED <<stopRequested, reconciliation, teardown, closed>>
    PROVE  OwnerInv'
<1>1. /\ phase[t] = "running" /\ t \notin Queued /\ worker' = "idle" /\ active' = NoTicket
      /\ teardown = NoTicket /\ ~reconciliation
  BY OwnerFacts DEF OwnerInv, WorkerAgrees, Busy, WorkerReturns, SettleActive
<1>2. SingleOwner'
  <2>1. CASE registered[t]
    <3>1. PICK c \in Fresh : QueueCleanup(t, c, n) /\ phase' = [phase EXCEPT ![t] = "settled", ![c] = "queued"]
      BY <2>1, Zenon DEF SettleActive
    <3>2. /\ c \in Tickets /\ phase[c] = "new" /\ c \notin Queued /\ c # t
          /\ queue' = <<c>> \o queue
      BY <1>1, <3>1, OwnerFacts DEF Fresh, QueueCleanup
    <3>3. Queued' = Queued \cup {c} /\ Distinct(queue')
      BY <3>2, PushDistinct, OwnerFacts DEF TypeOK, Queued
    <3> QED
      BY <1>1, <3>1, <3>2, <3>3, NoTicketAssumption
         DEF TypeOK, OwnerInv, SingleOwner, Owning, Distinct
  <2>2. CASE ~registered[t]
    <3>1. phase' = [phase EXCEPT ![t] = "settled"] /\ UNCHANGED queue
      BY <2>2 DEF SettleActive
    <3> QED
      BY <1>1, <3>1, NoTicketAssumption
         DEF TypeOK, OwnerInv, SingleOwner, Owning, Queued
  <2> QED BY <2>1, <2>2
<1> QED
  BY <1>1, <1>2, NoTicketAssumption
     DEF OwnerInv, TeardownFence, WorkerAgrees, MailboxAgrees, Busy

\* An unknown outcome keeps the owner; what it schedules is fenced.
LEMMA BecomeUnknownKeepsOwner ==
    ASSUME TypeOK, OwnerInv, NEW t \in Tickets, BecomeUnknown(t) PROVE OwnerInv'
<1>1. /\ active = t /\ t # NoTicket /\ worker = "verdict" /\ worker' = "idle"
      /\ phase' = [phase EXCEPT ![t] = "unknown"]
      /\ UNCHANGED <<queue, active, reconciliation, stopRequested, closed>>
  BY NoTicketAssumption DEF BecomeUnknown, WorkerReturns
<1>2. phase[t] = "running" /\ teardown = NoTicket /\ ~reconciliation /\ ~closed
  BY <1>1, OwnerFacts DEF OwnerInv, WorkerAgrees, Busy
<1>3. teardown' = NoTicket \/ (teardown' = t /\ stopRequested[t])
  <2>1. ScheduleAutoStop(t, stopRequested[t], TRUE)
    BY DEF BecomeUnknown
  <2>2. UNCHANGED teardown \/ (teardown' = t /\ stopRequested[t])
    BY <2>1, Zenon DEF ScheduleAutoStop
  <2> QED BY <1>2, <2>2
<1>4. SingleOwner'
  BY <1>1, <1>2 DEF TypeOK, OwnerInv, SingleOwner, Owning, Queued
<1>5. TeardownFence'
  BY <1>1, <1>2, <1>3 DEF TypeOK, TeardownFence
<1> QED
  BY <1>1, <1>2, <1>4, <1>5 DEF OwnerInv, WorkerAgrees, MailboxAgrees, Busy

\* A termination attempt begins and fails with its ticket as the owner.
LEMMA TeardownKeepsOwner ==
    ASSUME OwnerInv, TeardownBegins \/ TeardownUnproven PROVE OwnerInv'
<1>1. UNCHANGED <<phase, queue, active, reconciliation, stopRequested, closed>>
  BY DEF TeardownBegins, TeardownUnproven
<1>2. SingleOwner' /\ MailboxAgrees'
  BY <1>1 DEF OwnerInv, SingleOwner, Queued, MailboxAgrees
<1>3. CASE TeardownBegins
  <2>1. worker' = "probe" /\ UNCHANGED teardown /\ teardown # NoTicket
    BY <1>3 DEF TeardownBegins
  <2> QED BY <1>1, <1>2, <2>1 DEF OwnerInv, TeardownFence, WorkerAgrees, Busy
<1>4. CASE TeardownUnproven
  <2>1. worker' = "idle" /\ teardown' = NoTicket
    BY <1>4 DEF TeardownUnproven
  <2> QED BY <1>1, <1>2, <2>1 DEF OwnerInv, TeardownFence, WorkerAgrees, Busy
<1> QED
  BY <1>3, <1>4

\* A confirmed termination retires the owner and everything queued.
LEMMA TeardownConfirmsKeepsOwner == ASSUME TypeOK, OwnerInv, TeardownConfirms PROVE OwnerInv'
<1>1. /\ teardown \in Tickets /\ active = teardown /\ ~reconciliation
      /\ phase[teardown] = "unknown"
  BY OwnerFacts, NoTicketAssumption DEF TeardownConfirms, OwnerInv, TeardownFence
<1>2. /\ worker' = "idle" /\ teardown' = NoTicket /\ active' = NoTicket /\ closed'
      /\ queue' = <<>> /\ UNCHANGED reconciliation
      /\ phase' = [t \in Tickets |-> IF t \in Queued \cup {teardown} THEN "settled" ELSE phase[t]]
  BY DEF TeardownConfirms
<1>3. Queued' = {} /\ Distinct(queue')
  BY <1>2 DEF Queued, ToSet, Distinct
<1>4. SingleOwner'
  BY <1>1, <1>2, <1>3, OwnerFacts, NoTicketAssumption
     DEF OwnerInv, SingleOwner, Owning, Distinct
<1> QED
  BY <1>1, <1>2, <1>4 DEF OwnerInv, TeardownFence, WorkerAgrees, MailboxAgrees, Busy

\* What the callers do keeps one owner.
LEMMA CallerNextKeepsOwner == ASSUME TypeOK, OwnerInv, CallerNext PROVE OwnerInv'
<1>1. ASSUME NEW t \in Tickets, Submit(t) PROVE OwnerInv'
  BY <1>1, SubmitKeepsOwner
<1>2. ASSUME NEW t \in Tickets, Dispatch(t) PROVE OwnerInv'
  BY <1>2, OwnerFrame DEF Dispatch
<1>3. ASSUME NEW t \in Tickets, TryHeartbeat(t) PROVE OwnerInv'
  BY <1>3, TryHeartbeatKeepsOwner
<1>4. ASSUME NEW t \in Tickets, RequestStop(t) PROVE OwnerInv'
  BY <1>4, RequestStopKeepsOwner
<1>5. ASSUME NEW t \in Tickets, Reconcile(t) PROVE OwnerInv'
  BY <1>5, ReconcileKeepsOwner
<1>6. ASSUME NEW i \in DOMAIN queue, CancelQueued(i) PROVE OwnerInv'
  BY <1>6, CancelQueuedKeepsOwner
<1>7. ASSUME NEW p \in Tickets, NEW c \in Tickets, RetryCleanup(p, c) PROVE OwnerInv'
  BY <1>7, RetryCleanupKeepsOwner
<1>8. ASSUME CloseLoop PROVE OwnerInv'
  BY <1>8, CloseLoopKeepsOwner
<1>9. ASSUME CloseJoins PROVE OwnerInv'
  BY <1>9, OwnerFrame DEF CloseJoins
<1> QED
  BY <1>1, <1>2, <1>3, <1>4, <1>5, <1>6, <1>7, <1>8, <1>9, Zenon DEF CallerNext, Close,
     CloseWakes

\* What a plan does through its port keeps one owner.
LEMMA PlanNextKeepsOwner == ASSUME TypeOK, OwnerInv, PlanNext PROVE OwnerInv'
<1>1. ASSUME NEW t \in Tickets, NEW k \in Ops, EnterCommand(t, k) PROVE OwnerInv'
  BY <1>1, OwnerFrame DEF EnterCommand, InPlan, PlanFrame, Busy
<1>2. ASSUME NEW t \in Tickets, NEW k \in Ops, BeginWait(t, k) PROVE OwnerInv'
  BY <1>2, OwnerFrame DEF BeginWait, InPlan, PlanFrame, Busy
<1>3. ASSUME NEW t \in Tickets, RefuseCommand(t) PROVE OwnerInv'
  BY <1>3, OwnerFrame DEF RefuseCommand, InPlan, EntryRefused, PlanFrame, Busy
<1>4. ASSUME NEW t \in Tickets, EnterResume(t) PROVE OwnerInv'
  BY <1>4, OwnerFrame DEF EnterResume, InPlan, PlanFrame, Busy
<1>5. ASSUME NEW t \in Tickets, Poll(t) PROVE OwnerInv'
  BY <1>5, OwnerFrame DEF Poll, PlanFrame
<1>6. ASSUME NEW t \in Tickets, RegisterCleanup(t) PROVE OwnerInv'
  BY <1>6, OwnerFrame DEF RegisterCleanup, PlanFrame
<1>7. ASSUME NEW t \in Tickets, HandoffRoute(t) PROVE OwnerInv'
  BY <1>7, OwnerFrame DEF HandoffRoute, PlanFrame
<1> QED
  BY <1>1, <1>2, <1>3, <1>4, <1>5, <1>6, <1>7, Zenon DEF PlanNext

\* The end of a port call keeps one owner.
LEMMA CallEndsKeepsOwner == ASSUME TypeOK, OwnerInv, CallEnds PROVE OwnerInv'
<1>1. ASSUME NEW t \in Tickets, RejectDispatch(t) PROVE OwnerInv'
  BY <1>1, OwnerFrame DEF RejectDispatch, PlanFrame, Busy
<1>2. ASSUME NEW t \in Tickets, Send(t) PROVE OwnerInv'
  BY <1>2, OwnerFrame DEF Send, PlanFrame, Busy
<1>3. ASSUME NEW t \in Tickets, RequestAnswered(t) PROVE OwnerInv'
  BY <1>3, OwnerFrame DEF RequestAnswered, Answered, PlanFrame, Busy
<1>4. ASSUME NEW t \in Tickets, ReadTimesOut(t) PROVE OwnerInv'
  BY <1>4, OwnerFrame DEF ReadTimesOut, Answered, PlanFrame, Busy
<1>5. ASSUME NEW t \in Tickets, EvaluationStarted(t) PROVE OwnerInv'
  BY <1>5, OwnerFrame DEF EvaluationStarted, Answered, PlanFrame, Busy
<1>6. ASSUME NEW t \in Tickets, ContinueSent(t) PROVE OwnerInv'
  BY <1>6, OwnerFrame DEF ContinueSent, Answered, PlanFrame, Busy
<1>7. ASSUME NEW t \in Tickets, EvaluationResumed(t) PROVE OwnerInv'
  BY <1>7, OwnerFrame DEF EvaluationResumed, Answered, PlanFrame, Busy
<1>8. ASSUME NEW t \in Tickets, EvaluationResult(t) PROVE OwnerInv'
  BY <1>8, OwnerFrame DEF EvaluationResult, Answered, PlanFrame, Busy
<1>9. ASSUME NEW t \in Tickets, EvaluationStopped(t) PROVE OwnerInv'
  BY <1>9, OwnerFrame DEF EvaluationStopped, Answered, PlanFrame, Busy
<1>10. ASSUME NEW t \in Tickets, TargetStopped(t) PROVE OwnerInv'
  BY <1>10, OwnerFrame DEF TargetStopped, Answered, PlanFrame, Busy
<1>11. ASSUME NEW t \in Tickets, IntervalElapses(t) PROVE OwnerInv'
  BY <1>11, OwnerFrame DEF IntervalElapses, PlanFrame, Busy
<1>12. ASSUME NEW t \in Tickets, TransportFails(t) PROVE OwnerInv'
  BY <1>12, OwnerFrame DEF TransportFails, PlanFrame, Busy
<1>13. ASSUME NEW t \in Tickets, PollRefused(t) PROVE OwnerInv'
  BY <1>13, OwnerFrame DEF PollRefused, EntryRefused, PlanFrame, Busy
<1> QED
  BY <1>1, <1>2, <1>3, <1>4, <1>5, <1>6, <1>7, <1>8, <1>9, <1>10, <1>11, <1>12, <1>13,
     Zenon DEF CallEnds

\* The end of a plan keeps one owner.
LEMMA PlanEndsKeepsOwner == ASSUME TypeOK, OwnerInv, PlanEnds PROVE OwnerInv'
<1>1. ASSUME NEW t \in Tickets, ReturnRefused(t) PROVE OwnerInv'
  BY <1>1, OwnerFrame DEF ReturnRefused, PlanEnding, Busy
<1>2. ASSUME NEW t \in Tickets, ReturnAccepted(t) PROVE OwnerInv'
  BY <1>2, OwnerFrame DEF ReturnAccepted, PlanEnding, Busy
<1>3. ASSUME NEW t \in Tickets, PlanRaises(t) PROVE OwnerInv'
  BY <1>3, OwnerFrame DEF PlanRaises, PlanEnding, Busy
<1> QED
  BY <1>1, <1>2, <1>3, Zenon DEF PlanEnds

\* What the worker does under the mailbox keeps one owner.
LEMMA MailboxNextKeepsOwner == ASSUME TypeOK, OwnerInv, MailboxNext PROVE OwnerInv'
<1>1. ASSUME TakeReconciliation PROVE OwnerInv'
  BY <1>1, TakeReconciliationKeepsOwner
<1>2. ASSUME TakeHead PROVE OwnerInv'
  BY <1>2, TakeHeadKeepsOwner
<1>3. ASSUME WorkerExits PROVE OwnerInv'
  BY <1>3, WorkerExitsKeepsOwner
<1>4. ASSUME NEW t \in Tickets, FinalizerEnds(t) PROVE OwnerInv'
  BY <1>4, OwnerFrame DEF FinalizerEnds, Busy
<1>5. ASSUME NEW t \in Tickets, Settle(t) PROVE OwnerInv'
  BY <1>5, SettleActiveKeepsOwner, Zenon DEF Settle
<1>6. ASSUME NEW t \in Tickets, Fail(t) PROVE OwnerInv'
  BY <1>6, SettleActiveKeepsOwner, Zenon DEF Fail
<1>7. ASSUME NEW t \in Tickets, BecomeUnknown(t) PROVE OwnerInv'
  BY <1>7, BecomeUnknownKeepsOwner
<1>8. ASSUME TeardownBegins PROVE OwnerInv'
  BY <1>8, TeardownKeepsOwner
<1>9. ASSUME TeardownConfirms PROVE OwnerInv'
  BY <1>9, TeardownConfirmsKeepsOwner
<1>10. ASSUME TeardownUnproven PROVE OwnerInv'
  BY <1>10, TeardownKeepsOwner
<1> QED
  BY <1>1, <1>2, <1>3, <1>4, <1>5, <1>6, <1>7, <1>8, <1>9, <1>10, Zenon DEF MailboxNext

\* Every step keeps one owner.
LEMMA NextKeepsOwner == ASSUME TypeOK, OwnerInv, [Next]_vars PROVE OwnerInv'
<1>1. CASE UNCHANGED vars
  BY <1>1, OwnerFrame DEF vars
<1>2. CASE TargetExits
  BY <1>2, OwnerFrame DEF TargetExits
<1>3. CASE Next
  BY <1>2, <1>3, CallerNextKeepsOwner, PlanNextKeepsOwner, CallEndsKeepsOwner,
     PlanEndsKeepsOwner, MailboxNextKeepsOwner, Zenon DEF Next
<1> QED
  BY <1>1, <1>3

\* At first nobody owns the session and the queue is empty.
LEMMA InitHasOwnerInv == ASSUME Init PROVE OwnerInv
<1>1. Queued = {} /\ Distinct(queue)
  BY DEF Init, Queued, ToSet, Distinct
<1>2. SingleOwner
  BY <1>1, NoTicketAssumption DEF Init, SingleOwner, Owning, Distinct
<1> QED
  BY <1>2 DEF Init, OwnerInv, TeardownFence, WorkerAgrees, MailboxAgrees, Busy

-----------------------------------------------------------------------------

\* OwnerInv is the inductive invariant: SingleOwner alone says nothing of a scheduled
\* termination or of a worker that is about to settle, and both move the owner.
LEMMA OwnerInvariant == Spec => []OwnerInv
<1>1. TypeOK /\ OwnerInv /\ [Next]_vars => OwnerInv'
  BY NextKeepsOwner
<1> QED
  BY <1>1, InitHasOwnerInv, TypeCorrect, PTL DEF Spec

\* However submit, cancel, stop, close, retry, settlement, reconciliation and target
\* retirement interleave, exactly the active ticket owns the session and the queue
\* holds each queued ticket exactly once.
THEOREM OneOwner == Spec => []SingleOwner
BY OwnerInvariant, PTL DEF OwnerInv

\* From its scheduling to its end a termination attempt has a stopped, unknown owner
\* that nothing reconciles, settles or closes.
THEOREM TeardownFenced == Spec => []TeardownFence
BY OwnerInvariant, PTL DEF OwnerInv

-----------------------------------------------------------------------------
(* The evidence of remote work.                                            *)

\* Whatever the target may execute belongs to the active ticket, which shows it;
\* only the proven end of the target leaves something behind.
RemoteHasOwner == remote # NoTicket => terminated \/ (active = remote /\ Outstanding(remote))

\* Inside a port call the evidence is on the ticket before the target can know of it,
\* and it is still there when the call is answered.
CallHasEvidence ==
    /\ (worker \in {"dispatch", "transport"} /\ op \notin {"await", "waitStop"}) =>
           entered[active] /\ everEntered[active]
    /\ (worker \in {"dispatch", "transport"} /\ op = "continue") => stopTarget[active]
    /\ (worker = "transport" /\ op = "resume") => pending[active]
    /\ worker = "dispatch" => op \in {"request", "start", "continue"} /\ remote = NoTicket

\* What is about to settle as an answer has nothing outstanding.
VerdictHasNone ==
    (worker = "policy" \/ (worker = "verdict" /\ verdict \in {"value", "failure"}))
        => ~Outstanding(active)

\* Only a proven absence of the target terminates the arbiter.
TerminatedIsGone == terminated => closed /\ ~alive

\* The inductive strengthening of RemoteAccounted.
EvidenceInv == RemoteHasOwner /\ CallHasEvidence /\ VerdictHasNone /\ TerminatedIsGone

\* A step that touches no port call, no verdict and no evidence.
LEMMA EvidenceFrame ==
    ASSUME EvidenceInv, closed => closed', alive' => alive,
           UNCHANGED <<entered, everEntered, pending, stopTarget, remote, active, worker,
                       op, verdict, terminated>>
    PROVE  EvidenceInv'
BY DEF EvidenceInv, RemoteHasOwner, CallHasEvidence, VerdictHasNone, TerminatedIsGone, Outstanding

\* A step after which the worker is in no port call and has no answer to settle.
LEMMA EvidenceAtRest ==
    ASSUME EvidenceInv, worker' \notin {"dispatch", "transport", "policy"},
           worker' = "verdict" => verdict' \in {"plain", "unknown"},
           UNCHANGED <<terminated, closed>>, alive' => alive,
           RemoteHasOwner'
    PROVE  EvidenceInv'
BY DEF EvidenceInv, CallHasEvidence, VerdictHasNone, TerminatedIsGone

\* A busy worker is that of the active ticket of a live arbiter.
LEMMA BusyFacts ==
    ASSUME TypeOK, OwnerInv, EvidenceInv, worker \in Busy
    PROVE  /\ active \in Tickets /\ active # NoTicket /\ ~terminated
           /\ remote # NoTicket => active = remote /\ Outstanding(active)
BY OwnerFacts DEF OwnerInv, WorkerAgrees, EvidenceInv, RemoteHasOwner, TerminatedIsGone

\* What the callers do keeps the evidence.
LEMMA CallerNextKeepsEvidence == ASSUME TypeOK, EvidenceInv, CallerNext PROVE EvidenceInv'
<1> DEFINE Frame == /\ UNCHANGED <<evidenceVars, truthVars, workerVars, active, terminated>>
                    /\ closed => closed'
<1>1. ASSUME NEW t \in Tickets, Submit(t) PROVE Frame
  BY <1>1 DEF Submit
<1>2. ASSUME NEW t \in Tickets, Dispatch(t) PROVE Frame
  BY <1>2 DEF Dispatch
<1>3. ASSUME NEW t \in Tickets, TryHeartbeat(t) PROVE Frame
  BY <1>3 DEF TryHeartbeat
<1>4. ASSUME NEW t \in Tickets, RequestStop(t) PROVE Frame
  BY <1>4 DEF RequestStop
<1>5. ASSUME NEW t \in Tickets, Reconcile(t) PROVE Frame
  BY <1>5 DEF Reconcile
<1>6. ASSUME NEW i \in DOMAIN queue, CancelQueued(i) PROVE Frame
  BY <1>6 DEF CancelQueued
<1>7. ASSUME NEW p \in Tickets, NEW c \in Tickets, RetryCleanup(p, c) PROVE Frame
  BY <1>7 DEF RetryCleanup
<1>8. ASSUME CloseLoop PROVE Frame
  <2>1. closed => closed'
    BY <1>8, Zenon DEF CloseLoop, CloseRefused, CloseWaitsForActive, CloseWaitsForQueued, CloseCompletes
  <2> QED BY <1>8, <2>1 DEF CloseLoop
<1>9. ASSUME CloseJoins PROVE Frame
  BY <1>9 DEF CloseJoins
<1>10. Frame
  BY <1>1, <1>2, <1>3, <1>4, <1>5, <1>6, <1>7, <1>8, <1>9, Zenon DEF CallerNext, Close, CloseWakes
<1> QED
  BY <1>10, EvidenceFrame

\* What a plan does through its port shows its remote work first.
LEMMA PlanNextKeepsEvidence == ASSUME TypeOK, OwnerInv, EvidenceInv, PlanNext PROVE EvidenceInv'
<1>1. ASSUME NEW t \in Tickets, NEW k \in Ops, EnterCommand(t, k) PROVE EvidenceInv'
  <2>1. active = t /\ ~Outstanding(t) /\ worker = "plan"
    BY <1>1 DEF EnterCommand, InPlan
  <2>2. remote = NoTicket /\ ~terminated
    BY <2>1, BusyFacts DEF Busy
  <2>3. /\ entered' = [entered EXCEPT ![t] = TRUE] /\ everEntered' = [everEntered EXCEPT ![t] = TRUE]
        /\ stopTarget' = [stopTarget EXCEPT ![t] = (k = "continue")]
        /\ worker' = "dispatch" /\ op' = k /\ k \in {"request", "start", "continue"}
        /\ UNCHANGED <<active, remote, terminated>>
    BY <1>1 DEF EnterCommand, TransportEntered, PlanFrame
  <2> QED
    BY <2>1, <2>2, <2>3 DEF TypeOK, EvidenceInv, RemoteHasOwner, CallHasEvidence, VerdictHasNone, TerminatedIsGone
<1>2. ASSUME NEW t \in Tickets, NEW k \in Ops, BeginWait(t, k) PROVE EvidenceInv'
  BY <1>2 DEF BeginWait, InPlan, PlanFrame, EvidenceInv, RemoteHasOwner, CallHasEvidence, VerdictHasNone,
              TerminatedIsGone, Outstanding
<1>3. ASSUME NEW t \in Tickets, RefuseCommand(t) PROVE EvidenceInv'
  BY <1>3, EvidenceAtRest DEF RefuseCommand, EntryRefused, PlanFrame, EvidenceInv, RemoteHasOwner, Outstanding
<1>4. ASSUME NEW t \in Tickets, EnterResume(t) PROVE EvidenceInv'
  BY <1>4 DEF TypeOK, EnterResume, InPlan, TransportEntered, PlanFrame, EvidenceInv, RemoteHasOwner,
              CallHasEvidence, VerdictHasNone, TerminatedIsGone, Outstanding
<1>5. ASSUME NEW t \in Tickets, Poll(t) PROVE EvidenceInv'
  BY <1>5 DEF TypeOK, Poll, TransportEntered, PlanFrame, EvidenceInv, RemoteHasOwner,
              CallHasEvidence, VerdictHasNone, TerminatedIsGone, Outstanding
<1>6. ASSUME NEW t \in Tickets, RegisterCleanup(t) PROVE EvidenceInv'
  BY <1>6, EvidenceFrame DEF RegisterCleanup, PlanFrame
<1>7. ASSUME NEW t \in Tickets, HandoffRoute(t) PROVE EvidenceInv'
  BY <1>7, EvidenceFrame DEF HandoffRoute, PlanFrame
<1> QED
  BY <1>1, <1>2, <1>3, <1>4, <1>5, <1>6, <1>7, Zenon DEF PlanNext

\* The end of a port call retires evidence only with the work it stands for.
LEMMA CallEndsKeepsEvidence == ASSUME TypeOK, OwnerInv, EvidenceInv, CallEnds PROVE EvidenceInv'
<1>1. ASSUME NEW t \in Tickets, RejectDispatch(t) PROVE EvidenceInv'
  BY <1>1, EvidenceAtRest DEF RejectDispatch, PlanFrame, EvidenceInv, RemoteHasOwner, CallHasEvidence
<1>2. ASSUME NEW t \in Tickets, Send(t) PROVE EvidenceInv'
  BY <1>2 DEF Send, PlanFrame, EvidenceInv, RemoteHasOwner, CallHasEvidence, VerdictHasNone,
              TerminatedIsGone, Outstanding
<1>3. ASSUME NEW t \in Tickets, RequestAnswered(t) PROVE EvidenceInv'
  BY <1>3, EvidenceAtRest DEF RequestAnswered, Answered, PlanFrame, RemoteHasOwner
<1>4. ASSUME NEW t \in Tickets, ReadTimesOut(t) PROVE EvidenceInv'
  <2>1. RemoteHasOwner'
    BY <1>4 DEF TypeOK, ReadTimesOut, Answered, PlanFrame, EvidenceInv, RemoteHasOwner, Outstanding
  <2> QED
    BY <1>4, <2>1, EvidenceAtRest DEF ReadTimesOut, Answered, PlanFrame
<1>5. ASSUME NEW t \in Tickets, EvaluationStarted(t) PROVE EvidenceInv'
  <2>1. RemoteHasOwner'
    BY <1>5 DEF TypeOK, EvaluationStarted, Answered, PlanFrame, EvidenceInv, RemoteHasOwner, Outstanding
  <2> QED
    BY <1>5, <2>1, EvidenceAtRest DEF EvaluationStarted, Answered, PlanFrame
<1>6. ASSUME NEW t \in Tickets, ContinueSent(t) PROVE EvidenceInv'
  <2>1. RemoteHasOwner'
    BY <1>6 DEF TypeOK, ContinueSent, Answered, PlanFrame, EvidenceInv, RemoteHasOwner, CallHasEvidence, Outstanding
  <2> QED
    BY <1>6, <2>1, EvidenceAtRest DEF ContinueSent, Answered, PlanFrame
<1>7. ASSUME NEW t \in Tickets, EvaluationResumed(t) PROVE EvidenceInv'
  <2>1. RemoteHasOwner'
    BY <1>7 DEF TypeOK, EvaluationResumed, Answered, PlanFrame, EvidenceInv, RemoteHasOwner, CallHasEvidence, Outstanding
  <2> QED
    BY <1>7, <2>1, EvidenceAtRest DEF EvaluationResumed, Answered, PlanFrame
<1>8. ASSUME NEW t \in Tickets, EvaluationResult(t) PROVE EvidenceInv'
  BY <1>8, EvidenceAtRest DEF EvaluationResult, Answered, PlanFrame, RemoteHasOwner
<1>9. ASSUME NEW t \in Tickets, EvaluationStopped(t) PROVE EvidenceInv'
  BY <1>9, EvidenceAtRest DEF EvaluationStopped, Answered, PlanFrame, EvidenceInv, RemoteHasOwner, Outstanding
<1>10. ASSUME NEW t \in Tickets, TargetStopped(t) PROVE EvidenceInv'
  BY <1>10, EvidenceAtRest DEF TargetStopped, Answered, PlanFrame, RemoteHasOwner
<1>11. ASSUME NEW t \in Tickets, IntervalElapses(t) PROVE EvidenceInv'
  BY <1>11, EvidenceAtRest DEF IntervalElapses, PlanFrame, EvidenceInv, RemoteHasOwner, Outstanding
<1>12. ASSUME NEW t \in Tickets, TransportFails(t) PROVE EvidenceInv'
  BY <1>12, EvidenceAtRest DEF TransportFails, PlanFrame, EvidenceInv, RemoteHasOwner, Outstanding
<1>13. ASSUME NEW t \in Tickets, PollRefused(t) PROVE EvidenceInv'
  BY <1>13, EvidenceAtRest DEF PollRefused, EntryRefused, PlanFrame, EvidenceInv, RemoteHasOwner, Outstanding
<1> QED
  BY <1>1, <1>2, <1>3, <1>4, <1>5, <1>6, <1>7, <1>8, <1>9, <1>10, <1>11, <1>12, <1>13,
     Zenon DEF CallEnds

\* An outcome is accepted only without outstanding evidence.
LEMMA PlanEndsKeepsEvidence == ASSUME TypeOK, OwnerInv, EvidenceInv, PlanEnds PROVE EvidenceInv'
<1>1. ASSUME NEW t \in Tickets, ReturnRefused(t) PROVE EvidenceInv'
  BY <1>1, EvidenceAtRest DEF ReturnRefused, EvidenceInv, RemoteHasOwner, Outstanding
<1>2. ASSUME NEW t \in Tickets, ReturnAccepted(t) PROVE EvidenceInv'
  <2>1. worker' \in {"policy", "verdict"} /\ ~Outstanding(t) /\ active = t
    BY <1>2, Zenon DEF ReturnAccepted, OutcomeRefused, PlanEnding
  <2>2. UNCHANGED <<evidenceVars, active, remote, terminated, closed, alive>>
    BY <1>2 DEF ReturnAccepted
  <2> QED
    BY <2>1, <2>2 DEF EvidenceInv, RemoteHasOwner, CallHasEvidence, VerdictHasNone, TerminatedIsGone, Outstanding
<1>3. ASSUME NEW t \in Tickets, PlanRaises(t) PROVE EvidenceInv'
  BY <1>3, EvidenceAtRest DEF PlanRaises, EvidenceInv, RemoteHasOwner, Outstanding
<1> QED
  BY <1>1, <1>2, <1>3, Zenon DEF PlanEnds

\* The owner goes only without outstanding evidence, or with the target.
LEMMA MailboxNextKeepsEvidence ==
    ASSUME TypeOK, OwnerInv, EvidenceInv, MailboxNext PROVE EvidenceInv'
<1>1. ASSUME TakeReconciliation PROVE EvidenceInv'
  BY <1>1, EvidenceAtRest DEF TakeReconciliation, EvidenceInv, RemoteHasOwner, Outstanding
<1>2. ASSUME TakeHead PROVE EvidenceInv'
  <2>1. CASE HeadStale
    BY <1>2, <2>1, EvidenceFrame DEF TakeHead
  <2>2. CASE ~HeadStale
    <3>1. remote = NoTicket
      BY <1>2, NoTicketAssumption DEF TakeHead, HeadRunnable, EvidenceInv, RemoteHasOwner, TerminatedIsGone
    <3> QED BY <1>2, <2>2, <3>1, EvidenceAtRest DEF TakeHead, RemoteHasOwner
  <2> QED BY <2>1, <2>2
<1>3. ASSUME WorkerExits PROVE EvidenceInv'
  BY <1>3, EvidenceAtRest DEF WorkerExits, EvidenceInv, RemoteHasOwner, Outstanding
<1>4. ASSUME NEW t \in Tickets, FinalizerEnds(t) PROVE EvidenceInv'
  BY <1>4 DEF FinalizerEnds, EvidenceInv, RemoteHasOwner, CallHasEvidence, VerdictHasNone,
              TerminatedIsGone, Outstanding
<1>5. ASSUME NEW t \in Tickets, active = t, worker = "verdict", ~Outstanding(t),
             Settle(t) \/ Fail(t)
      PROVE EvidenceInv'
  <2>1. remote = NoTicket
    BY <1>5, BusyFacts DEF Busy
  <2>2. worker' = "idle" /\ UNCHANGED <<remote, terminated, closed, alive>>
    BY <1>5 DEF Settle, Fail, WorkerReturns
  <2> QED BY <2>1, <2>2, EvidenceAtRest DEF RemoteHasOwner
<1>6. ASSUME NEW t \in Tickets, Settle(t) PROVE EvidenceInv'
  BY <1>5, <1>6 DEF Settle, EvidenceInv, VerdictHasNone
<1>7. ASSUME NEW t \in Tickets, Fail(t) PROVE EvidenceInv'
  BY <1>5, <1>7 DEF Fail, KeepsOwner
<1>8. ASSUME NEW t \in Tickets, BecomeUnknown(t) PROVE EvidenceInv'
  BY <1>8, EvidenceAtRest DEF BecomeUnknown, WorkerReturns, EvidenceInv, RemoteHasOwner, Outstanding
<1>9. ASSUME TeardownBegins PROVE EvidenceInv'
  <2>1. alive' => alive
    BY <1>9, Zenon DEF TeardownBegins
  <2> QED BY <1>9, <2>1, EvidenceAtRest DEF TeardownBegins, EvidenceInv, RemoteHasOwner, Outstanding
<1>10. ASSUME TeardownConfirms PROVE EvidenceInv'
  BY <1>10 DEF TeardownConfirms, EvidenceInv, RemoteHasOwner, CallHasEvidence, VerdictHasNone, TerminatedIsGone
<1>11. ASSUME TeardownUnproven PROVE EvidenceInv'
  BY <1>11, EvidenceAtRest DEF TeardownUnproven, EvidenceInv, RemoteHasOwner, Outstanding
<1> QED
  BY <1>1, <1>2, <1>3, <1>4, <1>6, <1>7, <1>8, <1>9, <1>10, <1>11, Zenon DEF MailboxNext

\* Every step keeps the evidence.
LEMMA NextKeepsEvidence == ASSUME TypeOK, OwnerInv, EvidenceInv, [Next]_vars PROVE EvidenceInv'
<1>1. CASE UNCHANGED vars
  BY <1>1, EvidenceFrame DEF vars
<1>2. CASE TargetExits
  BY <1>2, EvidenceFrame DEF TargetExits
<1>3. CASE Next
  BY <1>2, <1>3, CallerNextKeepsEvidence, PlanNextKeepsEvidence, CallEndsKeepsEvidence,
     PlanEndsKeepsEvidence, MailboxNextKeepsEvidence, Zenon DEF Next
<1> QED
  BY <1>1, <1>3

\* RemoteAccounted alone is not inductive: what makes an answered call or a settlement
\* safe is the evidence that the position of the worker guarantees.
LEMMA EvidenceInvariant == Spec => []EvidenceInv
<1>1. Init => EvidenceInv
  BY DEF Init, EvidenceInv, RemoteHasOwner, CallHasEvidence, VerdictHasNone, TerminatedIsGone
<1>2. TypeOK /\ OwnerInv /\ EvidenceInv /\ [Next]_vars => EvidenceInv'
  BY NextKeepsEvidence
<1> QED
  BY <1>1, <1>2, TypeCorrect, OwnerInvariant, PTL DEF Spec

\* However calls time out, fail or are refused, and whoever stops, reconciles, settles or
\* closes in between, what the live target may still execute is work of the active ticket,
\* and the ticket holds evidence of it: the arbiter orphans no remote work.
THEOREM RemoteWorkAccounted == Spec => []RemoteAccounted
<1>1. EvidenceInv => RemoteAccounted
  BY DEF EvidenceInv, RemoteHasOwner, TerminatedIsGone, RemoteAccounted
<1> QED
  BY <1>1, EvidenceInvariant, PTL

-----------------------------------------------------------------------------
(* Stop.                                                                   *)

\* The step StopFencesTransport is about: it puts no new evidence on a stopped ticket.
KeepsFence ==
    \A t \in Tickets : stopRequested[t] =>
        /\ entered'[t] => entered[t]
        /\ everEntered'[t] => everEntered[t]
        /\ stopTarget'[t] => stopTarget[t]

\* What a plan does through its port asks _transport_entered first.
LEMMA PlanNextKeepsFence == ASSUME TypeOK, PlanNext PROVE KeepsFence
<1>1. ASSUME NEW t \in Tickets, NEW k \in Ops, EnterCommand(t, k) PROVE KeepsFence
  BY <1>1 DEF TypeOK, EnterCommand, TransportEntered, KeepsFence
<1>2. ASSUME NEW t \in Tickets, EnterResume(t) \/ Poll(t) PROVE KeepsFence
  BY <1>2 DEF TypeOK, EnterResume, Poll, TransportEntered, KeepsFence
<1>3. ASSUME NEW t \in Tickets,
             \/ \E k \in Ops : BeginWait(t, k)
             \/ RefuseCommand(t) \/ RegisterCleanup(t) \/ HandoffRoute(t)
      PROVE  KeepsFence
  BY <1>3 DEF BeginWait, RefuseCommand, RegisterCleanup, HandoffRoute, KeepsFence
<1> QED
  BY <1>1, <1>2, <1>3, Zenon DEF PlanNext

\* A read that times out after Stop keeps the evidence that its entry left, and a rejected
\* dispatch gives back only what its own entry added.
LEMMA CallEndsKeepsFence == ASSUME TypeOK, EvidenceInv, CallEnds PROVE KeepsFence
<1>1. ASSUME NEW t \in Tickets, ReadTimesOut(t) PROVE KeepsFence
  BY <1>1 DEF TypeOK, ReadTimesOut, Answered, EvidenceInv, CallHasEvidence, KeepsFence
<1>2. ASSUME NEW t \in Tickets, RejectDispatch(t) PROVE KeepsFence
  BY <1>2 DEF TypeOK, RejectDispatch, EvidenceInv, CallHasEvidence, KeepsFence
<1>3. ASSUME NEW t \in Tickets,
             \/ RequestAnswered(t) \/ EvaluationStarted(t) \/ ContinueSent(t)
             \/ EvaluationResumed(t) \/ EvaluationResult(t) \/ EvaluationStopped(t)
             \/ TargetStopped(t)
      PROVE  KeepsFence
  <2>1. UNCHANGED everEntered /\ (UNCHANGED entered \/ entered' = [entered EXCEPT ![t] = FALSE])
        /\ (UNCHANGED stopTarget \/ stopTarget' = [stopTarget EXCEPT ![t] = FALSE])
    BY <1>3, Zenon DEF RequestAnswered, EvaluationStarted, ContinueSent, EvaluationResumed,
       EvaluationResult, EvaluationStopped, TargetStopped, Answered
  <2> QED BY <2>1 DEF TypeOK, KeepsFence
<1>4. ASSUME NEW t \in Tickets,
             Send(t) \/ IntervalElapses(t) \/ TransportFails(t) \/ PollRefused(t)
      PROVE  KeepsFence
  BY <1>4 DEF Send, IntervalElapses, TransportFails, PollRefused, KeepsFence
<1> QED
  BY <1>1, <1>2, <1>3, <1>4, Zenon DEF CallEnds

\* Nobody but a plan enters the transport, and only a plan has its evidence retired, except
\* by the confirmed end of the target.
LEMMA OthersKeepFence ==
    ASSUME TypeOK, CallerNext \/ PlanEnds \/ MailboxNext \/ TargetExits PROVE KeepsFence
<1>1. ASSUME TeardownConfirms PROVE KeepsFence
  BY <1>1 DEF TypeOK, TeardownConfirms, KeepsFence
<1>2. ASSUME UNCHANGED <<entered, everEntered, stopTarget>> PROVE KeepsFence
  BY <1>2 DEF KeepsFence
<1>3. CASE CallerNext
  BY <1>2, <1>3 DEF CallerNext, Submit, Dispatch, TryHeartbeat, RequestStop, Reconcile, CancelQueued,
     RetryCleanup, Close, CloseWakes, CloseLoop, CloseJoins
<1>4. CASE PlanEnds \/ TargetExits
  BY <1>2, <1>4 DEF PlanEnds, ReturnRefused, ReturnAccepted, PlanRaises, TargetExits
<1>5. CASE MailboxNext
  BY <1>1, <1>2, <1>5 DEF MailboxNext, TakeReconciliation, TakeHead, WorkerExits, FinalizerEnds, Settle,
     Fail, BecomeUnknown, TeardownBegins, TeardownUnproven
<1> QED
  BY <1>3, <1>4, <1>5

\* From the first Stop of a ticket on, none of its commands, polls and resumes enters the
\* transport, in its plan and in every later reconciliation of it.
THEOREM StopFenced == Spec => StopFencesTransport
<1>1. TypeOK /\ EvidenceInv /\ Next => KeepsFence
  BY PlanNextKeepsFence, CallEndsKeepsFence, OthersKeepFence DEF Next
<1>2. TypeOK /\ EvidenceInv /\ [Next]_vars => [KeepsFence]_vars
  BY <1>1
<1> QED
  BY <1>2, TypeCorrect, EvidenceInvariant, PTL DEF Spec, StopFencesTransport, KeepsFence

-----------------------------------------------------------------------------
(* A settlement is final.                                                  *)

\* The step SettledIsFinal is about.
KeepsSettled ==
    \A t \in Tickets : phase[t] = "settled" =>
        phase'[t] = "settled" /\ result'[t] = result[t]

\* Settling tickets that are not settled yet.
LEMMA SettleAllKeepsSettled ==
    ASSUME NEW S, NEW r, SettleAll(S, r), \A t \in S : phase[t] # "settled"
    PROVE  KeepsSettled
BY DEF SettleAll, KeepsSettled

\* Another phase for one ticket that is not settled yet.
LEMMA MoveKeepsSettled ==
    ASSUME TypeOK, NEW t \in Tickets, phase[t] # "settled", NEW p,
           phase' = [phase EXCEPT ![t] = p], UNCHANGED result
    PROVE  KeepsSettled
BY DEF TypeOK, KeepsSettled

\* The callers settle only queued tickets and tickets that submit() has just made.
LEMMA CallerNextKeepsSettled == ASSUME TypeOK, OwnerInv, CallerNext PROVE KeepsSettled
<1>1. \A u \in Queued : phase[u] = "queued"
  BY OwnerFacts
<1>2. ASSUME NEW t \in Tickets, Submit(t) PROVE KeepsSettled
  <2>1. phase[t] = "new"
    BY <1>2 DEF Submit, SpareTicket, Fresh
  <2>2. CASE phase' = [phase EXCEPT ![t] = "queued"] /\ UNCHANGED result
    BY <2>1, <2>2, MoveKeepsSettled
  <2>3. CASE SettleAll({t}, "cancelled")
    BY <2>1, <2>3, SettleAllKeepsSettled
  <2> QED BY <1>2, <2>2, <2>3, Zenon DEF Submit
<1>3. ASSUME NEW t \in Tickets, TryHeartbeat(t) PROVE KeepsSettled
  BY <1>3, MoveKeepsSettled DEF TryHeartbeat, SpareTicket, Fresh
<1>4. ASSUME NEW t \in Tickets, RequestStop(t) PROVE KeepsSettled
  <2>1. UNCHANGED <<phase, result>> \/ SettleAll(Queued, "cancelled")
    BY <1>4, Zenon DEF RequestStop
  <2> QED BY <1>1, <2>1, SettleAllKeepsSettled DEF KeepsSettled
<1>5. ASSUME NEW t \in Tickets, Reconcile(t) PROVE KeepsSettled
  BY <1>5, MoveKeepsSettled DEF Reconcile
<1>6. ASSUME NEW i \in DOMAIN queue, CancelQueued(i) PROVE KeepsSettled
  BY <1>6, SettleAllKeepsSettled DEF CancelQueued
<1>7. ASSUME NEW p \in Tickets, NEW c \in Tickets, RetryCleanup(p, c) PROVE KeepsSettled
  BY <1>7, MoveKeepsSettled DEF RetryCleanup, SpareTicket, Fresh
<1>8. ASSUME CloseLoop PROVE KeepsSettled
  <2>1. CASE CloseWaitsForQueued
    <3>1. PICK i \in DOMAIN queue : SettleAll({queue[j] : j \in 1..(i - 1)}, "cancelled")
      BY <2>1, Zenon DEF CloseWaitsForQueued
    <3>2. \A j \in 1..(i - 1) : queue[j] \in Queued
      BY LenProperties DEF TypeOK, Queued, ToSet
    <3> QED BY <1>1, <3>1, <3>2, SettleAllKeepsSettled
  <2>2. CASE CloseCompletes
    BY <1>1, <2>2, SettleAllKeepsSettled DEF CloseCompletes
  <2>3. CASE UNCHANGED <<phase, result>>
    BY <2>3 DEF KeepsSettled
  <2> QED BY <1>8, <2>1, <2>2, <2>3 DEF CloseLoop, CloseRefused, CloseWaitsForActive
<1>9. ASSUME UNCHANGED <<phase, result>> PROVE KeepsSettled
  BY <1>9 DEF KeepsSettled
<1> QED
  BY <1>2, <1>3, <1>4, <1>5, <1>6, <1>7, <1>8, <1>9, Zenon
     DEF CallerNext, Dispatch, Close, CloseWakes, CloseJoins

\* The worker settles its owner, a stale head, or everything with the target.
LEMMA MailboxNextKeepsSettled == ASSUME TypeOK, OwnerInv, MailboxNext PROVE KeepsSettled
<1>1. \A u \in Tickets : (u \in Queued \/ u = active) => phase[u] # "settled"
  BY OwnerFacts DEF OwnerInv, SingleOwner, Owning
<1>2. ASSUME UNCHANGED <<phase, result>> PROVE KeepsSettled
  BY <1>2 DEF KeepsSettled
<1>3. ASSUME TakeReconciliation PROVE KeepsSettled
  <2>1. active \in Tickets
    BY <1>3, OwnerFacts DEF TakeReconciliation, OwnerInv, MailboxAgrees
  <2> QED BY <1>1, <1>3, <2>1, MoveKeepsSettled DEF TakeReconciliation
<1>4. ASSUME TakeHead PROVE KeepsSettled
  <2>1. Head(queue) \in Queued /\ Head(queue) \in Tickets
    BY <1>4, TailDistinct, OwnerFacts DEF TypeOK, TakeHead, HeadRunnable, Queued
  <2> QED BY <1>1, <1>4, <2>1, MoveKeepsSettled, SettleAllKeepsSettled DEF TakeHead
<1>5. ASSUME NEW t \in Tickets, active = t, NEW r, NEW n, SettleActive(t, r, n) PROVE KeepsSettled
  <2>1. phase[t] # "settled" /\ result' = [result EXCEPT ![t] = r]
    BY <1>1, <1>5 DEF SettleActive
  <2>2. \/ phase' = [phase EXCEPT ![t] = "settled"]
        \/ \E c \in Fresh : phase' = [phase EXCEPT ![t] = "settled", ![c] = "queued"]
    BY <1>5, Zenon DEF SettleActive
  <2> QED BY <2>1, <2>2 DEF TypeOK, Fresh, KeepsSettled
<1>6. ASSUME NEW t \in Tickets, Settle(t) \/ Fail(t) PROVE KeepsSettled
  BY <1>5, <1>6, Zenon DEF Settle, Fail
<1>7. ASSUME NEW t \in Tickets, BecomeUnknown(t) PROVE KeepsSettled
  BY <1>1, <1>7, MoveKeepsSettled DEF BecomeUnknown
<1>8. ASSUME TeardownConfirms PROVE KeepsSettled
  <2>1. active = teardown
    BY <1>8, OwnerFacts DEF TeardownConfirms
  <2> QED BY <1>1, <1>8, <2>1 DEF TeardownConfirms, KeepsSettled
<1> QED
  BY <1>2, <1>3, <1>4, <1>6, <1>7, <1>8, Zenon
     DEF MailboxNext, WorkerExits, FinalizerEnds, TeardownBegins, TeardownUnproven

\* The waiters of a ticket get one answer: no later Stop, cancellation, close, retirement or
\* reconciliation changes the result of a ticket that has been settled.
THEOREM SettlementFinal == Spec => SettledIsFinal
<1>1. ASSUME UNCHANGED <<phase, result>> PROVE KeepsSettled
  BY <1>1 DEF KeepsSettled
<1>2. PlanNext \/ CallEnds \/ PlanEnds \/ TargetExits => UNCHANGED <<phase, result>>
  BY DEF PlanNext, CallEnds, PlanEnds, TargetExits, EnterCommand, BeginWait, RefuseCommand, EnterResume,
     Poll, RegisterCleanup, HandoffRoute, RejectDispatch, Send, RequestAnswered, ReadTimesOut,
     EvaluationStarted, ContinueSent, EvaluationResumed, EvaluationResult, EvaluationStopped,
     TargetStopped, IntervalElapses, TransportFails, PollRefused, Answered, PlanFrame,
     ReturnRefused, ReturnAccepted, PlanRaises
<1>3. TypeOK /\ OwnerInv /\ Next => KeepsSettled
  BY <1>1, <1>2, CallerNextKeepsSettled, MailboxNextKeepsSettled DEF Next
<1>4. TypeOK /\ OwnerInv /\ [Next]_vars => [KeepsSettled]_vars
  BY <1>3
<1> QED
  BY <1>4, TypeCorrect, OwnerInvariant, PTL DEF Spec, SettledIsFinal, KeepsSettled

-----------------------------------------------------------------------------
(* The arbiter implements RemoteOwnership.                                 *)

\* The stage that RemoteOwnership sees of a ticket, in both states of a step.
LEMMA StageOf ==
    ASSUME NEW t
    PROVE  /\ phase[t] = "new" => Stage(t) = "new"
           /\ phase[t] = "queued" => Stage(t) = "queued"
           /\ phase[t] = "settled" => Stage(t) = "done"
           /\ phase[t] \in Owning => Stage(t) = "owner"
BY DEF Stage, Owning

LEMMA StageAfter ==
    ASSUME NEW t
    PROVE  /\ phase'[t] = "new" => Stage(t)' = "new"
           /\ phase'[t] = "queued" => Stage(t)' = "queued"
           /\ phase'[t] = "settled" => Stage(t)' = "done"
           /\ phase'[t] \in Owning => Stage(t)' = "owner"
           /\ phase'[t] = phase[t] => Stage(t)' = Stage(t)
BY DEF Stage, Owning

\* The stage function of the refinement after a step that moves the tickets of S.
LEMMA StagesMove ==
    ASSUME NEW S, NEW s,
           \A t \in Tickets : Stage(t)' = IF t \in S THEN s ELSE Stage(t)
    PROVE  [t \in Tickets |-> Stage(t)]' = Ownership!Move(S, s)
BY DEF Ownership!Move

\* Which tickets are at a stage.
LEMMA StagesIn ==
    ASSUME TypeOK, OwnerInv
    PROVE  /\ Ownership!In("queued") = Queued
           /\ Ownership!In("new") = Fresh
<1>1. \A t \in Tickets : phase[t] \in {"new", "queued", "settled"} \cup Owning
  BY DEF TypeOK, Phases, Owning
<1> QED
  BY <1>1, StageOf, OwnerFacts DEF Ownership!In, Fresh

\* A step that moves no ticket to another stage and changes nothing else that is seen.
LEMMA SeesNothing ==
    ASSUME UNCHANGED <<active, alive>>, (remote # NoTicket)' = (remote # NoTicket),
           \A t \in Tickets : Stage(t)' = Stage(t)
    PROVE  UNCHANGED Ownership!vars
BY DEF Ownership!vars

\* Cancelling waiting tickets, or one that submit() has just made, is a withdrawal.
LEMMA SettleAllWithdraws ==
    ASSUME TypeOK, OwnerInv, NEW S \in SUBSET Tickets, NEW r, SettleAll(S, r),
           S \subseteq Queued \/ (\E t \in Fresh : S = {t}),
           UNCHANGED <<active, remote, alive>>
    PROVE  Ownership!Next
<1>1. \A t \in Tickets : Stage(t)' = IF t \in S THEN "done" ELSE Stage(t)
  BY StageAfter DEF SettleAll
<1>2. Ownership!Withdraw(S)
  BY <1>1, StagesIn, StagesMove DEF Ownership!Withdraw
<1> QED
  BY <1>2 DEF Ownership!Next

\* Queueing a new ticket is an admission.
LEMMA QueueingAdmits ==
    ASSUME TypeOK, OwnerInv, NEW t \in Fresh, phase' = [phase EXCEPT ![t] = "queued"],
           UNCHANGED <<active, remote, alive>>
    PROVE  Ownership!Next
<1>1. t \in Tickets /\ phase[t] = "new"
  BY DEF Fresh
<1>2. \A u \in Tickets : Stage(u)' = IF u \in {t} THEN "queued" ELSE Stage(u)
  BY <1>1, StageAfter DEF TypeOK
<1>3. Ownership!Admit(t)
  BY <1>1, <1>2, StageOf, StagesMove DEF Ownership!Admit
<1> QED
  BY <1>1, <1>3 DEF Ownership!Next

\* The callers admit and withdraw, and never touch the owner.
LEMMA CallerNextRefines ==
    ASSUME TypeOK, OwnerInv, CallerNext PROVE [Ownership!Next]_(Ownership!vars)
<1>1. ASSUME UNCHANGED <<phase, active, remote, alive>> PROVE UNCHANGED Ownership!vars
  BY <1>1, SeesNothing, StageAfter
<1>2. ASSUME NEW t \in Tickets, Submit(t) PROVE Ownership!Next
  <2>1. t \in Fresh /\ UNCHANGED <<active, remote, alive>>
    BY <1>2 DEF Submit, SpareTicket
  <2> QED
    BY <1>2, <2>1, QueueingAdmits, SettleAllWithdraws DEF Submit
<1>3. ASSUME NEW t \in Tickets, TryHeartbeat(t) PROVE Ownership!Next
  BY <1>3, QueueingAdmits DEF TryHeartbeat, SpareTicket
<1>4. ASSUME NEW t \in Tickets, RequestStop(t) PROVE [Ownership!Next]_(Ownership!vars)
  <2>1. UNCHANGED phase \/ SettleAll(Queued, "cancelled")
    BY <1>4, Zenon DEF RequestStop
  <2>2. UNCHANGED <<active, remote, alive>> /\ Queued \subseteq Tickets
    BY <1>4, OwnerFacts DEF RequestStop
  <2> QED
    BY <1>1, <2>1, <2>2, SettleAllWithdraws
<1>5. ASSUME NEW t \in Tickets, Reconcile(t) PROVE UNCHANGED Ownership!vars
  <2>1. \A u \in Tickets : Stage(u)' = Stage(u)
    BY <1>5, StageOf, StageAfter DEF TypeOK, Reconcile, Owning
  <2> QED BY <1>5, <2>1, SeesNothing DEF Reconcile
<1>6. ASSUME NEW i \in DOMAIN queue, CancelQueued(i) PROVE Ownership!Next
  <2>1. queue[i] \in Tickets /\ queue[i] \in Queued
    BY LenProperties, ElementOfSeq DEF TypeOK, Queued, ToSet
  <2> QED
    BY <1>6, <2>1, SettleAllWithdraws DEF CancelQueued
<1>7. ASSUME NEW p \in Tickets, NEW c \in Tickets, RetryCleanup(p, c) PROVE Ownership!Next
  BY <1>7, QueueingAdmits DEF RetryCleanup, SpareTicket
<1>8. ASSUME CloseLoop PROVE [Ownership!Next]_(Ownership!vars)
  <2>1. UNCHANGED <<active, remote, alive>> /\ Queued \subseteq Tickets
    BY <1>8, OwnerFacts DEF CloseLoop
  <2>2. CASE CloseWaitsForQueued
    <3>1. PICK i \in DOMAIN queue : SettleAll({queue[j] : j \in 1..(i - 1)}, "cancelled")
      BY <2>2, Zenon DEF CloseWaitsForQueued
    <3>2. {queue[j] : j \in 1..(i - 1)} \subseteq Queued
      BY LenProperties DEF TypeOK, Queued, ToSet
    <3> QED BY <2>1, <3>1, <3>2, SettleAllWithdraws
  <2>3. CASE CloseCompletes
    BY <2>1, <2>3, SettleAllWithdraws DEF CloseCompletes
  <2>4. CASE UNCHANGED phase
    BY <1>1, <2>1, <2>4
  <2> QED BY <1>8, <2>2, <2>3, <2>4 DEF CloseLoop, CloseRefused, CloseWaitsForActive
<1>9. ASSUME NEW t \in Tickets, Dispatch(t) PROVE UNCHANGED Ownership!vars
  BY <1>1, <1>9 DEF Dispatch
<1>10. ASSUME CloseJoins PROVE UNCHANGED Ownership!vars
  BY <1>1, <1>10 DEF CloseJoins
<1> QED
  BY <1>2, <1>3, <1>4, <1>5, <1>6, <1>7, <1>8, <1>9, <1>10, Zenon DEF CallerNext, Close, CloseWakes

\* A plan makes the target busy and sees it end only while its ticket is the owner.
LEMMA PlanRefines ==
    ASSUME TypeOK, OwnerInv, EvidenceInv, PlanNext \/ CallEnds \/ PlanEnds
    PROVE  [Ownership!Next]_(Ownership!vars)
<1>1. ASSUME NEW t \in Tickets, active = t, UNCHANGED <<phase, active, alive>>,
             remote \in {NoTicket, t}, remote' \in {NoTicket, t}
      PROVE  [Ownership!Next]_(Ownership!vars)
  <2>1. CASE (remote # NoTicket)' = (remote # NoTicket)
    BY <1>1, <2>1, SeesNothing, StageAfter
  <2>2. CASE (remote # NoTicket)' # (remote # NoTicket)
    <3>1. \A u \in Tickets : Stage(u)' = Stage(u)
      BY <1>1, StageAfter
    <3>2. Ownership!Act(t)
      BY <1>1, <2>2, <3>1 DEF Ownership!Act
    <3> QED BY <3>2 DEF Ownership!Next
  <2> QED BY <2>1, <2>2
<1>2. ASSUME NEW t \in Tickets, active = t, worker \in Busy PROVE remote \in {NoTicket, t}
  BY <1>2, BusyFacts
<1>3. CASE PlanNext
  <2>1. PICK t \in Tickets : active = t /\ worker \in Busy /\ UNCHANGED <<phase, active, alive, remote>>
    BY <1>3 DEF PlanNext, EnterCommand, BeginWait, RefuseCommand, EnterResume, Poll, RegisterCleanup,
       HandoffRoute, InPlan, PlanFrame, Busy
  <2> QED BY <1>1, <1>2, <2>1
<1>4. CASE CallEnds
  <2>1. PICK t \in Tickets :
            active = t /\ worker \in Busy /\ UNCHANGED <<phase, active, alive>>
            /\ (UNCHANGED remote \/ remote' \in {NoTicket, t})
    BY <1>4 DEF CallEnds, RejectDispatch, Send, RequestAnswered, ReadTimesOut, EvaluationStarted,
       ContinueSent, EvaluationResumed, EvaluationResult, EvaluationStopped, TargetStopped,
       IntervalElapses, TransportFails, PollRefused, Answered, PlanFrame, Busy
  <2> QED BY <1>1, <1>2, <2>1
<1>5. CASE PlanEnds
  <2>1. UNCHANGED <<phase, active, alive, remote>>
    BY <1>5 DEF PlanEnds, ReturnRefused, ReturnAccepted, PlanRaises
  <2> QED BY <2>1, SeesNothing, StageAfter
<1> QED
  BY <1>3, <1>4, <1>5

\* A settlement releases an idle target, with or without a cleanup to follow.
LEMMA SettleActiveReleases ==
    ASSUME TypeOK, OwnerInv, EvidenceInv, NEW t \in Tickets, NEW r, NEW n, active = t,
           worker = "verdict", ~Outstanding(t), SettleActive(t, r, n),
           UNCHANGED <<remote, alive>>
    PROVE  Ownership!Next
<1>1. remote = NoTicket /\ active' = NoTicket
  BY BusyFacts DEF Busy, SettleActive
<1>2. phase[t] \in Owning
  BY DEF OwnerInv, SingleOwner
<1>3. CASE registered[t]
  <2>1. PICK c \in Fresh : phase' = [phase EXCEPT ![t] = "settled", ![c] = "queued"]
    BY <1>3, Zenon DEF SettleActive
  <2>2. c \in Tickets /\ phase[c] = "new" /\ c # t
    BY <1>2, <2>1 DEF Fresh, Owning
  <2>3. [u \in Tickets |-> Stage(u)]' = [Ownership!Move({t}, "done") EXCEPT ![c] = "queued"]
    <3>1. \A u \in Tickets : Stage(u)' = IF u = c THEN "queued" ELSE IF u = t THEN "done" ELSE Stage(u)
      BY <2>1, <2>2, StageAfter DEF TypeOK
    <3> QED BY <3>1 DEF Ownership!Move
  <2>4. c \in Ownership!In("new")
    BY StagesIn
  <2>5. Ownership!Release(t)
    BY <1>1, <2>3, <2>4 DEF Ownership!Release
  <2> QED BY <2>5 DEF Ownership!Next
<1>4. CASE ~registered[t]
  <2>1. phase' = [phase EXCEPT ![t] = "settled"]
    BY <1>4, Zenon DEF SettleActive
  <2>2. \A u \in Tickets : Stage(u)' = IF u \in {t} THEN "done" ELSE Stage(u)
    BY <2>1, StageAfter DEF TypeOK
  <2>3. Ownership!Release(t)
    BY <1>1, <2>2, StagesMove DEF Ownership!Release
  <2> QED BY <2>3 DEF Ownership!Next
<1> QED
  BY <1>3, <1>4

\* The worker grants, releases, withdraws what is stale and retires the gone target's work.
LEMMA MailboxNextRefines ==
    ASSUME TypeOK, OwnerInv, EvidenceInv, MailboxNext PROVE [Ownership!Next]_(Ownership!vars)
<1>1. ASSUME UNCHANGED <<phase, active, remote, alive>> PROVE UNCHANGED Ownership!vars
  BY <1>1, SeesNothing, StageAfter
<1>2. ASSUME TakeReconciliation PROVE UNCHANGED Ownership!vars
  <2>1. phase[active] = "reconciling" /\ active \in Tickets
    BY <1>2, OwnerFacts DEF TakeReconciliation, OwnerInv, MailboxAgrees
  <2>2. \A u \in Tickets : Stage(u)' = Stage(u)
    BY <1>2, <2>1, StageOf, StageAfter DEF TypeOK, TakeReconciliation, Owning
  <2> QED BY <1>2, <2>2, SeesNothing DEF TakeReconciliation
<1>3. ASSUME TakeHead PROVE Ownership!Next
  <2> DEFINE t == Head(queue)
  <2>1. t \in Queued /\ t \in Tickets /\ phase[t] = "queued"
    BY <1>3, TailDistinct, OwnerFacts DEF TypeOK, TakeHead, HeadRunnable, Queued
  <2>2. active = NoTicket /\ UNCHANGED <<remote, alive>> /\ remote = NoTicket
    BY <1>3, NoTicketAssumption DEF TakeHead, HeadRunnable, EvidenceInv, RemoteHasOwner, TerminatedIsGone
  <2>3. CASE HeadStale
    BY <1>3, <2>1, <2>2, <2>3, SettleAllWithdraws DEF TakeHead
  <2>4. CASE ~HeadStale
    <3>1. active' = t /\ phase' = [phase EXCEPT ![t] = "running"]
      BY <1>3, <2>4 DEF TakeHead
    <3> HIDE DEF t
    <3>2. \A u \in Tickets : Stage(u)' = IF u \in {t} THEN "owner" ELSE Stage(u)
      BY <2>1, <3>1, StageAfter DEF TypeOK, Owning
    <3>3. Ownership!Grant(t)
      BY <2>1, <2>2, <3>1, <3>2, StageOf, StagesMove DEF Ownership!Grant
    <3> QED BY <2>1, <3>3 DEF Ownership!Next
  <2> QED BY <2>3, <2>4
<1>4. ASSUME NEW t \in Tickets, Settle(t) PROVE Ownership!Next
  BY <1>4, SettleActiveReleases DEF Settle, EvidenceInv, VerdictHasNone
<1>5. ASSUME NEW t \in Tickets, Fail(t) PROVE Ownership!Next
  BY <1>5, SettleActiveReleases DEF Fail, KeepsOwner
<1>6. ASSUME NEW t \in Tickets, BecomeUnknown(t) PROVE UNCHANGED Ownership!vars
  <2>1. phase[t] \in Owning
    BY <1>6 DEF BecomeUnknown, OwnerInv, SingleOwner
  <2>2. \A u \in Tickets : Stage(u)' = Stage(u)
    BY <1>6, <2>1, StageOf, StageAfter DEF TypeOK, BecomeUnknown, Owning
  <2> QED BY <1>6, <2>2, SeesNothing DEF BecomeUnknown
<1>7. ASSUME UNCHANGED <<phase, active, remote>>, alive' \in {alive, FALSE}
      PROVE  [Ownership!Next]_(Ownership!vars)
  <2>1. CASE UNCHANGED alive
    BY <1>1, <1>7, <2>1
  <2>2. CASE alive' # alive
    <3>1. Ownership!TargetGone
      BY <1>7, <2>2, StageAfter DEF TypeOK, Ownership!TargetGone
    <3> QED BY <3>1 DEF Ownership!Next
  <2> QED BY <2>1, <2>2
<1>8. ASSUME TeardownBegins PROVE [Ownership!Next]_(Ownership!vars)
  BY <1>7, <1>8, Zenon DEF TeardownBegins
<1>9. ASSUME TeardownConfirms PROVE Ownership!Next
  <2>1. active = teardown /\ teardown \in Tickets /\ ~alive
    BY <1>9, OwnerFacts DEF TeardownConfirms
  <2>2. \A u \in Tickets : Stage(u)' = IF u \in {teardown} \cup Queued THEN "done" ELSE Stage(u)
    BY <1>9, StageAfter DEF TeardownConfirms
  <2>3. Ownership!Retire(teardown)
    BY <1>9, <2>1, <2>2, StagesIn, StagesMove DEF TeardownConfirms, Ownership!Retire
  <2> QED BY <2>1, <2>3 DEF Ownership!Next
<1>10. ASSUME TeardownUnproven PROVE UNCHANGED Ownership!vars
  BY <1>1, <1>10 DEF TeardownUnproven
<1>11. ASSUME WorkerExits PROVE UNCHANGED Ownership!vars
  BY <1>1, <1>11 DEF WorkerExits
<1>12. ASSUME NEW t \in Tickets, FinalizerEnds(t) PROVE UNCHANGED Ownership!vars
  BY <1>1, <1>12 DEF FinalizerEnds
<1> QED
  BY <1>2, <1>3, <1>4, <1>5, <1>6, <1>8, <1>9, <1>10, <1>11, <1>12, Zenon DEF MailboxNext

\* A late exit of the target is its end.
LEMMA TargetExitsRefines == ASSUME TargetExits PROVE Ownership!Next
<1>1. Ownership!TargetGone
  BY StageAfter DEF TargetExits, Ownership!TargetGone
<1> QED
  BY <1>1 DEF Ownership!Next

\* Every step of the arbiter is one of RemoteOwnership or invisible to it.
LEMMA NextRefines ==
    ASSUME TypeOK, OwnerInv, EvidenceInv, [Next]_vars PROVE [Ownership!Next]_(Ownership!vars)
<1>1. CASE UNCHANGED vars
  BY <1>1, SeesNothing, StageAfter DEF vars
<1>2. CASE Next
  BY <1>2, CallerNextRefines, PlanRefines, MailboxNextRefines, TargetExitsRefines DEF Next
<1> QED
  BY <1>1, <1>2

\* The mailbox, the worker, close() and the termination attempts together keep what
\* RemoteOwnership promises the callers: one owner at a time, released only when the target
\* executes nothing for it or is gone.
THEOREM ArbiterImplementsOwnership == Spec => ImplementsOwnership
<1>1. Init => Ownership!Init
  <2>1. Init => \A t \in Tickets : Stage(t) = "new"
    BY StageOf DEF Init
  <2> QED BY <2>1 DEF Init, Ownership!Init
<1>2. TypeOK /\ OwnerInv /\ EvidenceInv /\ [Next]_vars => [Ownership!Next]_(Ownership!vars)
  BY NextRefines
<1> QED
  BY <1>1, <1>2, TypeCorrect, OwnerInvariant, EvidenceInvariant, PTL
     DEF Spec, ImplementsOwnership, Ownership!Spec

-----------------------------------------------------------------------------
(* Cleanups.                                                               *)

Cleanups == {c \in Tickets : IsCleanup(c)}
LiveCleanups == {c \in Cleanups : phase[c] # "settled"}

\* Kinds, parents and children agree, and nothing is registered before its plan runs.
Families ==
    /\ \A t \in Tickets : phase[t] = "new" => kind[t] = "user" /\ child[t] = NoTicket
    /\ \A t \in Tickets : phase[t] \in {"new", "queued"} => ~registered[t]
    /\ \A t \in Tickets : IsCleanup(t) <=> kind[t] \in {"cleanup", "retry"}
    /\ \A t \in Tickets : registered[t] => kind[t] = "user"
    /\ \A p \in Tickets : child[p] # NoTicket => parent[child[p]] = p

\* At most one cleanup is on its way, its parent knows it, no other debt is owed, and
\* neither work before it nor a change of route can spoil it while it waits.
OneLiveCleanup ==
    /\ \A c, d \in LiveCleanups : c = d
    /\ HeadOnly(queue, Cleanups)
    /\ \A c \in LiveCleanups :
        /\ child[parent[c]] = c
        /\ cleanupDebt \in {NoTicket, parent[c]}
        /\ kind[c] = "retry" => cleanupDebt = parent[c]
        /\ phase[c] = "queued" => ticketRoute[c] = route

\* Nothing waits in a closed arbiter, and only user plans report a failure.
MailboxRules ==
    /\ closed => queue = <<>>
    /\ (worker = "verdict" /\ verdict = "failure") => kind[active] = "user"

\* The inductive strengthening of CleanupKept.
CleanupInv == Families /\ OneLiveCleanup /\ MailboxRules /\ NothingOvertakesCleanup /\ CleanupNotLost

\* What the invariant says of a new ticket, of a live cleanup and of an active user plan.
LEMMA CleanupFacts ==
    ASSUME TypeOK, OwnerInv, CleanupInv
    PROVE  /\ \A t \in Fresh : /\ t \in Tickets /\ phase[t] = "new" /\ ~IsCleanup(t)
                               /\ t \notin Queued /\ t # active
                               /\ \A p \in Tickets : child[p] # t
           /\ \A c \in Cleanups : c \in Tickets /\ parent[c] \in Tickets /\ phase[c] # "new"
           /\ \A c \in LiveCleanups : c \in Cleanups /\ (active = c \/ c \in Queued)
           /\ \A p \in Tickets : child[p] # NoTicket => child[p] \in Cleanups
           /\ (active # NoTicket /\ ~IsCleanup(active)) => cleanupDebt = NoTicket /\ LiveCleanups = {}
           /\ (active # NoTicket /\ IsCleanup(active)) => LiveCleanups = {active}
           /\ \A c \in Queued \cap Cleanups : c \in LiveCleanups
<1>1. /\ Queued = {t \in Tickets : phase[t] = "queued"}
      /\ active # NoTicket => active \in Tickets
      /\ \A t \in Tickets : phase[t] \in Owning <=> active = t
  BY OwnerFacts DEF OwnerInv, SingleOwner
<1>2. \A c \in Cleanups : c \in Tickets /\ parent[c] \in Tickets /\ phase[c] # "new"
  BY DEF TypeOK, Maybe, CleanupInv, Families, Cleanups, IsCleanup
<1>3. \A c \in LiveCleanups : c \in Cleanups /\ (active = c \/ c \in Queued)
  BY <1>1, <1>2 DEF LiveCleanups, TypeOK, Phases, Owning
<1>4. \A p \in Tickets : child[p] # NoTicket => child[p] \in Cleanups
  BY NoTicketAssumption DEF TypeOK, Maybe, CleanupInv, Families, Cleanups, IsCleanup
<1>5. \A t \in Fresh : t \in Tickets /\ phase[t] = "new" /\ ~IsCleanup(t) /\ t \notin Queued /\ t # active
  BY <1>1 DEF Fresh, CleanupInv, Families, Owning
<1>6. \A t \in Fresh : \A p \in Tickets : child[p] # t
  <2>1. \A t \in Fresh : t \notin Cleanups
    BY <1>5 DEF Cleanups
  <2>2. \A t \in Fresh : t # NoTicket
    BY <1>5, NoTicketAssumption
  <2> QED BY <1>4, <2>1, <2>2
<1>7. (active # NoTicket /\ ~IsCleanup(active)) => cleanupDebt = NoTicket /\ LiveCleanups = {}
  BY DEF CleanupInv, NothingOvertakesCleanup, LiveCleanups, Cleanups
<1>8. (active # NoTicket /\ IsCleanup(active)) => LiveCleanups = {active}
  BY <1>1 DEF CleanupInv, OneLiveCleanup, LiveCleanups, Cleanups, Owning
<1>9. \A c \in Queued \cap Cleanups : c \in LiveCleanups
  BY <1>1 DEF LiveCleanups
<1> QED
  BY <1>2, <1>3, <1>4, <1>5, <1>6, <1>7, <1>8, <1>9

\* A step that changes neither the family, the queue, the debt nor an owner.
LEMMA CleanupFrame ==
    ASSUME TypeOK, OwnerInv, CleanupInv,
           UNCHANGED <<kind, parent, child, registered, result, ticketRoute, queue, cleanupDebt,
                       route, active, closed, terminated>>,
           \A t \in Tickets : \/ phase'[t] = phase[t]
                              \/ phase[t] \in Owning /\ phase'[t] \in Owning,
           (worker' = "verdict" /\ verdict' = "failure") =>
               (worker = "verdict" /\ verdict = "failure") \/ kind[active] = "user"
    PROVE  CleanupInv'
<1>1. Cleanups' = Cleanups /\ LiveCleanups' = LiveCleanups
  BY DEF Cleanups, IsCleanup, LiveCleanups, Owning
<1>2. Families' /\ MailboxRules'
  BY DEF CleanupInv, Families, MailboxRules, IsCleanup, Owning
<1>3. OneLiveCleanup'
  BY <1>1 DEF CleanupInv, OneLiveCleanup, LiveCleanups, Cleanups, HeadOnly, Owning
<1>4. NothingOvertakesCleanup'
  BY DEF CleanupInv, NothingOvertakesCleanup, IsCleanup, Owning
<1>5. CleanupNotLost'
  BY CleanupFacts DEF CleanupInv, CleanupNotLost, OwesCleanup, Owning, Cleanups
<1> QED
  BY <1>2, <1>3, <1>4, <1>5 DEF CleanupInv

\* Withdrawing waiting tickets: among them a cleanup only if its debt is recorded.
LEMMA WithdrawKeepsCleanups ==
    ASSUME TypeOK, OwnerInv, CleanupInv,
           NEW S \in SUBSET Tickets, S \subseteq Queued \cup Fresh,
           NEW r \in {"cancelled", "stale"}, SettleAll(S, r),
           \A c \in S \cap Cleanups : cleanupDebt = parent[c],
           HeadOnly(queue', Cleanups), closed => queue' = queue,
           UNCHANGED <<kind, parent, child, registered, cleanupDebt, route, active, closed,
                       terminated, worker, verdict>>,
           \A c \in Cleanups : ticketRoute'[c] = ticketRoute[c]
    PROVE  CleanupInv'
<1>1. Cleanups' = Cleanups /\ LiveCleanups' = LiveCleanups \ S
  BY DEF Cleanups, IsCleanup, LiveCleanups, SettleAll
<1>2. \A t \in Tickets : /\ t \in S => ~registered[t] /\ phase'[t] = "settled" /\ phase[t] \in {"new", "queued"}
                         /\ t \notin S => phase'[t] = phase[t] /\ result'[t] = result[t]
  BY OwnerFacts DEF CleanupInv, Families, Fresh, SettleAll
<1>3. Families' /\ MailboxRules'
  BY <1>2 DEF CleanupInv, Families, MailboxRules, IsCleanup
<1>4. OneLiveCleanup'
  BY <1>1, <1>2 DEF CleanupInv, OneLiveCleanup, LiveCleanups, Cleanups
<1>5. NothingOvertakesCleanup'
  BY <1>2 DEF CleanupInv, NothingOvertakesCleanup, IsCleanup
<1>6. CleanupNotLost'
  <2> SUFFICES ASSUME NEW p \in Tickets, OwesCleanup(p)'
               PROVE  /\ child[p] # NoTicket
                      /\ \/ phase'[child[p]] \in Owning \cup {"queued"}
                         \/ result'[child[p]] = "value"
                         \/ cleanupDebt = p
                         \/ terminated
                      /\ closed => result'[child[p]] = "value" \/ terminated
    BY DEF CleanupNotLost
  <2>1. OwesCleanup(p) /\ p \notin S
    BY <1>2 DEF OwesCleanup
  <2>2. child[p] # NoTicket /\ child[p] \in Cleanups /\ child[p] \in Tickets /\ parent[child[p]] = p
    BY <2>1, CleanupFacts DEF CleanupInv, CleanupNotLost, Families
  <2>3. CASE child[p] \in S
    <3>1. cleanupDebt = p
      BY <2>2, <2>3
    <3>2. ~closed
      BY <2>2, <2>3, CleanupFacts DEF CleanupInv, MailboxRules, Queued, ToSet
    <3> QED BY <2>2, <3>1, <3>2
  <2>4. CASE child[p] \notin S
    BY <1>2, <2>1, <2>2, <2>4 DEF CleanupInv, CleanupNotLost
  <2> QED BY <2>3, <2>4
<1> QED
  BY <1>3, <1>4, <1>5, <1>6 DEF CleanupInv

\* Queueing a new ticket that is no cleanup.
LEMMA AdmitKeepsCleanups ==
    ASSUME TypeOK, OwnerInv, CleanupInv, NEW t \in Fresh,
           phase' = [phase EXCEPT ![t] = "queued"],
           UNCHANGED kind \/ kind' = [kind EXCEPT ![t] = "heartbeat"],
           ticketRoute' = [ticketRoute EXCEPT ![t] = route],
           HeadOnly(queue', Cleanups), ~closed,
           UNCHANGED <<parent, child, registered, result, cleanupDebt, route, active, closed,
                       terminated, worker, verdict>>
    PROVE  CleanupInv'
<1>1. t \in Tickets /\ phase[t] = "new" /\ ~IsCleanup(t) /\ t \notin Cleanups /\ t # active
      /\ \A p \in Tickets : child[p] # t
  BY CleanupFacts DEF Cleanups
<1>2. \A u \in Tickets : /\ u # t => phase'[u] = phase[u] /\ kind'[u] = kind[u]
                         /\ phase'[t] = "queued" /\ kind'[t] \in {"user", "heartbeat"}
  BY <1>1 DEF TypeOK, CleanupInv, Families
<1>3. Cleanups' = Cleanups /\ LiveCleanups' = LiveCleanups
  BY <1>1, <1>2 DEF Cleanups, IsCleanup, LiveCleanups
<1>4. Families'
  BY <1>1, <1>2 DEF CleanupInv, Families, IsCleanup
<1>5. MailboxRules'
  BY <1>1, <1>2, OwnerFacts DEF CleanupInv, MailboxRules, OwnerInv, WorkerAgrees, Busy
<1>6. OneLiveCleanup'
  <2>1. \A c \in LiveCleanups : c \in Tickets /\ c # t
    BY <1>1 DEF LiveCleanups, Cleanups
  <2>2. \A c \in LiveCleanups : phase'[c] = phase[c] /\ kind'[c] = kind[c] /\ ticketRoute'[c] = ticketRoute[c]
    BY <1>2, <2>1 DEF TypeOK
  <2> QED BY <1>3, <2>2 DEF CleanupInv, OneLiveCleanup
<1>7. NothingOvertakesCleanup'
  BY <1>1, <1>2 DEF CleanupInv, NothingOvertakesCleanup, IsCleanup
<1>8. CleanupNotLost'
  BY <1>1, <1>2, CleanupFacts DEF CleanupInv, CleanupNotLost, OwesCleanup, Cleanups, Owning
<1> QED
  BY <1>4, <1>5, <1>6, <1>7, <1>8 DEF CleanupInv

\* A retry replaces the settled child of the ticket that owes the cleanup.
LEMMA RetryCleanupKeepsCleanups ==
    ASSUME TypeOK, OwnerInv, CleanupInv, NEW p \in Tickets, NEW c \in Tickets, RetryCleanup(p, c)
    PROVE  CleanupInv'
<1>1. /\ c \in Fresh /\ registered[p] /\ child[p] # NoTicket /\ phase[child[p]] = "settled"
      /\ cleanupDebt = p /\ active = NoTicket /\ ~closed
      /\ kind' = [kind EXCEPT ![c] = "retry"] /\ parent' = [parent EXCEPT ![c] = p]
      /\ ticketRoute' = [ticketRoute EXCEPT ![c] = route]
      /\ phase' = [phase EXCEPT ![c] = "queued"] /\ child' = [child EXCEPT ![p] = c]
      /\ queue' = <<c>> \o queue
      /\ UNCHANGED <<registered, result, active, cleanupDebt, route, closed, terminated, worker, verdict>>
  BY DEF RetryCleanup, SpareTicket
<1>2. /\ phase[c] = "new" /\ ~IsCleanup(c) /\ c \notin Cleanups /\ ~registered[c] /\ p # c
      /\ \A q \in Tickets : child[q] # c
  BY <1>1, CleanupFacts DEF Cleanups, CleanupInv, Families
<1>3. LiveCleanups = {}
  <2>1. \A d \in LiveCleanups : child[p] = d
    BY <1>1, NoTicketAssumption DEF CleanupInv, OneLiveCleanup
  <2> QED BY <1>1, <2>1 DEF LiveCleanups
<1>4. \A u \in Tickets : u # c => /\ phase'[u] = phase[u] /\ kind'[u] = kind[u] /\ parent'[u] = parent[u]
                                  /\ ticketRoute'[u] = ticketRoute[u] /\ (u # p => child'[u] = child[u])
  BY <1>1 DEF TypeOK
<1>5. /\ phase'[c] = "queued" /\ kind'[c] = "retry" /\ parent'[c] = p /\ ticketRoute'[c] = route
      /\ child'[p] = c /\ child'[c] = child[c]
  BY <1>1, <1>2 DEF TypeOK
<1>6. Cleanups' = Cleanups \cup {c} /\ LiveCleanups' = {c}
  BY <1>3, <1>4, <1>5, NoTicketAssumption DEF Cleanups, IsCleanup, LiveCleanups
<1>7. Families'
  <2>1. ASSUME NEW q \in Tickets, child'[q] # NoTicket PROVE parent'[child'[q]] = q
    <3>1. CASE q = p
      BY <1>5, <3>1
    <3>2. CASE q # p
      <4>1. child'[q] = child[q] /\ child[q] # c
        BY <1>2, <1>4, <1>5, <3>2
      <4>2. child[q] \in Tickets /\ parent[child[q]] = q
        BY <2>1, <4>1 DEF TypeOK, Maybe, CleanupInv, Families
      <4> QED BY <1>4, <4>1, <4>2
    <3> QED BY <3>1, <3>2
  <2>2. phase[p] # "new" /\ phase[p] # "queued"
    BY <1>1 DEF CleanupInv, Families
  <2>3. \A u \in Tickets : (parent'[u] # NoTicket) <=> kind'[u] \in {"cleanup", "retry"}
    BY <1>4, <1>5, NoTicketAssumption DEF CleanupInv, Families, IsCleanup
  <2> QED BY <1>1, <1>2, <1>4, <1>5, <2>1, <2>2, <2>3 DEF CleanupInv, Families, IsCleanup
<1>8. OneLiveCleanup'
  <2>1. ToSet(queue) \cap (Cleanups \cup {c}) = {}
    BY <1>1, <1>3, CleanupFacts DEF Queued
  <2>2. HeadOnly(queue', Cleanups')
    BY <1>1, <1>6, <2>1, PushHeadOnly DEF TypeOK
  <2> QED BY <1>1, <1>5, <1>6, <2>2 DEF OneLiveCleanup
<1>9. MailboxRules' /\ NothingOvertakesCleanup'
  BY <1>1, OwnerFacts DEF CleanupInv, MailboxRules, NothingOvertakesCleanup, OwnerInv, WorkerAgrees, Busy
<1>10. CleanupNotLost'
  <2> SUFFICES ASSUME NEW q \in Tickets, OwesCleanup(q)'
               PROVE  /\ child'[q] # NoTicket
                      /\ \/ phase'[child'[q]] \in Owning \cup {"queued"}
                         \/ result[child'[q]] = "value"
                         \/ cleanupDebt = q
                         \/ terminated
    BY <1>1 DEF CleanupNotLost
  <2>1. q # c /\ OwesCleanup(q)
    BY <1>1, <1>2, <1>4 DEF OwesCleanup
  <2>2. CASE q = p
    BY <1>1, <2>2, NoTicketAssumption DEF TypeOK
  <2>3. CASE q # p
    <3>1. child'[q] = child[q] /\ child[q] # NoTicket /\ child[q] \in Tickets /\ child[q] # c
      BY <1>2, <1>4, <2>1, <2>3 DEF CleanupInv, CleanupNotLost, TypeOK, Maybe
    <3> QED BY <1>4, <2>1, <3>1 DEF CleanupInv, CleanupNotLost
  <2> QED BY <2>2, <2>3
<1> QED
  BY <1>7, <1>8, <1>9, <1>10 DEF CleanupInv

\* The settlement of an answer leaves its cleanup behind, at the head.
LEMMA SettleUserKeepsCleanups ==
    ASSUME TypeOK, OwnerInv, CleanupInv, NEW t \in Tickets, active = t, worker = "verdict",
           ~IsCleanup(t), NEW r \in {"value", "failure", "error"}, NEW n \in 0..MaxRoute,
           SettleActive(t, r, n), WorkerReturns, cleanupDebt' = NoTicket,
           UNCHANGED <<closed, terminated>>
    PROVE  CleanupInv'
<1>1. /\ cleanupDebt = NoTicket /\ LiveCleanups = {} /\ ~closed /\ phase[t] = "running" /\ t # NoTicket
  BY CleanupFacts, OwnerFacts, NoTicketAssumption DEF Busy, OwnerInv, WorkerAgrees
<1>2. route' = n /\ active' = NoTicket /\ result' = [result EXCEPT ![t] = r] /\ UNCHANGED registered
      /\ worker' = "idle"
  BY DEF SettleActive, WorkerReturns
<1>3. t \notin Cleanups /\ \A p \in Tickets : child[p] # t
  BY CleanupFacts, <1>1 DEF Cleanups
<1>4. \A p \in Tickets : p # t => (OwesCleanup(p) => (child[p] # NoTicket /\ (result[child[p]] = "value" \/ terminated)))
  BY <1>1, NoTicketAssumption, CleanupFacts
     DEF CleanupInv, CleanupNotLost, LiveCleanups, Cleanups, Owning
<1>5. CASE registered[t]
  <2>1. PICK c \in Fresh : /\ phase' = [phase EXCEPT ![t] = "settled", ![c] = "queued"]
                           /\ QueueCleanup(t, c, n)
    BY <1>5, Zenon DEF SettleActive
  <2>2. /\ c \in Tickets /\ phase[c] = "new" /\ c # t /\ c \notin Cleanups /\ c \notin Queued
        /\ ~registered[c] /\ \A p \in Tickets : child[p] # c
    BY <1>1, CleanupFacts DEF Cleanups, CleanupInv, Families
  <2>3. /\ kind'[c] = "cleanup" /\ parent'[c] = t /\ ticketRoute'[c] = n /\ child'[t] = c
        /\ child'[c] = child[c] /\ phase'[c] = "queued" /\ phase'[t] = "settled" /\ result'[t] = r
        /\ queue' = <<c>> \o queue
    BY <1>2, <2>1, <2>2 DEF TypeOK, QueueCleanup
  <2>4. \A u \in Tickets : u # c => /\ kind'[u] = kind[u] /\ parent'[u] = parent[u]
                                    /\ ticketRoute'[u] = ticketRoute[u]
                                    /\ (u # t => child'[u] = child[u] /\ phase'[u] = phase[u] /\ result'[u] = result[u])
    BY <1>2, <2>1, <2>2 DEF TypeOK, QueueCleanup
  <2>5. Cleanups' = Cleanups \cup {c} /\ LiveCleanups' = {c}
    BY <1>1, <1>3, <2>2, <2>3, <2>4 DEF Cleanups, IsCleanup, LiveCleanups
  <2>6. Families'
    <3>1. ASSUME NEW p \in Tickets, child'[p] # NoTicket PROVE parent'[child'[p]] = p
      <4>1. CASE p = t
        BY <2>3, <4>1
      <4>2. CASE p # t
        <5>1. child'[p] = child[p] /\ child[p] # c
          BY <2>2, <2>3, <2>4, <4>2
        <5>2. child[p] \in Tickets /\ parent[child[p]] = p
          BY <3>1, <5>1 DEF TypeOK, Maybe, CleanupInv, Families
        <5> QED BY <2>4, <5>1, <5>2
      <4> QED BY <4>1, <4>2
    <3>2. \A u \in Tickets : (parent'[u] # NoTicket) <=> kind'[u] \in {"cleanup", "retry"}
      BY <1>1, <2>3, <2>4 DEF CleanupInv, Families, IsCleanup
    <3>3. \A u \in Tickets : phase'[u] = "new" => kind'[u] = "user" /\ child'[u] = NoTicket
      BY <2>2, <2>3, <2>4 DEF CleanupInv, Families
    <3>4. \A u \in Tickets : /\ phase'[u] \in {"new", "queued"} => ~registered[u]
                             /\ registered[u] => kind'[u] = "user"
      BY <2>2, <2>3, <2>4 DEF CleanupInv, Families
    <3> QED BY <1>2, <3>1, <3>2, <3>3, <3>4 DEF Families, IsCleanup
  <2>7. OneLiveCleanup'
    <3>1. ToSet(queue) \cap (Cleanups \cup {c}) = {}
      BY <1>1, <2>2, CleanupFacts DEF Queued
    <3>2. HeadOnly(queue', Cleanups')
      BY <2>2, <2>3, <2>5, <3>1, PushHeadOnly DEF TypeOK
    <3> QED BY <1>2, <2>3, <2>5, <3>2 DEF OneLiveCleanup
  <2>8. MailboxRules' /\ NothingOvertakesCleanup'
    BY <1>1, <1>2 DEF MailboxRules, NothingOvertakesCleanup
  <2>9. CleanupNotLost'
    <3> SUFFICES ASSUME NEW p \in Tickets, OwesCleanup(p)'
                 PROVE  /\ child'[p] # NoTicket
                        /\ \/ phase'[child'[p]] = "queued"
                           \/ result'[child'[p]] = "value"
                           \/ terminated
      BY <1>1 DEF CleanupNotLost
    <3>1. CASE p = t
      BY <2>2, <2>3, <3>1, NoTicketAssumption
    <3>2. CASE p # t
      <4>1. p # c
        BY <1>2, <2>2 DEF OwesCleanup
      <4>2. OwesCleanup(p)
        BY <1>2, <2>4, <3>2, <4>1 DEF OwesCleanup
      <4>3. child'[p] = child[p] /\ child[p] # NoTicket /\ (result[child[p]] = "value" \/ terminated)
        BY <1>4, <2>4, <3>2, <4>1, <4>2
      <4>4. child[p] \in Tickets /\ child[p] # c /\ child[p] # t
        BY <1>3, <2>2, <4>3 DEF TypeOK, Maybe
      <4> QED BY <2>4, <4>3, <4>4
    <3> QED BY <3>1, <3>2
  <2> QED BY <2>6, <2>7, <2>8, <2>9 DEF CleanupInv
<1>6. CASE ~registered[t]
  <2>1. phase' = [phase EXCEPT ![t] = "settled"] /\ UNCHANGED <<kind, parent, ticketRoute, child, queue>>
    BY <1>6 DEF SettleActive
  <2>2. Cleanups' = Cleanups /\ LiveCleanups' = {}
    BY <1>1, <1>3, <2>1 DEF Cleanups, IsCleanup, LiveCleanups, TypeOK
  <2>3. Families'
    BY <1>2, <2>1 DEF TypeOK, CleanupInv, Families, IsCleanup
  <2>4. OneLiveCleanup'
    BY <2>1, <2>2 DEF CleanupInv, OneLiveCleanup
  <2>5. MailboxRules' /\ NothingOvertakesCleanup'
    BY <1>1, <1>2 DEF MailboxRules, NothingOvertakesCleanup
  <2>6. CleanupNotLost'
    BY <1>1, <1>2, <1>3, <1>4, <1>6, <2>1, CleanupFacts
       DEF CleanupNotLost, OwesCleanup, Cleanups, TypeOK, Maybe
  <2> QED BY <2>3, <2>4, <2>5, <2>6 DEF CleanupInv
<1> QED
  BY <1>5, <1>6

\* The settlement of a cleanup pays the debt of its parent or records it.
LEMMA SettleCleanupKeepsCleanups ==
    ASSUME TypeOK, OwnerInv, CleanupInv, NEW t \in Tickets, active = t, worker = "verdict",
           IsCleanup(t), NEW r, NEW n, SettleActive(t, r, n), WorkerReturns,
           \/ r = "value" /\ cleanupDebt' = NoTicket
           \/ r = "error" /\ cleanupDebt' = parent[t],
           UNCHANGED <<closed, terminated>>
    PROVE  CleanupInv'
<1>1. /\ LiveCleanups = {t} /\ t \in Cleanups /\ t # NoTicket /\ ~closed /\ ~registered[t]
      /\ phase[t] = "running"
  BY CleanupFacts, OwnerFacts, NoTicketAssumption
     DEF Cleanups, Busy, OwnerInv, WorkerAgrees, CleanupInv, Families
<1>2. /\ parent[t] \in Tickets /\ child[parent[t]] = t /\ cleanupDebt \in {NoTicket, parent[t]}
  BY <1>1, CleanupFacts DEF CleanupInv, OneLiveCleanup
<1>3. /\ active' = NoTicket /\ result' = [result EXCEPT ![t] = r] /\ worker' = "idle"
      /\ phase' = [phase EXCEPT ![t] = "settled"]
      /\ UNCHANGED <<kind, parent, ticketRoute, child, queue, registered>>
  BY <1>1 DEF SettleActive, WorkerReturns
<1>4. Cleanups' = Cleanups /\ LiveCleanups' = {}
  BY <1>1, <1>3 DEF Cleanups, IsCleanup, LiveCleanups, TypeOK
<1>5. Families'
  BY <1>1, <1>3 DEF TypeOK, CleanupInv, Families, IsCleanup
<1>6. OneLiveCleanup'
  BY <1>3, <1>4 DEF CleanupInv, OneLiveCleanup
<1>7. MailboxRules' /\ NothingOvertakesCleanup'
  BY <1>1, <1>3 DEF MailboxRules, NothingOvertakesCleanup
<1>8. CleanupNotLost'
  <2> SUFFICES ASSUME NEW p \in Tickets, OwesCleanup(p)'
               PROVE  /\ child[p] # NoTicket
                      /\ \/ result'[child[p]] = "value"
                         \/ cleanupDebt' = p
                         \/ terminated
    BY <1>1, <1>3 DEF CleanupNotLost
  <2>1. p # t /\ OwesCleanup(p)
    BY <1>1, <1>3 DEF OwesCleanup, TypeOK
  <2>2. child[p] # NoTicket /\ child[p] \in Cleanups /\ child[p] \in Tickets /\ parent[child[p]] = p
    BY <2>1, CleanupFacts DEF CleanupInv, CleanupNotLost, Families
  <2>3. CASE child[p] = t
    BY <1>1, <1>3, <2>2, <2>3 DEF TypeOK
  <2>4. CASE child[p] # t
    <3>1. child[p] \notin LiveCleanups
      BY <1>1, <2>4
    <3>2. phase[child[p]] = "settled"
      BY <2>2, <3>1 DEF LiveCleanups
    <3>3. cleanupDebt # p
      BY <1>2, <2>4, NoTicketAssumption
    <3>4. result[child[p]] = "value" \/ terminated
      BY <2>1, <3>2, <3>3 DEF CleanupInv, CleanupNotLost, Owning
    <3> QED BY <1>3, <2>2, <2>4, <3>4 DEF TypeOK
  <2> QED BY <2>3, <2>4
<1> QED
  BY <1>5, <1>6, <1>7, <1>8 DEF CleanupInv

\* The worker takes a head that is the cleanup itself or has none before it.
LEMMA TakeHeadKeepsCleanups == ASSUME TypeOK, OwnerInv, CleanupInv, TakeHead PROVE CleanupInv'
<1> DEFINE t == Head(queue)
<1>1. /\ queue # <<>> /\ t \in Queued /\ t \in Tickets /\ phase[t] = "queued" /\ t # NoTicket
      /\ active = NoTicket /\ ~closed
  BY TailDistinct, OwnerFacts, NoTicketAssumption DEF TypeOK, TakeHead, HeadRunnable, Queued
<1>2. ToSet(Tail(queue)) \cap Cleanups = {} /\ queue' = Tail(queue)
  BY <1>1, TailHeadOnly DEF TypeOK, CleanupInv, OneLiveCleanup, TakeHead
<1>3. HeadOnly(queue', Cleanups)
  BY <1>2 DEF HeadOnly, ToSet
<1>4. CASE HeadStale
  <2>1. SettleAll({t}, "stale") /\ ticketRoute[t] # route
    BY <1>4 DEF TakeHead, HeadStale
  <2>2. t \notin Cleanups
    BY <1>1, <2>1, CleanupFacts DEF CleanupInv, OneLiveCleanup
  <2>3. UNCHANGED <<kind, parent, child, registered, cleanupDebt, route, active, closed,
                    terminated, worker, verdict, ticketRoute>>
    BY <1>4 DEF TakeHead
  <2> HIDE DEF t
  <2> QED BY <1>1, <1>3, <2>1, <2>2, <2>3, WithdrawKeepsCleanups
<1>5. CASE ~HeadStale
  <2>1. /\ active' = t /\ phase' = [phase EXCEPT ![t] = "running"] /\ worker' = "plan"
        /\ (cleanupDebt = NoTicket \/ parent[t] = cleanupDebt)
        /\ UNCHANGED <<kind, parent, child, registered, cleanupDebt, route, closed,
                       terminated, ticketRoute, result>>
    BY <1>5 DEF TakeHead, HeadRunnable
  <2> HIDE DEF t
  <2>2. \A u \in Tickets : phase'[u] = IF u = t THEN "running" ELSE phase[u]
    BY <2>1 DEF TypeOK
  <2>3. Cleanups' = Cleanups /\ LiveCleanups' = LiveCleanups
    BY <1>1, <2>1, <2>2 DEF Cleanups, IsCleanup, LiveCleanups
  <2>4. Families' /\ MailboxRules'
    BY <1>1, <2>1, <2>2 DEF CleanupInv, Families, MailboxRules, IsCleanup
  <2>5. OneLiveCleanup'
    BY <1>3, <2>1, <2>2, <2>3 DEF CleanupInv, OneLiveCleanup, LiveCleanups, Cleanups
  <2>6. NothingOvertakesCleanup'
    <3> SUFFICES ASSUME ~IsCleanup(t)
                 PROVE  cleanupDebt = NoTicket /\ LiveCleanups = {}
      BY <2>1, <2>3 DEF NothingOvertakesCleanup, IsCleanup, LiveCleanups, Cleanups
    <3>1. cleanupDebt = NoTicket
      BY <2>1 DEF IsCleanup
    <3>2. \A d \in LiveCleanups : d \in Queued /\ d \in Cleanups /\ d # t
      BY <1>1, CleanupFacts, NoTicketAssumption DEF Cleanups
    <3>3. Queued \ {t} = ToSet(Tail(queue))
      BY <1>1, TailDistinct, OwnerFacts DEF TypeOK, Queued, t
    <3> QED BY <1>2, <3>1, <3>2, <3>3
  <2>7. CleanupNotLost'
    BY <1>1, <2>1, <2>2, CleanupFacts DEF CleanupInv, CleanupNotLost, OwesCleanup, Cleanups, Owning
  <2> QED BY <2>4, <2>5, <2>6, <2>7 DEF CleanupInv
<1> QED
  BY <1>4, <1>5

\* The confirmed end of the target ends what is queued and what is owed.
LEMMA TeardownConfirmsKeepsCleanups ==
    ASSUME TypeOK, OwnerInv, CleanupInv, TeardownConfirms PROVE CleanupInv'
<1>1. /\ teardown \in Tickets /\ worker' = "idle" /\ active' = NoTicket /\ queue' = <<>> /\ terminated'
      /\ phase' = [t \in Tickets |-> IF t \in Queued \cup {teardown} THEN "settled" ELSE phase[t]]
      /\ result' = [t \in Tickets |-> IF t = teardown THEN "terminated"
                                      ELSE IF t \in Queued THEN "cancelled" ELSE result[t]]
      /\ UNCHANGED <<kind, parent, child, registered, cleanupDebt, route, ticketRoute>>
  BY OwnerFacts DEF TeardownConfirms
<1>2. Cleanups' = Cleanups /\ LiveCleanups' \subseteq LiveCleanups
  BY <1>1 DEF Cleanups, IsCleanup, LiveCleanups
<1>3. Families' /\ MailboxRules' /\ NothingOvertakesCleanup'
  BY <1>1 DEF CleanupInv, Families, MailboxRules, NothingOvertakesCleanup, IsCleanup
<1>4. OneLiveCleanup'
  <2>1. \A c \in LiveCleanups' : phase'[c] = phase[c]
    BY <1>1 DEF LiveCleanups, Cleanups
  <2> QED BY <1>1, <1>2, <2>1 DEF CleanupInv, OneLiveCleanup, HeadOnly
<1>5. CleanupNotLost'
  BY <1>1 DEF CleanupInv, CleanupNotLost, OwesCleanup
<1> QED
  BY <1>3, <1>4, <1>5 DEF CleanupInv

\* close() gives the ownership up only when no cleanup is owed or waiting.
LEMMA CloseLoopKeepsCleanups == ASSUME TypeOK, OwnerInv, CleanupInv, CloseLoop PROVE CleanupInv'
<1>1. /\ UNCHANGED <<kind, parent, child, registered, cleanupDebt, route, active, terminated,
                     worker, verdict, ticketRoute>>
  BY DEF CloseLoop
<1>2. CASE UNCHANGED <<closed, queue, phase, result>>
  BY <1>1, <1>2, CleanupFrame
<1>3. CASE CloseWaitsForQueued
  <2>1. PICK i \in DOMAIN queue :
          /\ \A j \in 1..(i - 1) : ~IsCleanup(queue[j])
          /\ SettleAll({queue[j] : j \in 1..(i - 1)}, "cancelled")
          /\ queue' = SubSeq(queue, i, Len(queue))
    BY <1>3, Zenon DEF CloseWaitsForQueued
  <2> DEFINE D == {queue[j] : j \in 1..(i - 1)}
  <2>2. UNCHANGED closed /\ ~closed
    BY <1>3 DEF CloseWaitsForQueued
  <2>3. D \subseteq Queued /\ D \cap Cleanups = {}
    <3>1. \A j \in 1..(i - 1) : j \in DOMAIN queue
      BY LenProperties DEF TypeOK
    <3> QED BY <2>1, <3>1 DEF Queued, ToSet, Cleanups
  <2>4. HeadOnly(queue', Cleanups)
    BY <2>1, SuffixHeadOnly DEF TypeOK, CleanupInv, OneLiveCleanup
  <2>5. SettleAll(D, "cancelled")
    BY <2>1
  <2> HIDE DEF D
  <2> QED BY <1>1, <2>2, <2>3, <2>4, <2>5, WithdrawKeepsCleanups, OwnerFacts
<1>4. CASE CloseCompletes
  <2>1. CASE closed
    <3>1. queue = <<>> /\ Queued = {} /\ closed' /\ queue' = <<>>
      BY <1>4, <2>1 DEF CloseCompletes, CleanupInv, MailboxRules, Queued, ToSet
    <3>2. SettleAll({}, "cancelled") /\ HeadOnly(queue', Cleanups)
      BY <1>4, <3>1 DEF CloseCompletes, HeadOnly
    <3>3. UNCHANGED closed
      BY <2>1, <3>1 DEF TypeOK
    <3> QED BY <1>1, <2>1, <3>1, <3>2, <3>3, WithdrawKeepsCleanups
  <2>2. CASE ~closed
    <3>1. /\ active = NoTicket /\ cleanupDebt = NoTicket /\ closed' /\ queue' = <<>>
          /\ SettleAll(Queued, "cancelled") /\ Queued \cap Cleanups = {}
      BY <1>4, <2>2 DEF CloseCompletes, Cleanups
    <3>2. LiveCleanups = {}
      BY <3>1, CleanupFacts, NoTicketAssumption DEF LiveCleanups, Cleanups
    <3>3. \A p \in Tickets : OwesCleanup(p) => child[p] # NoTicket /\ (result[child[p]] = "value" \/ terminated)
      BY <3>1, <3>2, CleanupFacts, NoTicketAssumption
         DEF CleanupInv, CleanupNotLost, LiveCleanups, Owning
    <3>4. Cleanups' = Cleanups /\ LiveCleanups' = {}
      BY <1>1, <3>1, <3>2 DEF Cleanups, IsCleanup, LiveCleanups, SettleAll
    <3>5. \A t \in Tickets : /\ t \in Queued => phase[t] = "queued" /\ phase'[t] = "settled" /\ ~registered[t]
                             /\ t \notin Queued => phase'[t] = phase[t] /\ result'[t] = result[t]
      BY <3>1, OwnerFacts DEF SettleAll, CleanupInv, Families
    <3>6. Families' /\ MailboxRules' /\ NothingOvertakesCleanup'
      BY <1>1, <3>1, <3>5 DEF CleanupInv, Families, MailboxRules, NothingOvertakesCleanup, IsCleanup
    <3>7. OneLiveCleanup'
      BY <3>1, <3>4 DEF OneLiveCleanup, HeadOnly
    <3>8. CleanupNotLost'
      BY <1>1, <3>1, <3>3, <3>5, CleanupFacts DEF CleanupNotLost, OwesCleanup, Cleanups
    <3> QED BY <3>6, <3>7, <3>8 DEF CleanupInv
  <2> QED BY <2>1, <2>2
<1> QED
  BY <1>2, <1>3, <1>4 DEF CloseLoop, CloseRefused, CloseWaitsForActive

\* What the callers do keeps the cleanups.
LEMMA CallerNextKeepsCleanups ==
    ASSUME TypeOK, OwnerInv, CleanupInv, CallerNext PROVE CleanupInv'
<1>1. ASSUME NEW t \in Tickets, Submit(t) PROVE CleanupInv'
  <2>1. /\ t \in Fresh /\ ~closed /\ ticketRoute' = [ticketRoute EXCEPT ![t] = route]
        /\ UNCHANGED <<kind, parent, child, registered, cleanupDebt, route, active, closed,
                       terminated, worker, verdict>>
    BY <1>1 DEF Submit, SpareTicket
  <2>2. t \in Tickets /\ t \notin Cleanups
    BY <2>1, CleanupFacts DEF Cleanups
  <2>3. CASE /\ queue' = Append(queue, t) /\ phase' = [phase EXCEPT ![t] = "queued"] /\ UNCHANGED result
    <3>1. HeadOnly(queue', Cleanups)
      BY <2>2, <2>3, AppendHeadOnly DEF TypeOK, CleanupInv, OneLiveCleanup
    <3> QED BY <2>1, <2>3, <3>1, AdmitKeepsCleanups
  <2>4. CASE SettleAll({t}, "cancelled") /\ UNCHANGED queue
    <3>1. HeadOnly(queue', Cleanups)
      BY <2>4 DEF CleanupInv, OneLiveCleanup
    <3>2. \A c \in Cleanups : ticketRoute'[c] = ticketRoute[c]
      BY <2>1, <2>2 DEF TypeOK
    <3> QED BY <2>1, <2>2, <2>4, <3>1, <3>2, WithdrawKeepsCleanups
  <2> QED BY <1>1, <2>3, <2>4, Zenon DEF Submit
<1>2. ASSUME NEW t \in Tickets, Dispatch(t) PROVE CleanupInv'
  BY <1>2, CleanupFrame DEF Dispatch
<1>3. ASSUME NEW t \in Tickets, TryHeartbeat(t) PROVE CleanupInv'
  <2>1. t \in Fresh /\ t \notin Cleanups /\ queue' = <<t>>
    BY <1>3, CleanupFacts DEF TryHeartbeat, SpareTicket, Cleanups
  <2>2. HeadOnly(queue', Cleanups)
    BY <2>1 DEF HeadOnly
  <2> QED BY <1>3, <2>1, <2>2, AdmitKeepsCleanups DEF TryHeartbeat
<1>4. ASSUME NEW t \in Tickets, RequestStop(t) PROVE CleanupInv'
  <2>1. /\ active = t /\ t # NoTicket
        /\ UNCHANGED <<kind, parent, child, registered, cleanupDebt, route, active, closed,
                       terminated, worker, verdict, ticketRoute>>
    BY <1>4, NoTicketAssumption DEF RequestStop
  <2>2. CASE UNCHANGED <<queue, phase, result>>
    BY <2>1, <2>2, CleanupFrame
  <2>3. CASE queue' = <<>> /\ SettleAll(Queued, "cancelled")
    <3>1. Queued \cap Cleanups = {} /\ Queued \subseteq Tickets
      <4>1. t \notin Queued
        BY <2>1, OwnerFacts DEF OwnerInv, SingleOwner, Owning
      <4>2. LiveCleanups \subseteq {t}
        BY <2>1, CleanupFacts
      <4> QED BY <4>1, <4>2, CleanupFacts, OwnerFacts
    <3>2. HeadOnly(queue', Cleanups) /\ ~closed
      BY <2>1, <2>3 DEF HeadOnly, OwnerInv, MailboxAgrees
    <3> QED BY <2>1, <2>3, <3>1, <3>2, WithdrawKeepsCleanups
  <2> QED BY <1>4, <2>2, <2>3, Zenon DEF RequestStop
<1>5. ASSUME NEW t \in Tickets, Reconcile(t) PROVE CleanupInv'
  <2>1. \A u \in Tickets : phase'[u] = phase[u] \/ (phase[u] \in Owning /\ phase'[u] \in Owning)
    BY <1>5 DEF TypeOK, Reconcile, Owning
  <2> QED BY <1>5, <2>1, CleanupFrame DEF Reconcile
<1>6. ASSUME NEW i \in DOMAIN queue, CancelQueued(i) PROVE CleanupInv'
  <2> DEFINE t == queue[i]
  <2>1. /\ t \in Tickets /\ t \in Queued /\ kind[t] \in {"user", "retry"}
        /\ SettleAll({t}, "cancelled") /\ queue' = RemoveAt(queue, i)
        /\ UNCHANGED <<kind, parent, child, registered, cleanupDebt, route, active, closed,
                       terminated, worker, verdict, ticketRoute>>
    BY <1>6, LenProperties, ElementOfSeq DEF TypeOK, CancelQueued, Queued, ToSet
  <2>2. HeadOnly(queue', Cleanups)
    BY <2>1, RemoveAtHeadOnly DEF TypeOK, CleanupInv, OneLiveCleanup
  <2> HIDE DEF t
  <2>3. t \in Cleanups => cleanupDebt = parent[t]
    <3>1. t \in Cleanups => t \in LiveCleanups /\ kind[t] = "retry"
      BY <2>1, CleanupFacts DEF Cleanups, CleanupInv, Families
    <3> QED BY <3>1 DEF CleanupInv, OneLiveCleanup
  <2>4. ~closed
    BY <2>1 DEF CleanupInv, MailboxRules, Queued, ToSet
  <2> QED BY <2>1, <2>2, <2>3, <2>4, WithdrawKeepsCleanups
<1>7. ASSUME NEW p \in Tickets, NEW c \in Tickets, RetryCleanup(p, c) PROVE CleanupInv'
  BY <1>7, RetryCleanupKeepsCleanups
<1>8. ASSUME CloseLoop PROVE CleanupInv'
  BY <1>8, CloseLoopKeepsCleanups
<1>9. ASSUME CloseJoins PROVE CleanupInv'
  BY <1>9, CleanupFrame DEF CloseJoins
<1> QED
  BY <1>1, <1>2, <1>3, <1>4, <1>5, <1>6, <1>7, <1>8, <1>9, Zenon DEF CallerNext, Close, CloseWakes

\* What a plan does keeps the cleanups: only a user plan registers one or moves the route.
LEMMA PlanKeepsCleanups ==
    ASSUME TypeOK, OwnerInv, CleanupInv, PlanNext \/ CallEnds \/ PlanEnds PROVE CleanupInv'
<1>1. ASSUME NEW t \in Tickets, RegisterCleanup(t) PROVE CleanupInv'
  <2>1. /\ phase[t] = "running" /\ kind[t] = "user"
        /\ registered' = [registered EXCEPT ![t] = TRUE]
        /\ UNCHANGED <<kind, parent, child, phase, result, ticketRoute, queue, cleanupDebt,
                       route, active, closed, terminated, worker, verdict>>
    BY <1>1, NoTicketAssumption DEF RegisterCleanup, InPlan, PlanFrame, OwnerInv, WorkerAgrees, Busy
  <2>2. \A u \in Tickets : u # t => registered'[u] = registered[u]
    BY <2>1 DEF TypeOK
  <2>3. Families'
    BY <2>1, <2>2 DEF CleanupInv, Families, IsCleanup
  <2>4. OneLiveCleanup' /\ MailboxRules' /\ NothingOvertakesCleanup'
    BY <2>1 DEF CleanupInv, OneLiveCleanup, LiveCleanups, Cleanups, IsCleanup, MailboxRules,
                NothingOvertakesCleanup
  <2>5. CleanupNotLost'
    BY <2>1, <2>2 DEF CleanupInv, CleanupNotLost, OwesCleanup
  <2> QED BY <2>3, <2>4, <2>5 DEF CleanupInv
<1>2. ASSUME NEW t \in Tickets, HandoffRoute(t) PROVE CleanupInv'
  <2>1. /\ active = t /\ t # NoTicket /\ kind[t] = "user"
        /\ UNCHANGED <<kind, parent, child, registered, phase, result, ticketRoute, queue,
                       cleanupDebt, active, closed, terminated, worker, verdict>>
    BY <1>2, NoTicketAssumption DEF HandoffRoute, InPlan, PlanFrame
  <2>2. LiveCleanups = {} /\ LiveCleanups' = {}
    BY <2>1, CleanupFacts DEF CleanupInv, Families, LiveCleanups, Cleanups, IsCleanup
  <2>3. OneLiveCleanup'
    BY <2>1, <2>2 DEF CleanupInv, OneLiveCleanup, Cleanups, IsCleanup
  <2>4. Families' /\ MailboxRules' /\ NothingOvertakesCleanup' /\ CleanupNotLost'
    BY <2>1 DEF CleanupInv, Families, IsCleanup, MailboxRules, NothingOvertakesCleanup,
                CleanupNotLost, OwesCleanup
  <2> QED BY <2>3, <2>4 DEF CleanupInv
<1>3. ASSUME UNCHANGED <<kind, parent, child, registered, phase, result, ticketRoute, queue,
                         cleanupDebt, route, active, closed, terminated>>,
             (worker' = "verdict" /\ verdict' = "failure") => kind[active] = "user"
      PROVE  CleanupInv'
  BY <1>3, CleanupFrame
<1>4. ASSUME NEW t \in Tickets, NEW k \in Ops, EnterCommand(t, k) \/ BeginWait(t, k) PROVE CleanupInv'
  BY <1>3, <1>4 DEF EnterCommand, BeginWait, PlanFrame
<1>5. ASSUME NEW t \in Tickets, RefuseCommand(t) \/ EnterResume(t) \/ Poll(t) PROVE CleanupInv'
  BY <1>3, <1>5 DEF RefuseCommand, EnterResume, Poll, EntryRefused, PlanFrame
<1>6. ASSUME CallEnds PROVE CleanupInv'
  <2>1. /\ UNCHANGED <<kind, parent, child, registered, phase, result, ticketRoute, queue,
                       cleanupDebt, route, active, closed, terminated>>
        /\ worker' # "verdict"
    BY <1>6 DEF CallEnds, RejectDispatch, Send, RequestAnswered, ReadTimesOut, EvaluationStarted,
       ContinueSent, EvaluationResumed, EvaluationResult, EvaluationStopped, TargetStopped,
       IntervalElapses, TransportFails, PollRefused, EntryRefused, Answered, PlanFrame
  <2> QED BY <1>3, <2>1
<1>7. ASSUME NEW t \in Tickets, ReturnRefused(t) \/ PlanRaises(t) PROVE CleanupInv'
  <2>1. verdict' # "failure"
    BY <1>7 DEF ReturnRefused, PlanRaises
  <2> QED BY <1>3, <1>7, <2>1 DEF ReturnRefused, PlanRaises
<1>8. ASSUME NEW t \in Tickets, ReturnAccepted(t) PROVE CleanupInv'
  <2>1. verdict' = "failure" => kind[active] = "user"
    BY <1>8, Zenon DEF ReturnAccepted, PlanEnding
  <2> QED BY <1>3, <1>8, <2>1 DEF ReturnAccepted
<1> QED
  BY <1>1, <1>2, <1>4, <1>5, <1>6, <1>7, <1>8, Zenon DEF PlanNext, PlanEnds

\* What the worker does under the mailbox keeps the cleanups.
LEMMA MailboxNextKeepsCleanups ==
    ASSUME TypeOK, OwnerInv, CleanupInv, MailboxNext PROVE CleanupInv'
<1>1. ASSUME TakeReconciliation PROVE CleanupInv'
  <2>1. phase[active] = "reconciling" /\ active \in Tickets
    BY <1>1, OwnerFacts DEF TakeReconciliation, OwnerInv, MailboxAgrees
  <2>2. \A u \in Tickets : phase'[u] = phase[u] \/ (phase[u] \in Owning /\ phase'[u] \in Owning)
    BY <1>1, <2>1 DEF TypeOK, TakeReconciliation, Owning
  <2> QED BY <1>1, <2>2, CleanupFrame DEF TakeReconciliation
<1>2. ASSUME TakeHead PROVE CleanupInv'
  BY <1>2, TakeHeadKeepsCleanups
<1>3. ASSUME WorkerExits PROVE CleanupInv'
  BY <1>3, CleanupFrame DEF WorkerExits
<1>4. ASSUME NEW t \in Tickets, FinalizerEnds(t) PROVE CleanupInv'
  <2>1. verdict' # "failure"
    BY <1>4 DEF FinalizerEnds
  <2> QED BY <1>4, <2>1, CleanupFrame DEF FinalizerEnds
<1>5. ASSUME NEW t \in Tickets, Settle(t) PROVE CleanupInv'
  <2>1. PICK n \in 0..MaxRoute : SettleActive(t, verdict, n)
    BY <1>5, Zenon DEF TypeOK, Settle
  <2>2. /\ active = t /\ t # NoTicket /\ worker = "verdict" /\ verdict \in {"value", "failure"}
        /\ WorkerReturns /\ UNCHANGED <<closed, terminated>>
        /\ cleanupDebt' = IF parent[t] = cleanupDebt THEN NoTicket ELSE cleanupDebt
    BY <1>5, NoTicketAssumption DEF Settle
  <2>3. CASE IsCleanup(t)
    <3>1. cleanupDebt \in {NoTicket, parent[t]}
      BY <2>2, <2>3, CleanupFacts DEF CleanupInv, OneLiveCleanup
    <3>2. verdict = "value"
      BY <2>2, <2>3 DEF CleanupInv, MailboxRules, Families
    <3> QED BY <2>1, <2>2, <2>3, <3>1, <3>2, SettleCleanupKeepsCleanups
  <2>4. CASE ~IsCleanup(t)
    <3>1. cleanupDebt = NoTicket
      BY <2>2, <2>4, CleanupFacts
    <3> QED BY <2>1, <2>2, <2>4, <3>1, SettleUserKeepsCleanups
  <2> QED BY <2>3, <2>4
<1>6. ASSUME NEW t \in Tickets, Fail(t) PROVE CleanupInv'
  <2>1. /\ active = t /\ t # NoTicket /\ worker = "verdict" /\ SettleActive(t, "error", route)
        /\ WorkerReturns /\ UNCHANGED <<closed, terminated>> /\ cleanupDebt' = DebtAfterFailure(t)
    BY <1>6, NoTicketAssumption DEF Fail
  <2>2. CASE IsCleanup(t)
    BY <2>1, <2>2, SettleCleanupKeepsCleanups DEF DebtAfterFailure
  <2>3. CASE ~IsCleanup(t)
    <3>1. cleanupDebt' = NoTicket /\ route \in 0..MaxRoute
      BY <2>1, <2>3, CleanupFacts DEF DebtAfterFailure, TypeOK
    <3> QED BY <2>1, <2>3, <3>1, SettleUserKeepsCleanups
  <2> QED BY <2>2, <2>3
<1>7. ASSUME NEW t \in Tickets, BecomeUnknown(t) PROVE CleanupInv'
  <2>1. phase[t] \in Owning
    BY <1>7 DEF BecomeUnknown, OwnerInv, SingleOwner
  <2>2. \A u \in Tickets : phase'[u] = phase[u] \/ (phase[u] \in Owning /\ phase'[u] \in Owning)
    BY <1>7, <2>1 DEF TypeOK, BecomeUnknown, Owning
  <2> QED BY <1>7, <2>2, CleanupFrame DEF BecomeUnknown, WorkerReturns
<1>8. ASSUME TeardownBegins \/ TeardownUnproven PROVE CleanupInv'
  BY <1>8, CleanupFrame DEF TeardownBegins, TeardownUnproven
<1>9. ASSUME TeardownConfirms PROVE CleanupInv'
  BY <1>9, TeardownConfirmsKeepsCleanups
<1> QED
  BY <1>1, <1>2, <1>3, <1>4, <1>5, <1>6, <1>7, <1>8, <1>9, Zenon DEF MailboxNext

\* Every step keeps the cleanups.
LEMMA NextKeepsCleanups == ASSUME TypeOK, OwnerInv, CleanupInv, [Next]_vars PROVE CleanupInv'
<1>1. CASE UNCHANGED vars
  BY <1>1, CleanupFrame DEF vars
<1>2. CASE TargetExits
  BY <1>2, CleanupFrame DEF TargetExits
<1>3. CASE Next
  BY <1>2, <1>3, CallerNextKeepsCleanups, PlanKeepsCleanups, MailboxNextKeepsCleanups, Zenon DEF Next
<1> QED
  BY <1>1, <1>3

\* CleanupKept alone is not inductive: that no second cleanup, no stale route and no cancelled
\* first try can spoil the cleanup that is owed follows from the families of the tickets and
\* from the place of the cleanup at the head of the queue.
LEMMA CleanupInvariant == Spec => []CleanupInv
<1>1. Init => CleanupInv
  <2>1. Init => Cleanups = {} /\ LiveCleanups = {}
    BY DEF Init, Cleanups, LiveCleanups, IsCleanup
  <2> QED
    BY <2>1 DEF Init, CleanupInv, Families, OneLiveCleanup, MailboxRules, NothingOvertakesCleanup,
                CleanupNotLost, OwesCleanup, IsCleanup, HeadOnly
<1>2. TypeOK /\ OwnerInv /\ CleanupInv /\ [Next]_vars => CleanupInv'
  BY NextKeepsCleanups
<1> QED
  BY <1>1, <1>2, TypeCorrect, OwnerInvariant, PTL DEF Spec

\* A registered cleanup runs before any other work, not even a heartbeat overtakes it, and no
\* route change, Stop, retry, failure or close() loses it short of the end of the target.
THEOREM CleanupsKept == Spec => []CleanupKept
<1>1. CleanupInv => CleanupKept
  BY DEF CleanupInv, CleanupKept
<1> QED
  BY <1>1, CleanupInvariant, PTL

=============================================================================
