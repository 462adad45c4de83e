------------------------- MODULE OperationRegistry -------------------------
(* The operation registry of the MCP agent: every operation and each of    *)
(* its transitions is appended to a journal before it is shown, one lane   *)
(* executes the operations in the order of their submission, and a new     *)
(* process rebuilds the registry from the journal. This module holds the   *)
(* registry's state and what each of its methods makes of it; AgentRuntime *)
(* composes them with the service that owns the 1C runtime.                *)
(*                                                                         *)
(* Abstracted: an append is flushed whole or refused whole (no half line), *)
(* so the cursor of a record is its place in the journal. A request equal  *)
(* to a live one joins it, so the runs here are different requests.        *)
(* Messages, view facts and diagnostics are left out; "completed" stands   *)
(* for "captured" too.                                                     *)
EXTENDS Integers, Sequences, FiniteSets

CONSTANTS
    Startups,    \* identities of operations that start a runtime
    Runs,        \* identities of operations that run code in one
    NoOp,
    MaxRefusals  \* bound: appends that the file system refuses

ASSUME OpAssumption == Startups \cap Runs = {} /\ NoOp \notin Startups \cup Runs
ASSUME MaxRefusalsAssumption == MaxRefusals \in Nat

Ops == Startups \cup Runs
Live == {"queued", "running"}
Terminal == {"completed", "failed", "unknown"}

VARIABLES
    journal,   \* operations.jsonl: [op, event]
    reg,       \* _operations: the state of each operation in memory
    order,     \* its insertion order
    queue,     \* the executor's work queue
    lane,      \* the operation in the execution lane and how far it is
    told,      \* history: the terminal states shown for each operation
    refused    \* history: operations one of whose appends was refused

registryVars == <<journal, reg, order, queue, lane, told, refused>>

IdleLane == [op |-> NoOp, step |-> "idle", backend |-> 0, outcome |-> "none"]

RegistryInit ==
    /\ journal = <<>>
    /\ reg = [o \in Ops |-> "none"]
    /\ order = <<>>
    /\ queue = <<>>
    /\ lane = IdleLane
    /\ told = [o \in Ops |-> {}]
    /\ refused = {}

-----------------------------------------------------------------------------
(* The journal.                                                            *)

Record(o, event) == [op |-> o, event |-> event]

\* What one record makes of the state of its operation.
FoldEvent(state, event) ==
    CASE event = "submitted" -> "queued"
      [] event = "started" /\ state = "queued" -> "running"
      [] event \in Terminal /\ state # "none" -> event
      [] OTHER -> state

\* What the records make of it one after the other.
Replay(records, o) ==
    LET after[n \in 0 .. Len(records)] ==
            IF n = 0 THEN "none"
            ELSE IF records[n].op = o THEN FoldEvent(after[n - 1], records[n].event)
            ELSE after[n - 1]
    IN after[Len(records)]

OnDisk(o) == Replay(journal, o)

Journalled(o, event) == \E i \in DOMAIN journal : journal[i] = Record(o, event)

\* The elements of s that are in S, in their order.
Among(s, S) ==
    LET among[n \in 0 .. Len(s)] ==
            IF n = 0 THEN <<>>
            ELSE IF s[n] \in S THEN Append(among[n - 1], s[n]) ELSE among[n - 1]
    IN among[Len(s)]

OrderOnDisk ==
    LET submitted == Among(journal, {Record(o, "submitted") : o \in Ops})
    IN [i \in DOMAIN submitted |-> submitted[i].op]

EventOf(state) == IF state = "running" THEN "started" ELSE state

\* The append of a record of o raises; nothing of it is in the file.
Refused(o) ==
    /\ Cardinality(refused) < MaxRefusals
    /\ refused' = refused \cup {o}

MutantTransition(o, state) ==
    /\ \/ journal' = Append(journal, Record(o, EventOf(state))) /\ UNCHANGED refused
       \/ Refused(o) /\ UNCHANGED journal
    /\ reg' = [reg EXCEPT ![o] = state]
    /\ told' = [told EXCEPT ![o] = @ \cup ({state} \cap Terminal)]

\* The record first, then the state that waiters are told.
Transition(o, state) ==
    /\ journal' = Append(journal, Record(o, EventOf(state)))
    /\ reg' = [reg EXCEPT ![o] = state]
    /\ told' = [told EXCEPT ![o] = @ \cup ({state} \cap Terminal)]
    /\ UNCHANGED refused

\* A transition whose append is refused is not made.
TransitionRefused(o) ==
    /\ Refused(o)
    /\ UNCHANGED <<journal, reg, told>>

-----------------------------------------------------------------------------
(* Submission and the lane.                                                *)

Fresh(o) == reg[o] = "none" /\ OnDisk(o) = "none" /\ o \notin refused

Submitted(o) ==
    /\ Fresh(o)
    /\ journal' = Append(journal, Record(o, "submitted"))
    /\ reg' = [reg EXCEPT ![o] = "queued"]
    /\ order' = Append(order, o)
    /\ queue' = Append(queue, o)
    /\ UNCHANGED <<lane, told, refused>>

\* The registry has the operation already when its record is refused: it stays
\* there as queued, and no executor has it.
SubmissionRefused(o) ==
    /\ Fresh(o)
    /\ Refused(o)
    /\ reg' = [reg EXCEPT ![o] = "queued"]
    /\ order' = Append(order, o)
    /\ UNCHANGED <<journal, queue, lane, told>>

\* The executor takes no work. The operation is recorded as failed, or stays
\* queued without an executor if that record is refused, and then the call raises.
ExecutorRefuses(o) ==
    /\ Fresh(o)
    /\ order' = Append(order, o)
    /\ UNCHANGED <<queue, lane>>
    /\ \/ /\ journal' = journal \o <<Record(o, "submitted"), Record(o, "failed")>>
          /\ reg' = [reg EXCEPT ![o] = "failed"]
          /\ told' = [told EXCEPT ![o] = @ \cup {"failed"}]
          /\ UNCHANGED refused
       \/ /\ journal' = Append(journal, Record(o, "submitted"))
          /\ reg' = [reg EXCEPT ![o] = "queued"]
          /\ Refused(o)
          /\ UNCHANGED told

TakeJob ==
    /\ lane.op = NoOp /\ queue # <<>>
    /\ queue' = Tail(queue)
    /\ LET o == Head(queue)
       IN IF reg[o] = "queued"
          THEN \/ /\ Transition(o, "running")
                  /\ lane' = [IdleLane EXCEPT !.op = o, !.step = "execute"]
               \/ /\ TransitionRefused(o)
                  /\ UNCHANGED lane
          ELSE UNCHANGED <<journal, reg, told, refused, lane>>
    /\ UNCHANGED order

MutantSettle ==
    /\ lane.step = "settle"
    /\ \/ Transition(lane.op, lane.outcome)
       \/ TransitionRefused(lane.op)
    /\ lane' = IdleLane
    /\ UNCHANGED <<order, queue>>

\* An outcome that comes after the operation was declared unknown is dropped.
Settle ==
    /\ lane.step = "settle"
    /\ IF reg[lane.op] \in Terminal
       THEN UNCHANGED <<journal, reg, told, refused>>
       ELSE Transition(lane.op, lane.outcome) \/ TransitionRefused(lane.op)
    /\ lane' = IdleLane
    /\ UNCHANGED <<order, queue>>

MutantRecordProvenance ==
    /\ lane.step = "execute" /\ lane.op \in Runs
    /\ \/ journal' = Append(journal, Record(lane.op, "provenance")) /\ UNCHANGED refused
       \/ Refused(lane.op) /\ UNCHANGED journal
    /\ lane' = [lane EXCEPT !.step = "recorded"]
    /\ UNCHANGED <<reg, order, queue, told>>

\* The identity of an execution is journalled before it is dispatched. An
\* operation that was declared unknown meanwhile has none, and is not dispatched:
\* a run of code fails, a run of a capture is unknown.
RecordProvenance ==
    /\ lane.step = "execute" /\ lane.op \in Runs
    /\ \/ /\ reg[lane.op] = "running"
          /\ journal' = Append(journal, Record(lane.op, "provenance"))
          /\ lane' = [lane EXCEPT !.step = "recorded"]
          /\ UNCHANGED refused
       \/ /\ IF reg[lane.op] = "running" THEN Refused(lane.op) ELSE UNCHANGED refused
          /\ \E outcome \in {"failed", "unknown"} :
                lane' = [lane EXCEPT !.step = "settle", !.outcome = outcome]
          /\ UNCHANGED journal
    /\ UNCHANGED <<reg, order, queue, told>>

-----------------------------------------------------------------------------
(* The end of a generation, and a new process.                             *)

\* The live ones of these runs, in the order they were submitted.
LiveOf(runs) == Among(order, {o \in runs : reg[o] \in Live})

\* mark_generation_aborted got through the first n of them.
MarkUnknown(live, n) ==
    LET marked == {live[i] : i \in 1 .. n}
    IN /\ journal' = journal \o [i \in 1 .. n |-> Record(live[i], "unknown")]
       /\ reg' = [o \in Ops |-> IF o \in marked THEN "unknown" ELSE reg[o]]
       /\ told' = [o \in Ops |-> IF o \in marked THEN told[o] \cup {"unknown"} ELSE told[o]]

MutantMarkAborted(runs) ==
    LET live == Among(queue, runs)
    IN MarkUnknown(live, Len(live)) /\ UNCHANGED refused

MarkAborted(runs) ==
    LET live == LiveOf(runs)
    IN MarkUnknown(live, Len(live)) /\ UNCHANGED refused

\* The first refused append stops it.
MarkAbortedRefused(runs) ==
    LET live == LiveOf(runs)
    IN \E n \in 0 .. Len(live) - 1 : MarkUnknown(live, n) /\ Refused(live[n + 1])

\* What a crash leaves of the registry.
RegistryLost ==
    /\ reg' = [o \in Ops |-> "none"]
    /\ order' = <<>>
    /\ queue' = <<>>
    /\ lane' = IdleLane
    /\ UNCHANGED <<journal, told, refused>>

Rehydrated ==
    /\ reg' = [o \in Ops |-> OnDisk(o)]
    /\ order' = OrderOnDisk
    /\ UNCHANGED <<journal, queue, lane, told, refused>>

Unsettled == Among(order, {o \in Ops : reg[o] \in Live})

MutantRecoverNext ==
    LET lost == Among(order, {o \in Ops : reg[o] = "running"})
    IN /\ lost # <<>>
       /\ Transition(Head(lost), "unknown")
       /\ UNCHANGED <<order, queue, lane>>

\* What an earlier process left queued or running has an unknown outcome.
RecoverNext ==
    /\ Unsettled # <<>>
    /\ Transition(Head(Unsettled), "unknown")
    /\ UNCHANGED <<order, queue, lane>>

\* recoverable_startup: the last startup that is not settled.
RecoverableStartup ==
    LET open == Among(order, {o \in Startups : reg[o] \in Live \cup {"unknown"}})
    IN IF open = <<>> THEN NoOp ELSE open[Len(open)]

=============================================================================
