-------------------------- MODULE MainRouteProofs --------------------------
(***************************************************************************)
(* Proofs about MainRoute, for every number of commands, stops, tickets    *)
(* and correlation tickets.                                                *)
(***************************************************************************)
EXTENDS MainRoute, QueueLemmas

USE DEF commandVars, publicationVars, arbiterVars, stopVars, kernelVars

-----------------------------------------------------------------------------
(* Types.                                                                  *)

Kinds == {"main", "resume", "debug"}
Outcomes == {"none", "value", "error", "cancelled", "terminated"}
Replies == {"completed", "debug", "unrecognised", "captured"}
Pre == {"prepare", "code", "id", "writeback", "continue"}
WorkerSteps == Pre \cup {"none", "sent", "unsent", "await", "read", "values", "open", "policy",
                         "record"}

OpType == [phase : Phases, attempted : BOOLEAN, pending : 0 .. MaxStops]
TicketType == [kind : Kinds, op : 1 .. MaxCommands, epoch : Nat,
               phase : {"queued", "running", "unknown", "settled"}, outcome : Outcomes,
               ever : BOOLEAN, stop : BOOLEAN, context : Context]
WorkerType == [step : WorkerSteps, yields : Replies \cup {"none"}, record : Record]
StopperType == [step : {"none", "asked", "cancelled"}, ticket : 0 .. MaxTickets,
                context : Context]
ScopeType == [seq : 0 .. MaxStops, op : 0 .. MaxCommands,
              context : {"opening", "ready", "setup_failed", "closing", "closed"},
              frame : {"unverified", "confirmed", "released", "lost"}]
KernelType == [at : Stopped \cup {"running", "gone"}, current : 0 .. MaxCommands,
               code : 0 .. MaxCommands, id : 0 .. MaxCommands, done : 0 .. MaxCommands,
               stop : 0 .. MaxStops]
IntentType == [op : 1 .. MaxCommands + 1, seq : Nat, after : Nat]
ReplyType == [op : 1 .. MaxCommands, kind : Replies, seq : Nat, corr : Nat]

CommandsTyped ==
    /\ ops \in Seq(OpType) /\ Len(ops) <= MaxCommands /\ main \in {0, Len(ops)}
    /\ scope \in ScopeType /\ stops \in 0 .. MaxStops /\ epoch \in Nat
    /\ resume \in 0 .. Len(tickets)

PublicationTyped ==
    /\ intents \in Seq(IntentType) /\ Len(intents) <= MaxIntents /\ planned \in 0 .. Len(intents)
    /\ regs \in [1 .. MaxCommands -> Record]
    /\ \A c \in 1 .. MaxCommands : regs[c].corr <= Len(intents)
    /\ replies \in Seq(ReplyType)

ArbiterTyped ==
    /\ tickets \in Seq(TicketType) /\ Len(tickets) <= MaxTickets
    /\ \A i \in 1 .. Len(tickets) : tickets[i].op <= Len(ops) /\ tickets[i].epoch <= epoch
    /\ queue \in Seq(Nat) /\ active \in 0 .. Len(tickets) /\ worker \in WorkerType

KernelTyped ==
    /\ stopper \in StopperType /\ proof \in BOOLEAN /\ kernel \in KernelType
    /\ ran \subseteq Nat \X Nat

\* A stop of the kernel is counted once.
StopsCounted ==
    /\ stops <= kernel.stop
    /\ worker.step \in {"sent", "await"} /\ kernel.at = "capture" => stops < kernel.stop
    /\ kernel.at \in {"capture", "user", "other"} => kernel.stop > 0

Typed == CommandsTyped /\ PublicationTyped /\ ArbiterTyped /\ KernelTyped /\ StopsCounted

-----------------------------------------------------------------------------
(* The arbiter: one owner, and everything is about the current command.    *)

Runs == active # 0 /\ tickets[active].phase = "running"

\* Exactly the active ticket is running or unknown; the queue holds distinct queued tickets,
\* of the current command; the worker is at a step exactly while the active ticket runs;
\* and a command has one MAIN ticket.
Owned ==
    /\ \A i \in 1 .. Len(tickets) : tickets[i].phase \in {"running", "unknown"} <=> i = active
    /\ Distinct(queue)
    /\ \A k \in DOMAIN queue :
          /\ queue[k] \in 1 .. Len(tickets) /\ tickets[queue[k]].phase = "queued"
          /\ tickets[queue[k]].op = main
    /\ active # 0 => tickets[active].op = main
    /\ worker.step # "none" <=> Runs
    /\ \A i, j \in 1 .. Len(tickets) :
          tickets[i].kind = "main" /\ tickets[j].kind = "main" /\ tickets[i].op = tickets[j].op
             => i = j

\* After the exit of the target the arbiter is empty; and what was stopped before an effect
\* is settled.
Fenced ==
    /\ Closed => active = 0 /\ queue = <<>>
    /\ \A i \in 1 .. Len(tickets) : tickets[i].outcome = "terminated" => Closed
    /\ stopper.step # "none" => stopper.ticket \in 1 .. Len(tickets)
    /\ stopper.step = "cancelled" => tickets[stopper.ticket].phase = "settled"

\* What the worker may do to its ticket, which it neither replaces nor requeues.
Same(t, u) == t.kind = u.kind /\ t.op = u.op /\ t.epoch = u.epoch /\ t.context = u.context
TicketMoves(i, phase, outcome) ==
    /\ tickets' \in Seq(TicketType) /\ Len(tickets') = Len(tickets)
    /\ \A j \in 1 .. Len(tickets) : j # i => tickets'[j] = tickets[j]
    /\ Same(tickets'[i], tickets[i]) /\ tickets'[i].stop = tickets[i].stop
    /\ tickets'[i].phase = phase /\ tickets'[i].outcome = outcome

LEMMA ExceptTicket ==
    ASSUME tickets \in Seq(TicketType), NEW i \in 1 .. Len(tickets), NEW t \in TicketType,
           tickets' = [tickets EXCEPT ![i] = t], Same(t, tickets[i]), t.stop = tickets[i].stop
    PROVE  TicketMoves(i, t.phase, t.outcome)
BY ExceptSeq DEF TicketMoves

\* The plan goes on.
LEMMA GoesOn ==
    ASSUME Typed, Owned, Runs, tickets' = tickets \/ Entered
    PROVE  TicketMoves(active, "running", tickets[active].outcome)
<1> DEFINE t == tickets[active]
<1>1. active \in 1 .. Len(tickets) /\ tickets \in Seq(TicketType) /\ t \in TicketType
  BY DEF Typed, ArbiterTyped, Runs
<1>2. CASE tickets' = tickets
  BY <1>1, <1>2 DEF TicketMoves, Same, Runs
<1>3. CASE Entered
  <2> DEFINE u == [t EXCEPT !.ever = TRUE]
  <2>1. u \in TicketType /\ Same(u, t) /\ u.stop = t.stop /\ u.phase = "running" /\ u.outcome = t.outcome
    BY <1>1 DEF TicketType, Same, Runs
  <2>2. tickets' = [tickets EXCEPT ![active] = u]
    BY <1>1, <1>3 DEF Entered
  <2> HIDE DEF u
  <2> QED BY <1>1, <2>1, <2>2, ExceptTicket
<1> QED BY <1>2, <1>3

LEMMA GoneUnknown ==
    ASSUME Typed, Owned, Runs, GoesUnknown
    PROVE  /\ TicketMoves(active, "unknown", tickets[active].outcome)
           /\ worker' = IdleWorker /\ queue' = queue /\ active' = active
<1> DEFINE t == tickets[active]
           u == [t EXCEPT !.phase = "unknown", !.ever = TRUE]
<1>1. active \in 1 .. Len(tickets) /\ tickets \in Seq(TicketType) /\ t \in TicketType
  BY DEF Typed, ArbiterTyped, Runs
<1>2. u \in TicketType /\ Same(u, t) /\ u.stop = t.stop /\ u.phase = "unknown" /\ u.outcome = t.outcome
  BY <1>1 DEF TicketType, Same
<1>3. tickets' = [tickets EXCEPT ![active] = u]
  BY <1>1 DEF GoesUnknown
<1>4. worker' = IdleWorker /\ queue' = queue /\ active' = active
  BY DEF GoesUnknown
<1> HIDE DEF u
<1> QED BY <1>1, <1>2, <1>3, <1>4, ExceptTicket

LEMMA Settled ==
    ASSUME Typed, Owned, Runs, NEW outcome \in Outcomes, Settles(outcome)
    PROVE  /\ TicketMoves(active, "settled", outcome)
           /\ worker' = IdleWorker /\ queue' = queue /\ active' = 0
<1> DEFINE t == tickets[active]
           u == [t EXCEPT !.phase = "settled", !.outcome = outcome]
<1>1. active \in 1 .. Len(tickets) /\ tickets \in Seq(TicketType) /\ t \in TicketType
  BY DEF Typed, ArbiterTyped, Runs
<1>2. u \in TicketType /\ Same(u, t) /\ u.stop = t.stop /\ u.phase = "settled" /\ u.outcome = outcome
  BY <1>1 DEF TicketType, Same
<1>3. tickets' = [tickets EXCEPT ![active] = u]
  BY <1>1 DEF Settles
<1>4. worker' = IdleWorker /\ queue' = queue /\ active' = 0
  BY DEF Settles
<1> HIDE DEF u
<1> QED BY <1>1, <1>2, <1>3, <1>4, ExceptTicket

\* What a step of the active plan may do to the arbiter.
PlanMoves ==
    /\ Runs /\ queue' = queue /\ stopper' = stopper /\ worker' \in WorkerType
    /\ main' = main /\ Len(ops') = Len(ops) /\ epoch' \in Nat /\ epoch <= epoch'
    /\ kernel'.at # "gone"
    /\ \/ /\ active' = active /\ worker'.step # "none"
          /\ TicketMoves(active, "running", tickets[active].outcome)
       \/ /\ active' = active /\ worker'.step = "none"
          /\ TicketMoves(active, "unknown", tickets[active].outcome)
       \/ /\ active' = 0 /\ worker'.step = "none"
          /\ \E outcome \in Outcomes \ {"terminated"} : TicketMoves(active, "settled", outcome)

LEMMA PlanKeepsArbiter ==
    ASSUME Typed, Owned, Fenced, PlanMoves PROVE ArbiterTyped' /\ Owned' /\ Fenced'
<1>0. /\ active \in 1 .. Len(tickets) /\ tickets \in Seq(TicketType) /\ ~Closed
      /\ Len(tickets) \in Nat /\ Len(tickets') = Len(tickets) /\ tickets' \in Seq(TicketType)
      /\ tickets[active].phase = "running" /\ 0 \notin 1 .. Len(tickets)
      /\ \A j \in 1 .. Len(tickets) : j # active => tickets'[j] = tickets[j]
      /\ Same(tickets'[active], tickets[active]) /\ Len(tickets) <= MaxTickets
      /\ epoch \in Nat
  BY DEF Typed, ArbiterTyped, CommandsTyped, PlanMoves, Runs, Fenced, TicketMoves
<1>1. \A j \in 1 .. Len(tickets) : Same(tickets'[j], tickets[j])
  BY <1>0 DEF Same
<1>2. ArbiterTyped'
  <2>1. ASSUME NEW i \in 1 .. Len(tickets)
        PROVE  tickets'[i].op <= Len(ops') /\ tickets'[i].epoch <= epoch'
    <3>1. tickets[i] \in TicketType /\ tickets[i].op <= Len(ops) /\ tickets[i].epoch <= epoch
      BY <1>0 DEF Typed, ArbiterTyped
    <3>2. tickets[i].epoch \in Nat
      BY <3>1 DEF TicketType
    <3>3. /\ Len(ops') = Len(ops) /\ epoch' \in Nat /\ epoch <= epoch'
          /\ tickets'[i].op = tickets[i].op /\ tickets'[i].epoch = tickets[i].epoch
      BY <1>1 DEF PlanMoves, Same
    <3> QED BY <1>0, <3>1, <3>2, <3>3
  <2>2. \A i \in 1 .. Len(tickets') : tickets'[i].op <= Len(ops') /\ tickets'[i].epoch <= epoch'
    BY <1>0, <2>1
  <2>3. queue' \in Seq(Nat) /\ active' \in 0 .. Len(tickets') /\ worker' \in WorkerType
    BY <1>0 DEF Typed, ArbiterTyped, PlanMoves
  <2> QED BY <1>0, <2>2, <2>3 DEF ArbiterTyped
<1>3. \A i \in 1 .. Len(tickets') : tickets'[i].phase \in {"running", "unknown"} <=> i = active'
  <2>1. \A i \in 1 .. Len(tickets) : i # active =>
            ~(tickets'[i].phase \in {"running", "unknown"})
    BY <1>0 DEF Owned
  <2>2. \/ active' = active /\ tickets'[active].phase \in {"running", "unknown"}
        \/ active' = 0 /\ tickets'[active].phase = "settled"
    BY DEF PlanMoves, TicketMoves
  <2> QED BY <1>0, <2>1, <2>2
<1>4. \A k \in DOMAIN queue' :
          /\ queue'[k] \in 1 .. Len(tickets') /\ tickets'[queue'[k]].phase = "queued"
          /\ tickets'[queue'[k]].op = main'
  <2>1. \A k \in DOMAIN queue : queue[k] # active
    BY <1>0 DEF Owned
  <2> QED BY <1>0, <1>1, <2>1 DEF Owned, PlanMoves, Same
<1>5. Owned'
  <2>1. worker'.step # "none" <=> Runs'
    <3>1. Runs' <=> active' = active /\ tickets'[active].phase = "running"
      BY <1>0 DEF Runs, PlanMoves
    <3> QED BY <3>1 DEF PlanMoves, TicketMoves
  <2>2. active' # 0 => tickets'[active'].op = main'
    BY <1>0 DEF Owned, PlanMoves, Same
  <2>3. \A i, j \in 1 .. Len(tickets') :
            tickets'[i].kind = "main" /\ tickets'[j].kind = "main"
              /\ tickets'[i].op = tickets'[j].op => i = j
    BY <1>0, <1>1 DEF Owned, Same
  <2>4. Distinct(queue')
    BY DEF Owned, PlanMoves
  <2> QED BY <1>3, <1>4, <2>1, <2>2, <2>3, <2>4 DEF Owned
<1>6. Fenced'
  <2>1. ~Closed'
    BY DEF PlanMoves, Closed
  <2>2. \A i \in 1 .. Len(tickets) : tickets[i].outcome # "terminated"
    BY <1>0 DEF Fenced
  <2>3. tickets'[active].outcome # "terminated"
    BY <1>0, <2>2 DEF PlanMoves, TicketMoves
  <2>4. \A i \in 1 .. Len(tickets') : tickets'[i].outcome # "terminated"
    BY <1>0, <2>2, <2>3
  <2>5. tickets[stopper.ticket].phase = "settled" /\ stopper.ticket \in 1 .. Len(tickets) =>
            tickets'[stopper.ticket].phase = "settled"
    BY <1>0
  <2> QED BY <1>0, <2>1, <2>4, <2>5 DEF Fenced, PlanMoves
<1> QED BY <1>2, <1>5, <1>6

\* The arbiter rests.
LEMMA RestKeepsArbiter ==
    ASSUME Typed, Owned, Fenced, UNCHANGED arbiterVars, epoch' = epoch,
           ops' \in Seq(OpType), Len(ops) <= Len(ops'),
           main' = main \/ Idle, Closed' <=> Closed,
           \/ stopper' = stopper \/ stopper'.step = "none"
           \/ stopper'.step = "asked" /\ stopper'.ticket \in 1 .. Len(tickets)
    PROVE  ArbiterTyped' /\ Owned' /\ Fenced'
<1>1. ArbiterTyped'
  <2>1. Len(ops) \in Nat /\ Len(ops') \in Nat
    BY DEF Typed, CommandsTyped
  <2>2. ASSUME NEW i \in 1 .. Len(tickets) PROVE tickets[i].op <= Len(ops')
    <3>1. tickets[i] \in TicketType /\ tickets[i].op <= Len(ops)
      BY DEF Typed, ArbiterTyped
    <3>2. tickets[i].op \in Nat
      BY <3>1, BoundsAssumption DEF TicketType
    <3> QED BY <2>1, <3>1, <3>2
  <2> QED BY <2>2 DEF Typed, ArbiterTyped
<1>2. Owned'
  BY DEF Owned, Runs, Idle, Distinct
<1>3. Fenced'
  BY DEF Fenced
<1> QED BY <1>1, <1>2, <1>3

\* A submission: the new ticket is queued, or withdrawn at once.
Submits(kind, op, phase) ==
    /\ \E outcome \in {"none", "cancelled"} :
          tickets' = Append(tickets, NewTicket(kind, op, phase, outcome))
    /\ queue' = IF phase = "queued" THEN Append(queue, Len(tickets) + 1) ELSE queue

LEMMA SubmissionKeepsArbiter ==
    ASSUME Typed, Owned, Fenced, NEW kind \in Kinds, NEW phase \in {"queued", "settled"},
           Submits(kind, main', phase), UNCHANGED <<active, worker, stopper, epoch>>,
           Len(tickets) < MaxTickets, ~Closed, Closed' <=> Closed,
           ops' \in Seq(OpType), Len(ops) <= Len(ops'), Len(ops') <= MaxCommands,
           main' \in 1 .. Len(ops'), main' = main \/ Idle,
           kind = "main" => main' = Len(ops) + 1
    PROVE  ArbiterTyped' /\ Owned' /\ Fenced'
<1>0. /\ tickets \in Seq(TicketType) /\ Len(tickets) \in Nat /\ Len(ops) \in Nat /\ Len(ops') \in Nat
      /\ active \in 0 .. Len(tickets) /\ epoch \in Nat /\ queue \in Seq(Nat)
      /\ MaxTickets \in Nat /\ MaxCommands \in Nat
  BY BoundsAssumption DEF Typed, ArbiterTyped, CommandsTyped
<1> DEFINE n == Len(tickets) + 1
<1>1. PICK t : /\ t \in TicketType /\ t.kind = kind /\ t.op = main' /\ t.phase = phase
               /\ t.outcome # "terminated" /\ t.epoch = epoch /\ tickets' = Append(tickets, t)
  <2>1. PICK outcome \in {"none", "cancelled"} :
            tickets' = Append(tickets, NewTicket(kind, main', phase, outcome))
    BY DEF Submits
  <2> DEFINE u == NewTicket(kind, main', phase, outcome)
  <2>2. NoContext \in Context
    BY BoundsAssumption DEF NoContext, Context
  <2>3. /\ u \in TicketType /\ u.kind = kind /\ u.op = main' /\ u.phase = phase
        /\ u.outcome # "terminated" /\ u.epoch = epoch
    BY <1>0, <2>2 DEF NewTicket, TicketType, Outcomes
  <2> HIDE DEF u
  <2> QED BY <2>1, <2>3 DEF u
<1>2. /\ tickets' \in Seq(TicketType) /\ Len(tickets') = n /\ tickets'[n] = t
      /\ \A i \in 1 .. Len(tickets) : tickets'[i] = tickets[i]
  BY <1>0, <1>1, AppendProperties
<1>3. \A i \in 1 .. n : i \in 1 .. Len(tickets) \/ i = n
  BY <1>0
<1>4. /\ phase = "queued" => queue' = Append(queue, n)
      /\ phase # "queued" => queue' = queue
  BY DEF Submits
<1>5. queue' \in Seq(Nat)
  <2>1. n \in Nat
    BY <1>0
  <2> HIDE DEF n
  <2>2. Append(queue, n) \in Seq(Nat)
    BY <1>0, <2>1, AppendProperties
  <2> QED BY <1>0, <1>4, <2>2
<1>6. ArbiterTyped'
  <2>1. ASSUME NEW i \in 1 .. Len(tickets) PROVE tickets[i].op <= Len(ops')
    <3>1. tickets[i] \in TicketType /\ tickets[i].op <= Len(ops)
      BY <1>0 DEF Typed, ArbiterTyped
    <3>2. tickets[i].op \in Nat
      BY <1>0, <3>1 DEF TicketType
    <3> QED BY <1>0, <3>1, <3>2
  <2>2. \A i \in 1 .. Len(tickets') : tickets'[i].op <= Len(ops') /\ tickets'[i].epoch <= epoch'
    BY <1>0, <1>1, <1>2, <1>3, <2>1 DEF Typed, ArbiterTyped
  <2>3. active' \in 0 .. Len(tickets') /\ worker' \in WorkerType /\ Len(tickets') <= MaxTickets
    BY <1>0, <1>2 DEF Typed, ArbiterTyped
  <2> QED BY <1>2, <1>5, <2>2, <2>3 DEF ArbiterTyped
<1>7. \A k \in DOMAIN queue : queue[k] \in 1 .. Len(tickets) /\ queue[k] # n
  BY <1>0 DEF Owned
<1>8. Distinct(queue')
  <2>1. n \notin ToSet(queue)
    BY <1>0, <1>7 DEF ToSet
  <2>2. n \in Nat /\ Distinct(queue)
    BY <1>0 DEF Owned
  <2> HIDE DEF n
  <2>3. Distinct(Append(queue, n))
    BY <1>0, <2>1, <2>2, AppendDistinct
  <2> QED BY <1>4, <2>2, <2>3
<1>9. \A k \in DOMAIN queue' :
          /\ queue'[k] \in 1 .. Len(tickets') /\ tickets'[queue'[k]].phase = "queued"
          /\ tickets'[queue'[k]].op = main'
  <2>1. \A k \in DOMAIN queue : /\ queue[k] \in 1 .. n /\ tickets'[queue[k]].phase = "queued"
                                /\ tickets'[queue[k]].op = main'
    <3>1. CASE main' = main
      <4> SUFFICES ASSUME NEW k \in DOMAIN queue
                   PROVE  /\ queue[k] \in 1 .. n /\ tickets'[queue[k]].phase = "queued"
                          /\ tickets'[queue[k]].op = main'
        OBVIOUS
      <4>1. /\ queue[k] \in 1 .. Len(tickets) /\ tickets[queue[k]].phase = "queued"
            /\ tickets[queue[k]].op = main
        BY DEF Owned
      <4>2. tickets'[queue[k]] = tickets[queue[k]]
        BY <1>2, <4>1
      <4>3. queue[k] \in 1 .. n
        BY <1>0, <4>1
      <4> QED BY <3>1, <4>1, <4>2, <4>3
    <3>2. CASE Idle
      BY <3>2 DEF Idle
    <3> QED BY <3>1, <3>2
  <2>2. CASE phase # "queued"
    BY <1>2, <1>4, <2>1, <2>2
  <2>3. CASE phase = "queued"
    <3>1. /\ DOMAIN queue' = 1 .. Len(queue) + 1 /\ queue'[Len(queue) + 1] = n
          /\ \A k \in 1 .. Len(queue) : queue'[k] = queue[k]
          /\ DOMAIN queue = 1 .. Len(queue)
      BY <1>0, <1>4, <2>3, AppendProperties, LenProperties
    <3>2. tickets'[n].phase = "queued" /\ tickets'[n].op = main' /\ n \in 1 .. Len(tickets')
      BY <1>0, <1>1, <1>2, <2>3
    <3>3. Len(queue) \in Nat
      BY <1>0
    <3> QED BY <1>2, <2>1, <3>1, <3>2, <3>3
  <2> QED BY <2>2, <2>3
<1>10. \A i \in 1 .. Len(tickets') : tickets'[i].phase \in {"running", "unknown"} <=> i = active'
  <2>1. n # active /\ ~(tickets'[n].phase \in {"running", "unknown"})
    BY <1>0, <1>1, <1>2
  <2>2. active' = active /\ Len(tickets') = n
    BY <1>0, <1>2
  <2>3. ASSUME NEW i \in 1 .. Len(tickets)
        PROVE  tickets'[i].phase \in {"running", "unknown"} <=> i = active
    <3>1. tickets'[i] = tickets[i]
      BY <1>2
    <3> QED BY <3>1 DEF Owned
  <2> HIDE DEF n
  <2> QED BY <1>3, <2>1, <2>2, <2>3
<1>11. active # 0 => main' = main /\ tickets'[active] = tickets[active]
  BY <1>0, <1>2 DEF Idle
<1>12. Owned'
  <2>1. worker'.step # "none" <=> Runs'
    BY <1>11 DEF Owned, Runs
  <2>2. active' # 0 => tickets'[active'].op = main'
    BY <1>11 DEF Owned
  <2>3. ASSUME NEW i \in 1 .. Len(tickets'), NEW j \in 1 .. Len(tickets'),
               tickets'[i].kind = "main", tickets'[j].kind = "main",
               tickets'[i].op = tickets'[j].op
        PROVE  i = j
    <3>1. ASSUME kind = "main", NEW k \in 1 .. Len(tickets) PROVE tickets[k].op # main'
      <4>1. tickets[k] \in TicketType /\ tickets[k].op <= Len(ops)
        BY <1>0 DEF Typed, ArbiterTyped
      <4> QED BY <1>0, <3>1, <4>1
    <3>2. CASE i \in 1 .. Len(tickets) /\ j \in 1 .. Len(tickets)
      BY <1>2, <2>3, <3>2 DEF Owned
    <3>3. CASE i = n /\ j \in 1 .. Len(tickets)
      BY <1>1, <1>2, <2>3, <3>1, <3>3
    <3>4. CASE j = n /\ i \in 1 .. Len(tickets)
      BY <1>1, <1>2, <2>3, <3>1, <3>4
    <3> QED BY <1>2, <1>3, <3>2, <3>3, <3>4
  <2> QED BY <1>8, <1>9, <1>10, <2>1, <2>2, <2>3 DEF Owned
<1>13. Fenced'
  <2>1. \A i \in 1 .. Len(tickets') : tickets'[i].outcome # "terminated"
    BY <1>1, <1>2, <1>3 DEF Fenced
  <2>2. /\ stopper'.step # "none" => stopper'.ticket \in 1 .. Len(tickets')
        /\ stopper'.step = "cancelled" => tickets'[stopper'.ticket].phase = "settled"
    BY <1>0, <1>2 DEF Fenced
  <2> QED BY <2>1, <2>2 DEF Fenced
<1> QED BY <1>6, <1>12, <1>13

\* What cancelling some of the queue does.
CancelMoves(S, t) ==
    /\ t \in Seq(TicketType) /\ Len(t) = Len(tickets)
    /\ \A j \in 1 .. Len(tickets) :
          IF j \in S THEN /\ Same(t[j], tickets[j]) /\ t[j].stop = tickets[j].stop
                          /\ t[j].ever = tickets[j].ever
                          /\ t[j].phase = "settled" /\ t[j].outcome = "cancelled"
          ELSE t[j] = tickets[j]

LEMMA CancellingMoves ==
    ASSUME tickets \in Seq(TicketType), NEW S PROVE CancelMoves(S, Cancelling(S))
<1> DEFINE n == Len(tickets)
           t == Cancelling(S)
<1>1. n \in Nat /\ DOMAIN tickets = 1 .. n /\ \A j \in 1 .. n : tickets[j] \in TicketType
  BY LenProperties
<1>2. DOMAIN t = 1 .. n
  BY DEF Cancelling
<1>3. ASSUME NEW j \in 1 .. n
      PROVE  /\ t[j] \in TicketType
             /\ IF j \in S THEN /\ Same(t[j], tickets[j]) /\ t[j].stop = tickets[j].stop
                                /\ t[j].ever = tickets[j].ever
                                /\ t[j].phase = "settled" /\ t[j].outcome = "cancelled"
                ELSE t[j] = tickets[j]
  <2>1. t[j] = IF j \in S THEN [tickets[j] EXCEPT !.phase = "settled", !.outcome = "cancelled"]
               ELSE tickets[j]
    BY <1>3 DEF Cancelling
  <2> HIDE DEF t
  <2> QED BY <1>1, <2>1 DEF TicketType, Same, Outcomes
<1>4. t \in [1 .. n -> TicketType]
  <2>1. t = [j \in 1 .. n |-> t[j]]
    BY DEF Cancelling
  <2> HIDE DEF t
  <2> QED BY <1>3, <2>1
<1>5. t \in Seq(TicketType) /\ Len(t) = n
  <2> HIDE DEF t, n
  <2>1. t \in Seq(TicketType)
    BY <1>1, <1>4, SeqDef
  <2>2. DOMAIN t = 1 .. Len(t) /\ Len(t) \in Nat
    BY <2>1, LenProperties
  <2> QED BY <1>1, <1>2, <2>1, <2>2
<1> HIDE DEF t
<1>9. CancelMoves(S, t)
  BY <1>3, <1>5 DEF CancelMoves
<1> QED BY <1>9 DEF t

LEMMA FirstSteps ==
    /\ FirstStep["main"] = "prepare" /\ FirstStep["resume"] = "writeback"
    /\ FirstStep["debug"] = "continue"
BY DEF FirstStep

\* The worker takes the head of the queue.
LEMMA TakeMoves ==
    ASSUME Typed, Owned, Fenced, Take
    PROVE  /\ active = 0 /\ queue # <<>> /\ ~Closed /\ worker.step = "none"
           /\ Head(queue) \in 1 .. Len(tickets) /\ tickets[Head(queue)].op = main
           /\ queue' = Tail(queue)
           /\ \/ /\ tickets[Head(queue)].epoch # epoch /\ active' = 0 /\ worker' = worker
                 /\ TicketMoves(Head(queue), "settled", "error")
              \/ /\ tickets[Head(queue)].epoch = epoch /\ active' = Head(queue)
                 /\ TicketMoves(Head(queue), "running", tickets[Head(queue)].outcome)
                 /\ worker' = [worker EXCEPT !.step = FirstStep[tickets[Head(queue)].kind]]
           /\ UNCHANGED <<commandVars, publicationVars, stopVars, kernelVars>>
<1> DEFINE i == Head(queue)
           t == tickets[i]
<1>1. active = 0 /\ queue # <<>> /\ ~Closed /\ queue' = Tail(queue)
      /\ UNCHANGED <<commandVars, publicationVars, stopVars, kernelVars>>
  BY DEF Take
<1>2. i = queue[1] /\ 1 \in DOMAIN queue
  BY <1>1 DEF Typed, ArbiterTyped
<1>3. i \in 1 .. Len(tickets) /\ t.op = main
  BY <1>2 DEF Owned
<1>4. tickets \in Seq(TicketType) /\ t \in TicketType
  BY <1>3 DEF Typed, ArbiterTyped
<1>5. worker.step = "none"
  BY <1>1 DEF Owned, Runs
<1>6. CASE t.epoch # epoch
  <2> DEFINE u == [t EXCEPT !.phase = "settled", !.outcome = "error"]
  <2>1. u \in TicketType /\ Same(u, t) /\ u.stop = t.stop /\ u.phase = "settled" /\ u.outcome = "error"
    BY <1>4 DEF TicketType, Same, Outcomes
  <2>2. tickets' = [tickets EXCEPT ![i] = u] /\ active' = 0 /\ worker' = worker
    BY <1>1, <1>4, <1>6 DEF Take
  <2> HIDE DEF u
  <2>3. TicketMoves(i, "settled", "error")
    BY <1>3, <1>4, <2>1, <2>2, ExceptTicket
  <2> QED BY <1>1, <1>3, <1>5, <1>6, <2>2, <2>3
<1>7. CASE t.epoch = epoch
  <2> DEFINE u == [t EXCEPT !.phase = "running"]
  <2>1. u \in TicketType /\ Same(u, t) /\ u.stop = t.stop /\ u.phase = "running" /\ u.outcome = t.outcome
    BY <1>4 DEF TicketType, Same
  <2>2. /\ tickets' = [tickets EXCEPT ![i] = u] /\ active' = i
        /\ worker' = [worker EXCEPT !.step = FirstStep[t.kind]]
    BY <1>1, <1>4, <1>7 DEF Take, Step
  <2> HIDE DEF u
  <2>3. TicketMoves(i, "running", t.outcome)
    BY <1>3, <1>4, <2>1, <2>2, ExceptTicket
  <2> QED BY <1>1, <1>3, <1>5, <1>7, <2>2, <2>3
<1> QED BY <1>6, <1>7

\* Tickets keep what identifies them.
LEMMA SameKeeps ==
    ASSUME Typed, Owned, tickets' \in Seq(TicketType), Len(tickets') = Len(tickets),
           \A j \in 1 .. Len(tickets) : Same(tickets'[j], tickets[j]), UNCHANGED <<ops, epoch>>
    PROVE  /\ \A i \in 1 .. Len(tickets') : tickets'[i].op <= Len(ops') /\ tickets'[i].epoch <= epoch'
           /\ \A i, j \in 1 .. Len(tickets') :
                 tickets'[i].kind = "main" /\ tickets'[j].kind = "main"
                   /\ tickets'[i].op = tickets'[j].op => i = j
<1>1. \A i \in 1 .. Len(tickets) : tickets[i].op <= Len(ops) /\ tickets[i].epoch <= epoch
  BY DEF Typed, ArbiterTyped
<1>2. \A i \in 1 .. Len(tickets) : /\ tickets'[i].op = tickets[i].op /\ tickets'[i].kind = tickets[i].kind
                                   /\ tickets'[i].epoch = tickets[i].epoch
  BY DEF Same
<1> QED BY <1>1, <1>2 DEF Owned

LEMMA TakeKeepsArbiter ==
    ASSUME Typed, Owned, Fenced, Take PROVE ArbiterTyped' /\ Owned' /\ Fenced'
<1> DEFINE i == Head(queue)
<1>1. /\ active = 0 /\ queue # <<>> /\ ~Closed /\ worker.step = "none" /\ i \in 1 .. Len(tickets)
      /\ tickets[i].op = main /\ queue' = Tail(queue)
      /\ \/ active' = 0 /\ worker' = worker /\ TicketMoves(i, "settled", "error")
         \/ /\ active' = i /\ TicketMoves(i, "running", tickets[i].outcome)
            /\ worker' = [worker EXCEPT !.step = FirstStep[tickets[i].kind]]
      /\ UNCHANGED <<commandVars, publicationVars, stopVars, kernelVars>>
  BY TakeMoves
<1>2. /\ tickets \in Seq(TicketType) /\ Len(tickets') = Len(tickets) /\ tickets' \in Seq(TicketType)
      /\ \A j \in 1 .. Len(tickets) : j # i => tickets'[j] = tickets[j]
      /\ Same(tickets'[i], tickets[i])
      /\ queue \in Seq(Nat) /\ Len(tickets) \in Nat /\ worker \in WorkerType
      /\ Len(tickets) <= MaxTickets /\ tickets[i] \in TicketType
  BY <1>1 DEF TicketMoves, Typed, ArbiterTyped
<1>3. \A j \in 1 .. Len(tickets) : Same(tickets'[j], tickets[j])
  BY <1>2 DEF Same
<1>4. /\ Tail(queue) \in Seq(Nat) /\ Distinct(Tail(queue)) /\ ToSet(Tail(queue)) = ToSet(queue) \ {i}
  BY <1>1, <1>2, TailDistinct, HeadTailProperties DEF Owned
<1>5. FirstStep[tickets[i].kind] \in {"prepare", "writeback", "continue"}
  <2>1. tickets[i].kind \in Kinds
    BY <1>2 DEF TicketType
  <2> QED BY <2>1, FirstSteps DEF Kinds
<1>6. worker' \in WorkerType /\ (worker'.step = "none" <=> active' = 0)
  <2>1. CASE active' = 0 /\ worker' = worker
    BY <1>1, <1>2, <2>1
  <2>2. CASE active' = i /\ worker' = [worker EXCEPT !.step = FirstStep[tickets[i].kind]]
    <3> DEFINE step == FirstStep[tickets[i].kind]
    <3>1. step \in WorkerSteps /\ step # "none"
      BY <1>5 DEF WorkerSteps, Pre
    <3>2. worker' = [worker EXCEPT !.step = step] /\ active' # 0
      BY <1>1, <1>2, <2>2
    <3> HIDE DEF step
    <3> QED BY <1>2, <3>1, <3>2 DEF WorkerType
  <2> QED BY <1>1, <2>1, <2>2
<1>7. \/ active' = 0 /\ tickets'[i].phase = "settled"
      \/ active' = i /\ tickets'[i].phase = "running"
  BY <1>1 DEF TicketMoves
<1> HIDE DEF i
<1>8. \A j \in 1 .. Len(tickets') : tickets'[j].phase \in {"running", "unknown"} <=> j = active'
  <2> SUFFICES ASSUME NEW j \in 1 .. Len(tickets)
               PROVE  tickets'[j].phase \in {"running", "unknown"} <=> j = active'
    BY <1>2
  <2>1. CASE j = i
    BY <1>1, <1>2, <1>7, <2>1
  <2>2. CASE j # i
    <3>1. ~(tickets[j].phase \in {"running", "unknown"}) /\ j # 0
      BY <1>1, <1>2 DEF Owned
    <3> QED BY <1>2, <1>7, <2>2, <3>1
  <2> QED BY <2>1, <2>2
<1>9. \A k \in DOMAIN queue' :
          /\ queue'[k] \in 1 .. Len(tickets') /\ tickets'[queue'[k]].phase = "queued"
          /\ tickets'[queue'[k]].op = main'
  <2> SUFFICES ASSUME NEW k \in DOMAIN Tail(queue)
               PROVE  /\ Tail(queue)[k] \in 1 .. Len(tickets)
                      /\ tickets'[Tail(queue)[k]].phase = "queued"
                      /\ tickets'[Tail(queue)[k]].op = main
    BY <1>1, <1>2
  <2>1. PICK l \in DOMAIN queue : Tail(queue)[k] = queue[l] /\ queue[l] # i
    BY <1>4 DEF ToSet
  <2>2. /\ queue[l] \in 1 .. Len(tickets) /\ tickets[queue[l]].phase = "queued"
        /\ tickets[queue[l]].op = main
    BY DEF Owned
  <2> QED BY <1>2, <2>1, <2>2
<1>10. Owned'
  <2>1. worker'.step # "none" <=> Runs'
    BY <1>1, <1>6, <1>7 DEF Runs
  <2>2. active' # 0 => tickets'[active'].op = main'
    BY <1>1, <1>2 DEF Same
  <2> QED BY <1>1, <1>2, <1>3, <1>4, <1>8, <1>9, <2>1, <2>2, SameKeeps DEF Owned
<1>11. ArbiterTyped'
  <2>1. active' \in 0 .. Len(tickets') /\ queue' \in Seq(Nat)
    BY <1>1, <1>2, <1>4
  <2> QED BY <1>1, <1>2, <1>3, <1>6, <2>1, SameKeeps DEF ArbiterTyped
<1>12. Fenced'
  <2>1. \A j \in 1 .. Len(tickets) : tickets[j].outcome # "terminated"
    BY <1>1 DEF Fenced
  <2>2. tickets'[i].outcome # "terminated"
    BY <1>1, <2>1 DEF TicketMoves
  <2>3. ~Closed'
    BY <1>1 DEF Closed
  <2>4. tickets[i].phase = "queued"
    BY <1>1, <1>2 DEF Owned, i
  <2>5. stopper'.step = "cancelled" => tickets'[stopper'.ticket].phase = "settled"
    BY <1>1, <1>2, <2>4 DEF Fenced
  <2> QED BY <1>1, <1>2, <2>1, <2>2, <2>3, <2>5 DEF Fenced
<1> QED BY <1>10, <1>11, <1>12

\* request_stop: a queued ticket is cancelled, or the active one stopped and the queue dropped.
LEMMA StopMoves ==
    ASSUME Typed, Owned, Fenced, RequestStop
    PROVE  /\ UNCHANGED <<commandVars, publicationVars, active, worker, proof, kernelVars>>
           /\ tickets' \in Seq(TicketType) /\ Len(tickets') = Len(tickets)
           /\ \A j \in 1 .. Len(tickets) :
                 /\ tickets'[j].kind = tickets[j].kind /\ tickets'[j].op = tickets[j].op
                 /\ tickets'[j].epoch = tickets[j].epoch /\ tickets'[j].ever = tickets[j].ever
           /\ \A j \in 1 .. Len(tickets) :
                 \/ tickets'[j].phase = tickets[j].phase /\ tickets'[j].outcome = tickets[j].outcome
                 \/ /\ tickets[j].phase = "queued" /\ tickets'[j].phase = "settled"
                    /\ tickets'[j].outcome = "cancelled" /\ j \notin ToSet(queue')
           /\ queue' \in Seq(Nat) /\ Distinct(queue') /\ ToSet(queue') \subseteq ToSet(queue)
           /\ \/ stopper'.step = "none"
              \/ stopper'.step = "cancelled" /\ stopper'.ticket \in 1 .. Len(tickets)
                   /\ tickets'[stopper'.ticket].phase = "settled"
           /\ stopper' \in StopperType
<1> DEFINE i == stopper.ticket
<1>0. /\ i \in 1 .. Len(tickets) /\ tickets \in Seq(TicketType) /\ queue \in Seq(Nat)
      /\ tickets[i] \in TicketType /\ Distinct(queue) /\ stopper \in StopperType
      /\ NoStopper \in StopperType /\ NoStopper.step = "none"
      /\ \A j \in ToSet(queue) : j \in 1 .. Len(tickets) /\ tickets[j].phase = "queued"
      /\ \A j \in 1 .. Len(tickets) : tickets[j] \in TicketType
  <2>1. NoStopper \in StopperType /\ NoStopper.step = "none"
    BY BoundsAssumption DEF NoStopper, StopperType, NoContext, Context
  <2> QED BY <2>1 DEF RequestStop, Fenced, Typed, ArbiterTyped, KernelTyped, Owned, ToSet
<1>1. UNCHANGED <<commandVars, publicationVars, active, worker, proof, kernelVars>>
  BY DEF RequestStop
<1>2. CASE tickets[i].phase = "settled" /\ stopper' = NoStopper /\ UNCHANGED <<tickets, queue>>
  BY <1>0, <1>1, <1>2
<1>3. CASE /\ tickets[i].phase = "queued" /\ tickets' = Cancelling({i})
           /\ \E k \in 1 .. Len(queue) : queue[k] = i /\ queue' = RemoveAt(queue, k)
           /\ stopper' = [stopper EXCEPT !.step = "cancelled"]
  <2>1. CancelMoves({i}, tickets')
    BY <1>0, <1>3, CancellingMoves
  <2>2. PICK k \in DOMAIN queue : queue[k] = i /\ queue' = RemoveAt(queue, k)
    BY <1>0, <1>3
  <2>3. queue' \in Seq(Nat) /\ Distinct(queue') /\ ToSet(queue') = ToSet(queue) \ {i}
    BY <1>0, <2>2, RemoveAtDistinct, RemoveAtType
  <2>4. stopper'.step = "cancelled" /\ stopper'.ticket = i /\ stopper' \in StopperType
    BY <1>0, <1>3 DEF StopperType
  <2> QED BY <1>0, <1>1, <1>3, <2>1, <2>3, <2>4 DEF CancelMoves, Same
<1>4. CASE i = active /\ stopper' = NoStopper /\ UNCHANGED <<tickets, queue>>
  BY <1>0, <1>1, <1>4
<1>5. CASE /\ i = active /\ stopper' = NoStopper /\ queue' = <<>>
           /\ tickets' = [Cancelling(Queued) EXCEPT ![i].stop = TRUE, ![i].context = stopper.context]
  <2> DEFINE t == Cancelling(Queued)
  <2>1. CancelMoves(Queued, t)
    BY <1>0, CancellingMoves
  <2>2. Queued = ToSet(queue)
    BY <1>0 DEF Queued, ToSet
  <2> HIDE DEF t
  <2>3. t[i] = tickets[i]
    BY <1>0, <1>5, <2>1, <2>2 DEF CancelMoves, Owned
  <2> DEFINE u == [t[i] EXCEPT !.stop = TRUE, !.context = stopper.context]
  <2>4. /\ u \in TicketType /\ u.phase = tickets[i].phase /\ u.outcome = tickets[i].outcome
        /\ u.kind = tickets[i].kind /\ u.op = tickets[i].op /\ u.epoch = tickets[i].epoch
        /\ u.ever = tickets[i].ever
    BY <1>0, <2>3 DEF TicketType, StopperType
  <2>5. tickets' = [t EXCEPT ![i] = u]
    <3>1. t \in Seq(TicketType) /\ i \in 1 .. Len(t)
      BY <1>0, <2>1 DEF CancelMoves
    <3> QED BY <1>0, <1>5, <2>3, <3>1 DEF t, TicketType
  <2> HIDE DEF u
  <2>6. /\ tickets' \in Seq(TicketType) /\ Len(tickets') = Len(tickets)
        /\ \A j \in 1 .. Len(tickets) : tickets'[j] = IF j = i THEN u ELSE t[j]
    BY <1>0, <2>1, <2>4, <2>5, ExceptSeq DEF CancelMoves
  <2>7. queue' \in Seq(Nat) /\ Distinct(queue') /\ ToSet(queue') = {}
    BY <1>5 DEF Distinct, ToSet
  <2>8. ASSUME NEW j \in 1 .. Len(tickets)
        PROVE  /\ tickets'[j].kind = tickets[j].kind /\ tickets'[j].op = tickets[j].op
               /\ tickets'[j].epoch = tickets[j].epoch /\ tickets'[j].ever = tickets[j].ever
               /\ \/ tickets'[j].phase = tickets[j].phase /\ tickets'[j].outcome = tickets[j].outcome
                  \/ /\ tickets[j].phase = "queued" /\ tickets'[j].phase = "settled"
                     /\ tickets'[j].outcome = "cancelled"
    <3>1. CASE j = i
      BY <2>4, <2>6, <3>1
    <3>2. CASE j # i
      <4>1. tickets'[j] = t[j]
        BY <2>6, <3>2
      <4>2. IF j \in Queued THEN /\ Same(t[j], tickets[j]) /\ t[j].phase = "settled"
                                 /\ t[j].ever = tickets[j].ever /\ t[j].outcome = "cancelled"
            ELSE t[j] = tickets[j]
        BY <2>1 DEF CancelMoves
      <4>3. j \in Queued => tickets[j].phase = "queued"
        BY <1>0, <2>2
      <4> QED BY <4>1, <4>2, <4>3 DEF Same
    <3> QED BY <3>1, <3>2
  <2> HIDE DEF i
  <2> QED BY <1>0, <1>1, <1>5, <2>6, <2>7, <2>8
<1> QED BY <1>2, <1>3, <1>4, <1>5 DEF RequestStop

LEMMA StopKeepsArbiter ==
    ASSUME Typed, Owned, Fenced, RequestStop PROVE ArbiterTyped' /\ Owned' /\ Fenced'
<1>1. /\ UNCHANGED <<commandVars, publicationVars, active, worker, proof, kernelVars>>
      /\ tickets' \in Seq(TicketType) /\ Len(tickets') = Len(tickets)
      /\ \A j \in 1 .. Len(tickets) :
            /\ tickets'[j].kind = tickets[j].kind /\ tickets'[j].op = tickets[j].op
            /\ tickets'[j].epoch = tickets[j].epoch
      /\ \A j \in 1 .. Len(tickets) :
            \/ tickets'[j].phase = tickets[j].phase /\ tickets'[j].outcome = tickets[j].outcome
            \/ /\ tickets[j].phase = "queued" /\ tickets'[j].phase = "settled"
               /\ tickets'[j].outcome = "cancelled" /\ j \notin ToSet(queue')
      /\ queue' \in Seq(Nat) /\ Distinct(queue') /\ ToSet(queue') \subseteq ToSet(queue)
      /\ \/ stopper'.step = "none"
         \/ stopper'.step = "cancelled" /\ stopper'.ticket \in 1 .. Len(tickets)
              /\ tickets'[stopper'.ticket].phase = "settled"
  BY StopMoves
<1>2. ArbiterTyped'
  BY <1>1 DEF Typed, ArbiterTyped
<1>3. \A j \in 1 .. Len(tickets) : /\ tickets[j].phase = "queued" => j # active
                                   /\ tickets[j].outcome = "terminated" => Closed
  BY DEF Owned, Fenced
<1>4. \A i \in 1 .. Len(tickets') : tickets'[i].phase \in {"running", "unknown"} <=> i = active'
  BY <1>1, <1>3 DEF Owned
<1>5. ASSUME NEW k \in DOMAIN queue'
      PROVE  /\ queue'[k] \in 1 .. Len(tickets') /\ tickets'[queue'[k]].phase = "queued"
             /\ tickets'[queue'[k]].op = main'
  <2>1. queue'[k] \in ToSet(queue')
    BY DEF ToSet
  <2>2. PICK l \in DOMAIN queue : queue[l] = queue'[k]
    BY <1>1, <2>1 DEF ToSet
  <2>3. queue[l] \in 1 .. Len(tickets) /\ tickets[queue[l]].phase = "queued"
        /\ tickets[queue[l]].op = main
    BY DEF Owned
  <2> QED BY <1>1, <2>1, <2>2, <2>3
<1>6. Owned'
  <2>1. active \in 0 .. Len(tickets) /\ Len(tickets) \in Nat
    BY DEF Typed, ArbiterTyped
  <2>2. active # 0 => active \in 1 .. Len(tickets)
    BY <2>1
  <2>3. active # 0 => tickets'[active].phase = tickets[active].phase
    BY <1>1, <1>3, <2>2
  <2>4. worker'.step # "none" <=> Runs'
    BY <1>1, <2>3 DEF Owned, Runs
  <2>5. active' # 0 => tickets'[active'].op = main'
    BY <1>1, <2>2 DEF Owned
  <2>6. \A i, j \in 1 .. Len(tickets') :
            tickets'[i].kind = "main" /\ tickets'[j].kind = "main"
              /\ tickets'[i].op = tickets'[j].op => i = j
    BY <1>1 DEF Owned
  <2> QED BY <1>1, <1>4, <1>5, <2>4, <2>5, <2>6 DEF Owned
<1>7. Fenced'
  <2>1. Closed' <=> Closed
    BY <1>1 DEF Closed
  <2>2. Closed' => active' = 0 /\ queue' = <<>>
    <3> SUFFICES ASSUME Closed PROVE active = 0 /\ queue' = <<>>
      BY <1>1, <2>1
    <3>1. active = 0 /\ queue = <<>>
      BY DEF Fenced
    <3>2. ToSet(queue) = {}
      BY <3>1 DEF ToSet
    <3>3. ASSUME NEW k \in DOMAIN queue' PROVE FALSE
      <4>1. queue'[k] \in ToSet(queue')
        BY DEF ToSet
      <4>2. ToSet(queue') \subseteq ToSet(queue)
        BY <1>1
      <4> QED BY <3>2, <4>1, <4>2
    <3>4. DOMAIN queue' = 1 .. Len(queue') /\ Len(queue') \in Nat
      BY <1>1, LenProperties
    <3>5. Len(queue') = 0
      BY <3>3, <3>4
    <3> QED BY <1>1, <3>1, <3>5, EmptySeq
  <2>3. \A i \in 1 .. Len(tickets') : tickets'[i].outcome = "terminated" => Closed'
    BY <1>1, <1>3, <2>1
  <2>4. /\ stopper'.step # "none" => stopper'.ticket \in 1 .. Len(tickets')
        /\ stopper'.step = "cancelled" => tickets'[stopper'.ticket].phase = "settled"
    BY <1>1
  <2> QED BY <2>2, <2>3, <2>4 DEF Fenced
<1> QED BY <1>2, <1>6, <1>7

\* The exit of the target: the arbiter is emptied.
LEMMA ExitMoves ==
    ASSUME Typed, Owned, Fenced, TargetTerminated
    PROVE  /\ active \in 1 .. Len(tickets) /\ tickets[active].phase = "unknown"
           /\ tickets' \in Seq(TicketType) /\ Len(tickets') = Len(tickets)
           /\ \A j \in 1 .. Len(tickets) : Same(tickets'[j], tickets[j])
           /\ \A j \in 1 .. Len(tickets) : tickets'[j] = tickets[j] \/ tickets'[j].phase = "settled"
           /\ tickets'[active].phase = "settled" /\ queue' = <<>> /\ active' = 0
           /\ worker' = IdleWorker /\ Closed' /\ kernel' \in KernelType
           /\ kernel'.current = 0 /\ kernel'.id = kernel.id /\ kernel'.code = kernel.code
           /\ kernel'.done = kernel.done /\ kernel'.stop = kernel.stop
           /\ UNCHANGED <<commandVars, publicationVars, stopVars, ran>>
<1>0. /\ active \in 1 .. Len(tickets) /\ tickets \in Seq(TicketType) /\ queue \in Seq(Nat)
      /\ tickets[active] \in TicketType /\ tickets[active].phase = "unknown"
      /\ kernel \in KernelType
  BY DEF TargetTerminated, Typed, ArbiterTyped, KernelTyped, Active
<1>1. Queued = ToSet(queue)
  BY <1>0 DEF Queued, ToSet
<1> DEFINE t == Cancelling(Queued)
<1>2. CancelMoves(Queued, t)
  BY <1>0, CancellingMoves
<1>3. tickets' = [t EXCEPT ![active].phase = "settled", ![active].outcome = "terminated"]
  BY DEF TargetTerminated
<1> HIDE DEF t
<1>4. t[active] = tickets[active] /\ t \in Seq(TicketType) /\ Len(t) = Len(tickets)
  BY <1>0, <1>1, <1>2 DEF CancelMoves, Owned, ToSet
<1> DEFINE u == [t[active] EXCEPT !.phase = "settled", !.outcome = "terminated"]
<1>5. u \in TicketType /\ Same(u, tickets[active]) /\ u.phase = "settled"
  BY <1>0, <1>4 DEF TicketType, Outcomes, Same
<1>6. tickets' = [t EXCEPT ![active] = u]
  BY <1>0, <1>3, <1>4 DEF TicketType
<1> HIDE DEF u
<1>7. /\ tickets' \in Seq(TicketType) /\ Len(tickets') = Len(tickets)
      /\ \A j \in 1 .. Len(tickets) : tickets'[j] = IF j = active THEN u ELSE t[j]
  BY <1>0, <1>4, <1>5, <1>6, ExceptSeq
<1>8. ASSUME NEW j \in 1 .. Len(tickets)
      PROVE  /\ Same(tickets'[j], tickets[j])
             /\ tickets'[j] = tickets[j] \/ tickets'[j].phase = "settled"
  <2>1. CASE j = active
    BY <1>5, <1>7, <2>1
  <2>2. CASE j # active
    <3>1. tickets'[j] = t[j]
      BY <1>7, <2>2
    <3>2. IF j \in Queued THEN Same(t[j], tickets[j]) /\ t[j].phase = "settled"
          ELSE t[j] = tickets[j]
      BY <1>2 DEF CancelMoves
    <3> QED BY <3>1, <3>2 DEF Same
  <2> QED BY <2>1, <2>2
<1>9. /\ kernel' \in KernelType /\ kernel'.at = "gone" /\ kernel'.current = 0
      /\ kernel'.id = kernel.id /\ kernel'.code = kernel.code
      /\ kernel'.done = kernel.done /\ kernel'.stop = kernel.stop
  <2>1. kernel' = [kernel EXCEPT !.at = "gone", !.current = 0]
    BY DEF TargetTerminated
  <2>2. 0 \in 0 .. MaxCommands
    BY BoundsAssumption
  <2> QED BY <1>0, <2>1, <2>2 DEF KernelType
<1>10. /\ queue' = <<>> /\ active' = 0 /\ worker' = IdleWorker
       /\ UNCHANGED <<commandVars, publicationVars, stopVars, ran>>
  BY DEF TargetTerminated
<1>11. tickets'[active].phase = "settled"
  BY <1>0, <1>5, <1>7
<1> QED BY <1>0, <1>7, <1>8, <1>9, <1>10, <1>11 DEF Closed

LEMMA ExitKeepsArbiter ==
    ASSUME Typed, Owned, Fenced, TargetTerminated PROVE ArbiterTyped' /\ Owned' /\ Fenced'
<1>1. /\ tickets' \in Seq(TicketType) /\ Len(tickets') = Len(tickets)
      /\ \A j \in 1 .. Len(tickets) : Same(tickets'[j], tickets[j])
      /\ \A j \in 1 .. Len(tickets) : tickets'[j] = tickets[j] \/ tickets'[j].phase = "settled"
      /\ tickets'[active].phase = "settled" /\ queue' = <<>> /\ active' = 0
      /\ worker' = IdleWorker /\ Closed'
      /\ UNCHANGED <<commandVars, publicationVars, stopVars, ran>>
  BY ExitMoves
<1>2. Len(tickets) \in Nat /\ Len(tickets) <= MaxTickets /\ 0 \notin 1 .. Len(tickets)
  BY DEF Typed, ArbiterTyped
<1>3. IdleWorker \in WorkerType /\ IdleWorker.step = "none"
  BY BoundsAssumption DEF IdleWorker, WorkerType, WorkerSteps, NoRecord, Record
<1>4. ArbiterTyped'
  <2>1. active' \in 0 .. Len(tickets') /\ queue' \in Seq(Nat)
    BY <1>1, <1>2
  <2> QED BY <1>1, <1>2, <1>3, <2>1, SameKeeps DEF ArbiterTyped
<1>5. Owned'
  <2>1. \A i \in 1 .. Len(tickets') : tickets'[i].phase \in {"running", "unknown"} <=> i = active'
    BY <1>1, <1>2 DEF Owned
  <2>2. Distinct(queue') /\ DOMAIN queue' = {}
    BY <1>1 DEF Distinct
  <2>3. ~Runs' /\ worker'.step = "none"
    BY <1>1, <1>3 DEF Runs
  <2> QED BY <1>1, <2>1, <2>2, <2>3, SameKeeps DEF Owned
<1>6. Fenced'
  BY <1>1 DEF Fenced
<1> QED BY <1>4, <1>5, <1>6

-----------------------------------------------------------------------------
(* Control: where the worker, the command, its scope and the kernel stand.  *)

MainPhase == ops[main].phase

\* The tickets that may still act on the route: those of the queue, and the active one before
\* its Continue.
Standing(i) == i \in ToSet(queue) \/ (i = active /\ worker.step \in Pre)

\* What the route of a ticket stands for.
Belongs(i) ==
    /\ tickets[i].kind = "main" => scope = NoScope /\ MainPhase = "admitted"
    /\ tickets[i].kind = "resume" =>
          scope.context = "ready" /\ MainPhase = "suspended_capture" /\ i = resume
    /\ tickets[i].kind = "debug" => scope = NoScope /\ MainPhase # "admitted"

Routed ==
    /\ worker.step \in Pre => tickets[active].epoch = epoch
    /\ \A i \in 1 .. Len(tickets) : Standing(i) /\ tickets[i].epoch = epoch => Belongs(i)

\* A scope is of the current command, which is paused at CAPTURE only in one.
Scopes ==
    /\ scope.seq <= stops
    /\ scope.seq = 0 => scope = NoScope
    /\ scope.seq # 0 => main # 0 /\ scope.op = main
    /\ main # 0 /\ MainPhase = "suspended_capture" => scope.seq # 0
    /\ \A c \in 1 .. Len(ops) :
          ops[c].phase \in {"suspended_capture", "suspended_user"} => ops[c].pending # 0

\* What each step of the plan has behind it.
Steps ==
    LET step == worker.step
        kind == tickets[active].kind
        yields == worker.yields
    IN  /\ step \in {"prepare", "code", "id"} => kind = "main"
        /\ step = "writeback" => kind = "resume"
        /\ step \in {"id", "continue"} /\ kind = "main" =>
              kernel.code = main /\ tickets[active].ever
        /\ step = "continue" /\ kind = "main" => kernel.id = main
        /\ step \in {"sent", "unsent"} =>
              /\ MainPhase = "unknown"
              /\ IF kind = "resume" THEN scope.context = "ready" ELSE scope = NoScope
        /\ step \in {"await", "read"} => MainPhase = "running" /\ scope = NoScope
        /\ step = "read" => kernel.at = "service"
        /\ step = "values" => MainPhase = "completed"
        /\ step = "open" =>
              MainPhase = "suspended_capture" /\ scope.context = "opening" /\ scope.seq = stops
        /\ step \in {"policy", "record"} =>
              /\ yields # "none"
              /\ yields = "completed" => MainPhase = "completed"
              /\ yields = "debug" => MainPhase = "suspended_user"
              /\ yields = "unrecognised" => MainPhase = "unknown"
              /\ yields = "captured" =>
                    /\ MainPhase = "suspended_capture" /\ scope.context = "ready"
                    /\ scope.frame = "confirmed" /\ scope.seq = stops
        /\ step = "record" => yields # "unrecognised"

\* The loop in 1C. Fields that it has not run yet are those of the active MAIN ticket, which
\* has not entered Continue or is unknown.
Kernel ==
    /\ main = 0 \/ MainPhase \in TerminalPhases \cup {"admitted"} =>
          kernel.at \in {"service", "gone"}
    /\ kernel.at \in {"service", "gone"} => kernel.current = 0
    /\ kernel.at \in {"capture", "user", "other"} => kernel.current # 0
    /\ kernel.current # 0 =>
          /\ kernel.current = main /\ kernel.id = main
          /\ MainPhase \in {"unknown", "running", "suspended_capture", "suspended_user"}
    /\ kernel.done <= kernel.id /\ kernel.id <= Len(ops)
    /\ kernel.current = 0 /\ kernel.id > kernel.done /\ ~Closed =>
          /\ kernel.at = "service" /\ active # 0 /\ kernel.id = main /\ kernel.code = main
          /\ tickets[active].kind = "main"
          /\ worker.step \in {"continue", "unsent"} \/ tickets[active].phase = "unknown"

\* What ran was the current command of its time, with its own code, after Continue.
Ran ==
    /\ \A pair \in ran : /\ pair[1] = pair[2] /\ pair[1] \in 1 .. Len(ops)
                         /\ ops[pair[1]].attempted
    /\ \A c \in 1 .. Len(ops) : ops[c].attempted => ops[c].phase # "admitted"

Control == Routed /\ Scopes /\ Steps /\ Kernel /\ Ran
Inv == Typed /\ Owned /\ Fenced /\ Control

-----------------------------------------------------------------------------
(* What the steps of the plan share.                                        *)

\* What a step does to one command.
OpMoves(c, phase, attempted, pending) ==
    /\ ops' \in Seq(OpType) /\ Len(ops') = Len(ops)
    /\ \A d \in 1 .. Len(ops) : d # c => ops'[d] = ops[d]
    /\ ops'[c].phase = phase /\ ops'[c].attempted = attempted /\ ops'[c].pending = pending

LEMMA ExceptOp ==
    ASSUME ops \in Seq(OpType), NEW c \in 1 .. Len(ops), NEW o \in OpType,
           ops' = [ops EXCEPT ![c] = o]
    PROVE  OpMoves(c, o.phase, o.attempted, o.pending)
BY ExceptSeq DEF OpMoves

\* While the active ticket runs, it is of the current command.
LEMMA Running ==
    ASSUME Inv, Runs
    PROVE  /\ active \in 1 .. Len(tickets) /\ tickets \in Seq(TicketType)
           /\ tickets[active] \in TicketType /\ tickets[active].op = main
           /\ main \in 1 .. Len(ops) /\ main \in 1 .. MaxCommands /\ main # 0
           /\ ops \in Seq(OpType) /\ ops[main] \in OpType
           /\ scope \in ScopeType /\ stops \in 0 .. MaxStops /\ worker \in WorkerType
           /\ kernel \in KernelType /\ ~Closed /\ worker.step # "none"
<1>1. /\ active \in 1 .. Len(tickets) /\ tickets \in Seq(TicketType)
      /\ scope \in ScopeType /\ stops \in 0 .. MaxStops /\ worker \in WorkerType
      /\ kernel \in KernelType /\ ~Closed /\ worker.step # "none"
      /\ ops \in Seq(OpType) /\ main \in {0, Len(ops)} /\ Len(ops) <= MaxCommands
      /\ tickets[active].op = main
  BY DEF Inv, Runs, Typed, ArbiterTyped, CommandsTyped, KernelTyped, Owned, Fenced
<1>2. tickets[active] \in TicketType
  BY <1>1
<1>3. main \in 1 .. MaxCommands
  BY <1>1, <1>2 DEF TicketType
<1>4. main \in 1 .. Len(ops) /\ main # 0
  BY <1>1, <1>3, BoundsAssumption
<1>5. ops[main] \in OpType
  BY <1>1, <1>4
<1> QED BY <1>1, <1>2, <1>3, <1>4, <1>5

\* The command of the active ticket is untouched.
LEMMA SameOps ==
    ASSUME Inv, Runs, ops' = ops
    PROVE  OpMoves(main, MainPhase, ops[main].attempted, ops[main].pending)
BY Running DEF OpMoves, MainPhase

\* Of the tickets that wait behind one that has not continued, only those to resume a debug
\* stop are of the current route, and only behind another of their kind.
LEMMA Behind ==
    ASSUME Inv, worker.step \in Pre, NEW i \in ToSet(queue), tickets[i].epoch = epoch
    PROVE  tickets[i].kind = "debug" /\ tickets[active].kind = "debug"
<1>1. Runs /\ tickets[active].epoch = epoch /\ Standing(active) /\ Standing(i)
  BY DEF Inv, Control, Routed, Owned, Pre, Standing
<1>2. active \in 1 .. Len(tickets) /\ tickets[active] \in TicketType /\ tickets[active].op = main
  BY <1>1, Running
<1>3. /\ i \in 1 .. Len(tickets) /\ tickets[i].phase = "queued" /\ tickets[i].op = main
  BY DEF Inv, Owned, ToSet
<1>4. tickets[i] \in TicketType /\ i # active
  BY <1>1, <1>3 DEF Inv, Typed, ArbiterTyped, Runs
<1>5. Belongs(i) /\ Belongs(active)
  BY <1>1, <1>2, <1>3 DEF Inv, Control, Routed
<1>6. ~(tickets[i].kind = "main" /\ tickets[active].kind = "main")
  BY <1>2, <1>3, <1>4 DEF Inv, Owned
<1>7. scope = NoScope => scope.context # "ready"
  BY DEF NoScope
<1>8. tickets[i].kind \in Kinds /\ tickets[active].kind \in Kinds
  BY <1>2, <1>4 DEF TicketType
<1> QED BY <1>4, <1>5, <1>6, <1>7, <1>8 DEF Belongs, Kinds

\* The routing of what still stands, when nothing else comes to stand.
LEMMA RouteKept ==
    ASSUME Inv, tickets' \in Seq(TicketType), Len(tickets') = Len(tickets),
           \A j \in 1 .. Len(tickets) : Same(tickets'[j], tickets[j]),
           \A i \in 1 .. Len(tickets) : Standing(i)' => Standing(i),
           worker'.step \in Pre => tickets'[active'].epoch = epoch',
           epoch' \in Nat,
           \/ epoch < epoch'
           \/ epoch' = epoch /\ scope' = scope /\ resume' = resume /\ MainPhase' = MainPhase
           \/ /\ epoch' = epoch /\ worker'.step \notin Pre /\ queue' = queue
              /\ \A i \in ToSet(queue) : tickets[i].epoch = epoch =>
                    tickets[i].kind = "debug" /\ scope' = NoScope /\ MainPhase' # "admitted"
    PROVE  Routed'
<1>0. /\ Len(tickets) \in Nat /\ epoch \in Nat
      /\ \A i \in 1 .. Len(tickets) : tickets[i].epoch <= epoch /\ tickets[i] \in TicketType
  BY DEF Inv, Typed, ArbiterTyped, CommandsTyped
<1> SUFFICES ASSUME NEW i \in 1 .. Len(tickets), Standing(i)', tickets'[i].epoch = epoch'
             PROVE  Belongs(i)'
  BY DEF Routed
<1>1. /\ tickets'[i].kind = tickets[i].kind /\ tickets'[i].epoch = tickets[i].epoch
      /\ tickets[i].epoch <= epoch /\ tickets[i].epoch \in Nat
  BY <1>0 DEF Same, TicketType
<1>2. epoch' = epoch
  BY <1>0, <1>1
<1>3. CASE scope' = scope /\ resume' = resume /\ MainPhase' = MainPhase
  BY <1>1, <1>2, <1>3 DEF Inv, Control, Routed, Belongs
<1>4. CASE /\ worker'.step \notin Pre /\ queue' = queue
           /\ \A k \in ToSet(queue) : tickets[k].epoch = epoch =>
                 tickets[k].kind = "debug" /\ scope' = NoScope /\ MainPhase' # "admitted"
  <2>1. i \in ToSet(queue)
    BY <1>4 DEF Standing
  <2> QED BY <1>1, <1>2, <1>4, <2>1 DEF Belongs
<1> QED BY <1>0, <1>2, <1>3, <1>4

\* What ran stays what it is while commands keep their Continue and none that entered it
\* becomes one that did not.
LEMMA RanKept ==
    ASSUME Inv, NEW phase, NEW attempted, NEW pending, main \in 1 .. Len(ops),
           OpMoves(main, phase, attempted, pending),
           ops[main].attempted => attempted, attempted => phase # "admitted",
           \/ ran' = ran
           \/ ran' = ran \cup {<<kernel.id, kernel.code>>} /\ kernel.id = main /\ kernel.code = main
                /\ attempted
    PROVE  Ran'
<1>1. \A c \in 1 .. Len(ops) : ops[c].attempted => ops'[c].attempted
  BY DEF OpMoves
<1>2. /\ \A pair \in ran : /\ pair[1] = pair[2] /\ pair[1] \in 1 .. Len(ops)
                           /\ ops[pair[1]].attempted
      /\ \A c \in 1 .. Len(ops) : ops[c].attempted => ops[c].phase # "admitted"
  BY DEF Inv, Control, Ran
<1>3. \A pair \in ran' : pair[1] = pair[2] /\ pair[1] \in 1 .. Len(ops') /\ ops'[pair[1]].attempted
  <2> SUFFICES ASSUME NEW pair \in ran'
               PROVE  pair[1] = pair[2] /\ pair[1] \in 1 .. Len(ops') /\ ops'[pair[1]].attempted
    OBVIOUS
  <2>1. CASE pair \in ran
    BY <1>1, <1>2, <2>1 DEF OpMoves
  <2>2. CASE pair = <<main, main>> /\ attempted
    BY <2>2 DEF OpMoves
  <2> QED BY <2>1, <2>2
<1>4. \A c \in 1 .. Len(ops') : ops'[c].attempted => ops'[c].phase # "admitted"
  BY <1>2 DEF OpMoves
<1> QED BY <1>3, <1>4 DEF Ran

\* Suspended commands keep the stop that they name.
LEMMA PendingKept ==
    ASSUME Inv, NEW phase, NEW attempted, NEW pending, main \in 1 .. Len(ops),
           OpMoves(main, phase, attempted, pending),
           phase \in {"suspended_capture", "suspended_user"} => pending # 0
    PROVE  \A c \in 1 .. Len(ops') :
              ops'[c].phase \in {"suspended_capture", "suspended_user"} => ops'[c].pending # 0
BY DEF Inv, Control, Scopes, OpMoves

\* The fields of a command may be newer than what the kernel ran.
Unsent ==
    worker.step = "unsent" \/ (worker.step = "continue" /\ tickets[active].kind = "main")

\* A plan that halts leaves its ticket unknown, or settles it.
Halts(phase) ==
    /\ worker'.step = "none" /\ queue' = queue /\ main' = main /\ stops' = stops
    /\ epoch' = epoch /\ resume' = resume /\ ran' = ran
    /\ tickets' \in Seq(TicketType) /\ Len(tickets') = Len(tickets)
    /\ \A j \in 1 .. Len(tickets) : Same(tickets'[j], tickets[j])
    /\ \/ active' = active /\ tickets'[active].phase = "unknown"
       \/ active' = 0 /\ ~Unsent
    /\ OpMoves(main, phase, ops[main].attempted, ops[main].pending)
    /\ \/ phase = MainPhase
       \/ /\ worker.step \in Pre /\ tickets[active].kind = "main"
          /\ phase \in {"failed_before_dispatch", "unknown"}
    /\ scope' \in ScopeType
    /\ \/ scope' = scope
       \/ /\ scope'.seq = scope.seq /\ scope'.op = scope.op /\ scope.seq # 0
          /\ MainPhase = "unknown" \/ scope.context = "opening"
    /\ kernel'.at = kernel.at /\ kernel'.current = kernel.current /\ kernel'.done = kernel.done
    /\ \/ kernel'.id = kernel.id /\ (kernel'.code = kernel.code \/ worker.step = "code")
       \/ /\ kernel'.id = main /\ kernel'.code = kernel.code /\ worker.step = "id"
          /\ active' = active

LEMMA HaltsKeep == ASSUME Inv, Runs, NEW phase, Halts(phase) PROVE Control'
<1>1. /\ active \in 1 .. Len(tickets) /\ tickets[active].op = main
      /\ main \in 1 .. Len(ops) /\ main # 0 /\ scope \in ScopeType /\ worker.step # "none"
      /\ kernel \in KernelType /\ ~Closed
  BY Running
<1>2. MainPhase' = phase /\ worker'.step = "none" /\ worker'.step \notin Pre
  BY <1>1 DEF Halts, OpMoves, MainPhase, Pre
<1>3. worker.step \in Pre /\ tickets[active].kind = "main" =>
          scope = NoScope /\ MainPhase = "admitted"
  <2>1. worker.step \in Pre => Standing(active) /\ tickets[active].epoch = epoch
    BY DEF Standing, Inv, Control, Routed
  <2> QED BY <1>1, <2>1 DEF Inv, Control, Routed, Belongs
<1>4. Routed'
  <2>1. epoch \in Nat /\ epoch' = epoch
    BY DEF Halts, Inv, Typed, CommandsTyped
  <2>2. \A i \in 1 .. Len(tickets) : Standing(i)' => Standing(i)
    BY <1>2 DEF Halts, Standing
  <2>3. CASE scope' = scope /\ phase = MainPhase
    BY <1>2, <2>1, <2>2, <2>3, RouteKept DEF Halts
  <2>4. CASE worker.step \in Pre /\ tickets[active].kind = "main"
    BY <1>2, <2>1, <2>2, <2>4, RouteKept, Behind DEF Halts
  <2>5. CASE /\ scope'.seq = scope.seq /\ scope.seq # 0 /\ phase = MainPhase
             /\ MainPhase = "unknown" \/ scope.context = "opening"
    <3>1. \A i \in ToSet(queue) : tickets[i].epoch # epoch
      <4> SUFFICES ASSUME NEW i \in ToSet(queue), tickets[i].epoch = epoch PROVE FALSE
        OBVIOUS
      <4>1. i \in 1 .. Len(tickets) /\ Standing(i)
        BY DEF Inv, Owned, ToSet, Standing
      <4>2. Belongs(i) /\ tickets[i] \in TicketType
        BY <4>1 DEF Inv, Control, Routed, Typed, ArbiterTyped
      <4>3. scope # NoScope /\ (scope.context = "ready" => MainPhase = "unknown")
        BY <2>5 DEF NoScope
      <4> QED BY <4>2, <4>3 DEF Belongs, TicketType, Kinds
    <3> QED BY <1>2, <2>1, <2>2, <3>1, RouteKept DEF Halts
  <2> QED BY <2>3, <2>4, <2>5, <1>3 DEF Halts, NoScope
<1>5. Scopes'
  <2>1. \A c \in 1 .. Len(ops') :
            ops'[c].phase \in {"suspended_capture", "suspended_user"} => ops'[c].pending # 0
    <3>1. MainPhase \in {"suspended_capture", "suspended_user"} => ops[main].pending # 0
      BY <1>1 DEF Inv, Control, Scopes, MainPhase
    <3>2. phase \in {"suspended_capture", "suspended_user"} => ops[main].pending # 0
      BY <3>1 DEF Halts
    <3> QED BY <1>1, <3>2, PendingKept DEF Halts
  <2>2. scope'.seq = scope.seq /\ scope'.op = scope.op /\ (scope.seq = 0 => scope' = scope)
    BY DEF Halts
  <2>3. phase = "suspended_capture" => MainPhase = "suspended_capture"
    BY DEF Halts
  <2> QED BY <1>2, <2>1, <2>2, <2>3 DEF Inv, Control, Scopes, Halts
<1>6. Steps'
  BY <1>2 DEF Steps, Pre
<1>7. Kernel'
  <2>1. kernel.at \in {"service", "gone"} \/ phase = MainPhase
    BY <1>1, <1>3 DEF Halts, Inv, Control, Kernel
  <2>2. kernel'.at = kernel.at /\ kernel'.current = kernel.current /\ kernel'.done = kernel.done
        /\ main' = main /\ (Closed' <=> Closed)
    BY DEF Halts, Closed
  <2>3. phase \in TerminalPhases \cup {"admitted"} => kernel.at \in {"service", "gone"}
    BY <1>1, <2>1 DEF Inv, Control, Kernel
  <2>4. kernel.current # 0 => /\ kernel.current = main /\ kernel'.id = main
                              /\ phase \in {"unknown", "running", "suspended_capture", "suspended_user"}
    BY <2>1 DEF Halts, Inv, Control, Kernel
  <2>5. kernel'.done <= kernel'.id /\ kernel'.id <= Len(ops')
    <3>1. /\ kernel.done <= kernel.id /\ kernel.id <= Len(ops) /\ main = Len(ops)
          /\ Len(ops') = Len(ops) /\ main \in Nat /\ kernel.id \in Nat /\ kernel.done \in Nat
      <4>1. main = Len(ops) /\ Len(ops) \in Nat
        BY <1>1 DEF Inv, Typed, CommandsTyped
      <4>2. Len(ops') = Len(ops) /\ kernel.id \in Nat /\ kernel.done \in Nat
        BY <1>1, BoundsAssumption DEF Halts, OpMoves, KernelType
      <4> QED BY <4>1, <4>2 DEF Inv, Control, Kernel
    <3>2. kernel'.done = kernel.done /\ kernel'.id \in {kernel.id, main}
      BY DEF Halts
    <3> QED BY <3>1, <3>2
  <2>6. kernel.current = 0 /\ kernel'.id > kernel'.done /\ ~Closed =>
          /\ kernel.at = "service" /\ active' # 0 /\ kernel'.id = main /\ kernel'.code = main
          /\ tickets'[active'].kind = "main" /\ tickets'[active'].phase = "unknown"
    <3> SUFFICES ASSUME kernel.current = 0, kernel'.id > kernel'.done
                 PROVE  /\ kernel.at = "service" /\ active' # 0 /\ kernel'.id = main
                        /\ kernel'.code = main /\ tickets'[active'].kind = "main"
                        /\ tickets'[active'].phase = "unknown"
      OBVIOUS
    <3>1. /\ active' # 0 => active' = active /\ tickets'[active'].phase = "unknown"
          /\ tickets'[active].kind = tickets[active].kind
      BY <1>1 DEF Halts, Same
    <3>2. CASE kernel'.id = kernel.id /\ (kernel'.code = kernel.code \/ worker.step = "code")
      <4>1. kernel.id > kernel.done
        BY <2>2, <3>2
      <4>2. /\ kernel.at = "service" /\ kernel.id = main /\ kernel.code = main
            /\ tickets[active].kind = "main" /\ worker.step \in {"continue", "unsent"}
        BY <1>1, <4>1 DEF Inv, Control, Kernel, Runs
      <4>3. active' # 0
        BY <4>2 DEF Halts, Runs, Unsent
      <4> QED BY <3>1, <3>2, <4>2, <4>3
    <3>3. CASE kernel'.id = main /\ kernel'.code = kernel.code /\ worker.step = "id" /\ active' = active
      <4>1. tickets[active].kind = "main" /\ kernel.code = main
        BY <3>3 DEF Inv, Control, Steps
      <4>2. kernel.at = "service"
        BY <1>1, <1>3, <3>3, <4>1 DEF Inv, Control, Kernel, Closed, Pre
      <4> QED BY <1>1, <3>1, <3>3, <4>1, <4>2
    <3> QED BY <3>2, <3>3 DEF Halts
  <2> QED BY <1>2, <2>2, <2>3, <2>4, <2>5, <2>6 DEF Inv, Control, Kernel
<1>8. Ran'
  <2>1. ops[main].attempted => MainPhase # "admitted" /\ ~(worker.step \in Pre /\ tickets[active].kind = "main")
    BY <1>1, <1>3 DEF Inv, Control, Ran, MainPhase
  <2>2. ops[main].attempted => phase # "admitted"
    BY <2>1 DEF Halts
  <2> QED BY <1>1, <2>2, RanKept DEF Halts
<1> QED BY <1>4, <1>5, <1>6, <1>7, <1>8 DEF Control

LEMMA PlanKeepsTypes ==
    ASSUME Inv, PlanMoves, NEW phase, NEW attempted, NEW pending,
           OpMoves(main, phase, attempted, pending), scope' \in ScopeType,
           stops' \in 0 .. MaxStops, resume' \in 0 .. Len(tickets), PublicationTyped',
           proof' = proof, kernel' \in KernelType, ran' \subseteq Nat \X Nat, StopsCounted'
    PROVE  Typed' /\ Owned' /\ Fenced'
<1>1. ArbiterTyped' /\ Owned' /\ Fenced'
  BY PlanKeepsArbiter DEF Inv
<1>2. KernelTyped'
  BY DEF KernelTyped, Inv, Typed, PlanMoves
<1>3. CommandsTyped'
  <2>1. Len(tickets') = Len(tickets)
    BY DEF PlanMoves, TicketMoves
  <2>2. epoch' \in Nat /\ main' = main /\ Len(ops') = Len(ops) /\ ops' \in Seq(OpType)
    BY DEF PlanMoves, OpMoves
  <2> QED BY <2>1, <2>2 DEF CommandsTyped, Inv, Typed
<1> QED BY <1>1, <1>2, <1>3 DEF Typed

\* How a plan ends.
Ends == GoesUnknown \/ \E outcome \in {"value", "error", "cancelled"} : Settles(outcome)

LEMMA EndMoves ==
    ASSUME Inv, Runs, Ends
    PROVE  /\ queue' = queue /\ worker' = IdleWorker /\ worker' \in WorkerType
           /\ worker'.step = "none"
           /\ tickets' \in Seq(TicketType) /\ Len(tickets') = Len(tickets)
           /\ \A j \in 1 .. Len(tickets) : Same(tickets'[j], tickets[j])
           /\ \/ /\ active' = active /\ tickets'[active].phase = "unknown"
                 /\ TicketMoves(active, "unknown", tickets[active].outcome) /\ GoesUnknown
              \/ /\ active' = 0
                 /\ \E outcome \in Outcomes \ {"terminated"} :
                       TicketMoves(active, "settled", outcome)
<1>1. IdleWorker \in WorkerType /\ IdleWorker.step = "none"
  BY BoundsAssumption DEF IdleWorker, WorkerType, WorkerSteps, NoRecord, Record
<1>2. CASE GoesUnknown
  <2>1. /\ TicketMoves(active, "unknown", tickets[active].outcome)
        /\ worker' = IdleWorker /\ queue' = queue /\ active' = active
    BY <1>2, GoneUnknown DEF Inv
  <2> QED BY <1>1, <1>2, <2>1 DEF TicketMoves, Same
<1>3. CASE \E outcome \in {"value", "error", "cancelled"} : Settles(outcome)
  <2>1. PICK outcome \in {"value", "error", "cancelled"} : Settles(outcome)
    BY <1>3
  <2>2. outcome \in Outcomes \ {"terminated"}
    BY DEF Outcomes
  <2>3. /\ TicketMoves(active, "settled", outcome)
        /\ worker' = IdleWorker /\ queue' = queue /\ active' = 0
    BY <2>1, <2>2, Settled DEF Inv
  <2> QED BY <1>1, <2>2, <2>3 DEF TicketMoves, Same
<1> QED BY <1>2, <1>3 DEF Ends

LEMMA EndsKeep ==
    ASSUME Inv, Runs, Ends, NEW phase,
           GoesUnknown \/ ~Unsent,
           OpMoves(main, phase, ops[main].attempted, ops[main].pending),
           \/ phase = MainPhase
           \/ /\ worker.step \in Pre /\ tickets[active].kind = "main"
              /\ phase \in {"failed_before_dispatch", "unknown"},
           scope' \in ScopeType,
           \/ scope' = scope
           \/ /\ scope'.seq = scope.seq /\ scope'.op = scope.op /\ scope.seq # 0
              /\ MainPhase = "unknown" \/ scope.context = "opening",
           UNCHANGED <<main, stops, epoch, resume, stopVars, ran>>, PublicationTyped',
           kernel' \in KernelType, kernel'.at = kernel.at, kernel'.current = kernel.current,
           kernel'.done = kernel.done, kernel'.stop = kernel.stop,
           \/ kernel'.id = kernel.id /\ (kernel'.code = kernel.code \/ worker.step = "code")
           \/ /\ kernel'.id = main /\ kernel'.code = kernel.code /\ worker.step = "id"
              /\ GoesUnknown
    PROVE  Inv'
<1>1. /\ queue' = queue /\ worker' \in WorkerType /\ worker'.step = "none"
      /\ tickets' \in Seq(TicketType) /\ Len(tickets') = Len(tickets)
      /\ \A j \in 1 .. Len(tickets) : Same(tickets'[j], tickets[j])
      /\ \/ /\ active' = active /\ tickets'[active].phase = "unknown"
            /\ TicketMoves(active, "unknown", tickets[active].outcome) /\ GoesUnknown
         \/ /\ active' = 0
            /\ \E outcome \in Outcomes \ {"terminated"} : TicketMoves(active, "settled", outcome)
  BY EndMoves
<1>2. ~Closed
  BY Running
<1>3. active # 0 /\ (GoesUnknown => active' = active)
  BY DEF Runs, GoesUnknown
<1>4. Halts(phase)
  BY <1>1, <1>3 DEF Halts
<1>5. Control'
  BY <1>4, HaltsKeep
<1>6. PlanMoves
  <2>1. epoch' \in Nat /\ epoch <= epoch'
    BY DEF Inv, Typed, CommandsTyped
  <2>2. kernel'.at # "gone" /\ stopper' = stopper /\ main' = main /\ Len(ops') = Len(ops)
    BY <1>2 DEF Closed, OpMoves
  <2> QED BY <1>1, <2>1, <2>2 DEF PlanMoves
<1>7. StopsCounted'
  BY <1>1 DEF StopsCounted, Inv, Typed
<1>8. /\ stops' \in 0 .. MaxStops /\ resume' \in 0 .. Len(tickets) /\ ran' \subseteq Nat \X Nat
      /\ proof' = proof
  BY DEF Inv, Typed, CommandsTyped, KernelTyped
<1>9. Typed' /\ Owned' /\ Fenced'
  BY <1>6, <1>7, <1>8, PlanKeepsTypes
<1> QED BY <1>5, <1>9 DEF Inv

LEMMA PhaseMoves ==
    ASSUME Inv, Runs, NEW phase \in Phases, Becomes(phase)
    PROVE  OpMoves(main, phase, ops[main].attempted, ops[main].pending)
<1>1. main \in 1 .. Len(ops) /\ ops \in Seq(OpType) /\ ops[main] \in OpType /\ Active.op = main
  BY Running DEF Active
<1> DEFINE o == [ops[main] EXCEPT !.phase = phase]
<1>2. /\ o \in OpType /\ o.phase = phase /\ o.attempted = ops[main].attempted
      /\ o.pending = ops[main].pending
  BY <1>1 DEF OpType
<1>3. ops' = [ops EXCEPT ![main] = o]
  BY <1>1 DEF Becomes
<1> HIDE DEF o
<1> QED BY <1>1, <1>2, <1>3, ExceptOp

LEMMA PreStands ==
    ASSUME Inv, worker.step \in Pre
    PROVE  /\ Runs /\ tickets[active].epoch = epoch /\ Belongs(active)
           /\ Standing(active)
<1>1. Runs /\ tickets[active].epoch = epoch /\ Standing(active)
  BY DEF Inv, Control, Routed, Owned, Pre, Standing
<1>2. active \in 1 .. Len(tickets)
  BY <1>1, Running
<1> QED BY <1>1, <1>2 DEF Inv, Control, Routed

LEMMA FailMoves ==
    ASSUME Inv, Runs, worker.step \in EntrySteps, FailsCommand
    PROVE  \E phase : /\ OpMoves(main, phase, ops[main].attempted, ops[main].pending)
                      /\ \/ phase = MainPhase
                         \/ /\ worker.step \in Pre /\ tickets[active].kind = "main"
                            /\ phase = "failed_before_dispatch"
<1>1. CASE tickets[active].kind # "main"
  BY <1>1, SameOps DEF FailsCommand, Active
<1>2. CASE tickets[active].kind = "main"
  <2>1. Becomes(AfterFailure(MainPhase))
    BY <1>2, Running DEF FailsCommand, Active, Op, MainPhase
  <2>2. AfterFailure(MainPhase) \in Phases
    BY Running DEF AfterFailure, MainPhase, OpType, Phases
  <2>3. OpMoves(main, AfterFailure(MainPhase), ops[main].attempted, ops[main].pending)
    BY <2>1, <2>2, PhaseMoves
  <2>4. MainPhase = "admitted" => worker.step \in Pre
    BY DEF EntrySteps, Pre, Inv, Control, Steps
  <2> QED BY <1>2, <2>3, <2>4 DEF AfterFailure
<1> QED BY <1>1, <1>2

LEMMA SamePublication == ASSUME Inv, UNCHANGED publicationVars PROVE PublicationTyped'
BY DEF Inv, Typed, PublicationTyped

LEMMA SameKernel ==
    ASSUME Inv, kernel' = kernel
    PROVE  /\ kernel' \in KernelType /\ kernel'.at = kernel.at /\ kernel'.current = kernel.current
           /\ kernel'.done = kernel.done /\ kernel'.stop = kernel.stop /\ kernel'.id = kernel.id
           /\ kernel'.code = kernel.code
BY DEF Inv, Typed, KernelTyped

LEMMA BlockedKeeps == ASSUME Inv, Blocked PROVE Inv'
<1>1. Runs /\ worker.step \in EntrySteps
  BY DEF Blocked, Runs, Active
<1>2. /\ scope \in ScopeType /\ main \in 1 .. Len(ops)
  BY <1>1, Running
<1>3. /\ UNCHANGED <<main, stops, epoch, resume, stopVars, ran>> /\ kernel' = kernel
      /\ UNCHANGED publicationVars
  BY DEF Blocked
<1>4. /\ scope' \in ScopeType
      /\ \/ scope' = scope
         \/ /\ scope'.seq = scope.seq /\ scope'.op = scope.op /\ scope.seq # 0
            /\ MainPhase = "unknown" \/ scope.context = "opening"
  <2>1. CASE scope' = scope
    BY <1>2, <2>1
  <2>2. CASE worker.step = "open" /\ scope' = [scope EXCEPT !.frame = "confirmed"]
    <3>1. scope.context = "opening" /\ scope # NoScope
      BY <2>2 DEF Inv, Control, Steps, NoScope
    <3>2. scope.seq # 0
      BY <3>1 DEF Inv, Control, Scopes
    <3> QED BY <1>2, <2>2, <3>1, <3>2 DEF ScopeType
  <2> QED BY <2>1, <2>2 DEF Blocked
<1>5. PICK phase :
          /\ OpMoves(main, phase, ops[main].attempted, ops[main].pending)
          /\ \/ phase = MainPhase
             \/ /\ worker.step \in Pre /\ tickets[active].kind = "main"
                /\ phase = "failed_before_dispatch"
  BY <1>1, SameOps, FailMoves DEF Blocked
<1>6. /\ Ends
      /\ GoesUnknown \/ ~Unsent
  <2>1. CASE tickets[active].ever
    <3>1. GoesUnknown
      BY <2>1, Zenon DEF Blocked, Active
    <3> QED BY <3>1 DEF Ends
  <2>2. CASE ~tickets[active].ever
    <3>1. Settles("cancelled")
      BY <2>2 DEF Blocked, Active
    <3>2. ~(worker.step = "continue" /\ tickets[active].kind = "main")
      BY <2>2 DEF Inv, Control, Steps
    <3> QED BY <1>1, <3>1, <3>2 DEF Ends, EntrySteps, Unsent
  <2> QED BY <2>1, <2>2
<1> QED BY <1>1, <1>3, <1>4, <1>5, <1>6, SamePublication, SameKernel, EndsKeep

\* A plan that goes on.
LEMMA OnwardMoves ==
    ASSUME Inv, Runs, tickets' = tickets \/ Entered, active' = active, queue' = queue,
           stopper' = stopper, worker' \in WorkerType, worker'.step # "none", main' = main,
           Len(ops') = Len(ops), epoch' \in Nat, epoch <= epoch', kernel'.at # "gone"
    PROVE  /\ PlanMoves
           /\ tickets' \in Seq(TicketType) /\ Len(tickets') = Len(tickets)
           /\ \A j \in 1 .. Len(tickets) : Same(tickets'[j], tickets[j])
           /\ tickets'[active'].kind = tickets[active].kind
           /\ tickets'[active'].epoch = tickets[active].epoch
           /\ tickets'[active'].phase = "running"
           /\ Entered => tickets'[active'].ever
           /\ tickets[active].ever => tickets'[active'].ever
<1>1. TicketMoves(active, "running", tickets[active].outcome)
  BY GoesOn DEF Inv
<1>2. active \in 1 .. Len(tickets) /\ tickets \in Seq(TicketType) /\ tickets[active] \in TicketType
  BY Running
<1>3. /\ Entered => tickets'[active].ever
      /\ tickets[active].ever => tickets'[active].ever
  BY <1>2 DEF Entered, TicketType
<1> QED BY <1>1, <1>2, <1>3 DEF PlanMoves, TicketMoves, Same

\* A step of the plan that leaves the command and its route as they are.
LEMMA QuietKeeps ==
    ASSUME Inv, Runs, tickets' = tickets \/ Entered, active' = active, queue' = queue,
           worker' \in WorkerType, worker'.step \notin {"none", "sent", "await"},
           worker'.step \in Pre => worker.step \in Pre,
           worker.step \notin {"continue", "unsent"},
           UNCHANGED <<commandVars, publicationVars, stopVars, ran>>,
           kernel' \in KernelType, kernel'.at = kernel.at, kernel'.current = kernel.current,
           kernel'.done = kernel.done, kernel'.stop = kernel.stop,
           \/ kernel'.id = kernel.id
           \/ /\ worker.step = "id" /\ worker'.step = "continue" /\ kernel'.id = main
              /\ kernel'.code = kernel.code,
           Steps'
    PROVE  Inv'
<1>1. /\ active \in 1 .. Len(tickets) /\ main \in 1 .. Len(ops) /\ main # 0 /\ ~Closed
      /\ worker.step # "none" /\ ops \in Seq(OpType) /\ scope \in ScopeType
  BY Running
<1>2. epoch' \in Nat /\ epoch <= epoch' /\ kernel'.at # "gone"
  BY <1>1 DEF Inv, Typed, CommandsTyped, Closed
<1>3. /\ PlanMoves
      /\ tickets' \in Seq(TicketType) /\ Len(tickets') = Len(tickets)
      /\ \A j \in 1 .. Len(tickets) : Same(tickets'[j], tickets[j])
      /\ tickets'[active'].kind = tickets[active].kind
      /\ tickets'[active'].epoch = tickets[active].epoch
  BY <1>2, OnwardMoves
<1>4. OpMoves(main, MainPhase, ops[main].attempted, ops[main].pending)
  BY SameOps
<1>5. StopsCounted'
  BY DEF StopsCounted, Inv, Typed
<1>6. Typed' /\ Owned' /\ Fenced'
  <2>1. scope' \in ScopeType /\ stops' \in 0 .. MaxStops /\ resume' \in 0 .. Len(tickets)
    BY DEF Inv, Typed, CommandsTyped
  <2>2. ran' \subseteq Nat \X Nat /\ proof' = proof
    BY DEF Inv, Typed, KernelTyped
  <2> QED BY <1>3, <1>4, <1>5, <2>1, <2>2, SamePublication, PlanKeepsTypes
<1>7. MainPhase' = MainPhase
  BY DEF MainPhase
<1>8. Routed'
  <2>1. \A i \in 1 .. Len(tickets) : Standing(i)' => Standing(i)
    BY DEF Standing
  <2>2. worker'.step \in Pre => tickets'[active'].epoch = epoch'
    BY <1>3, PreStands
  <2> QED BY <1>2, <1>3, <1>7, <2>1, <2>2, RouteKept
<1>9. Scopes'
  BY <1>7 DEF Inv, Control, Scopes
<1>10. Ran'
  BY DEF Inv, Control, Ran
<1>11. Kernel'
  <2>1. ~(kernel.current = 0 /\ kernel.id > kernel.done)
    BY <1>1 DEF Inv, Control, Kernel, Runs
  <2>2. CASE kernel'.id = kernel.id
    BY <1>7, <2>1, <2>2 DEF Inv, Control, Kernel, Closed
  <2>3. CASE /\ worker.step = "id" /\ worker'.step = "continue" /\ kernel'.id = main
             /\ kernel'.code = kernel.code
    <3>1. tickets[active].kind = "main" /\ kernel.code = main
      BY <2>3 DEF Inv, Control, Steps
    <3>2. MainPhase = "admitted"
      BY <2>3, <3>1, PreStands DEF Belongs, Pre
    <3>3. kernel.at = "service" /\ kernel.current = 0
      BY <1>1, <3>2 DEF Inv, Control, Kernel, Closed
    <3>4. main = Len(ops) /\ kernel.done \in Nat /\ kernel.id \in Nat /\ Len(ops) \in Nat
      BY <1>1, BoundsAssumption DEF Inv, Typed, CommandsTyped, KernelTyped, KernelType
    <3>5. kernel.done <= kernel.id /\ kernel.id <= Len(ops)
      BY DEF Inv, Control, Kernel
    <3>6. kernel.done <= main /\ main <= Len(ops)
      BY <3>4, <3>5
    <3> QED BY <1>1, <1>3, <1>7, <2>3, <3>1, <3>2, <3>3, <3>6 DEF Kernel, Closed, Runs
  <2> QED BY <2>2, <2>3
<1> QED BY <1>6, <1>8, <1>9, <1>10, <1>11 DEF Inv, Control

LEMMA StepTyped ==
    ASSUME Inv, NEW step \in WorkerSteps, Step(step)
    PROVE  worker' \in WorkerType /\ worker'.step = step
BY DEF Inv, Typed, ArbiterTyped, Step, WorkerType

LEMMA PrepareKeeps == ASSUME Inv, Prepare PROVE Inv'
<1>1. Runs /\ worker.step = "prepare" /\ worker.step \in Pre /\ worker.step \in EntrySteps
  BY DEF Prepare, Runs, Yet, Active, Pre, EntrySteps
<1>2. UNCHANGED <<main, scope, stops, epoch, resume, publicationVars, stopVars, kernelVars>>
  BY DEF Prepare
<1>3. CASE tickets' \in {tickets, [tickets EXCEPT ![active].ever = TRUE]} /\ Step("code")
             /\ UNCHANGED <<ops, queue, active>>
  <2>1. worker' \in WorkerType /\ worker'.step = "code"
    BY <1>3, StepTyped DEF WorkerSteps, Pre
  <2>2. tickets' = tickets \/ Entered
    BY <1>3 DEF Entered
  <2>3. Steps'
    <3>1. tickets'[active'].kind = tickets[active].kind
      <4>1. active \in 1 .. Len(tickets) /\ tickets \in Seq(TicketType) /\ tickets[active] \in TicketType
        BY <1>1, Running
      <4> QED BY <1>3, <4>1 DEF TicketType
    <3> QED BY <1>1, <2>1, <3>1 DEF Inv, Control, Steps
  <2> QED BY <1>1, <1>2, <1>3, <2>1, <2>2, <2>3, SameKernel, QuietKeeps DEF Pre
<1>4. CASE Ends /\ (UNCHANGED ops \/ FailsCommand)
  <2>1. PICK phase :
            /\ OpMoves(main, phase, ops[main].attempted, ops[main].pending)
            /\ \/ phase = MainPhase
               \/ /\ worker.step \in Pre /\ tickets[active].kind = "main"
                  /\ phase = "failed_before_dispatch"
    BY <1>1, <1>4, SameOps, FailMoves
  <2>2. ~Unsent
    BY <1>1 DEF Unsent
  <2>3. scope' = scope /\ scope' \in ScopeType
    BY <1>1, <1>2, Running
  <2> QED BY <1>1, <1>2, <1>4, <2>1, <2>2, <2>3, SamePublication, SameKernel, EndsKeep
<1> QED BY <1>3, <1>4, Zenon DEF Prepare, Ends

\* The write of a command field.
LEMMA Written ==
    ASSUME Inv, Runs, NEW field \in {"code", "id"}, kernel' = [kernel EXCEPT ![field] = Active.op]
    PROVE  /\ kernel' \in KernelType /\ kernel'.at = kernel.at /\ kernel'.current = kernel.current
           /\ kernel'.done = kernel.done /\ kernel'.stop = kernel.stop
           /\ field = "code" => kernel'.code = main /\ kernel'.id = kernel.id
           /\ field = "id" => kernel'.id = main /\ kernel'.code = kernel.code
<1>1. kernel \in KernelType /\ main \in 0 .. MaxCommands /\ Active.op = main
  BY Running DEF Active
<1>2. CASE field = "code"
  <2>1. kernel' = [kernel EXCEPT !.code = main]
    BY <1>1, <1>2
  <2> QED BY <1>1, <1>2, <2>1 DEF KernelType
<1>3. CASE field = "id"
  <2>1. kernel' = [kernel EXCEPT !.id = main]
    BY <1>1, <1>3
  <2> QED BY <1>1, <1>3, <2>1 DEF KernelType
<1> QED BY <1>2, <1>3

LEMMA WriteFails ==
    ASSUME Inv, NEW field \in {"code", "id"}, worker.step = field, Runs,
           UNCHANGED <<main, scope, stops, epoch, resume, publicationVars, stopVars, ran>>,
           \/ Settles("error") /\ FailsCommand /\ UNCHANGED kernel
           \/ /\ GoesUnknown /\ Becomes("unknown")
              /\ kernel' = [kernel EXCEPT ![field] = Active.op] \/ kernel' = kernel
    PROVE  Inv'
<1>1. /\ worker.step \in Pre /\ worker.step \in EntrySteps /\ ~Unsent
      /\ tickets[active].kind = "main"
  BY DEF Pre, EntrySteps, Unsent, Inv, Control, Steps
<1>2. scope' = scope /\ scope' \in ScopeType
  BY Running
<1>3. PublicationTyped'
  BY SamePublication
<1>4. CASE Settles("error") /\ FailsCommand /\ UNCHANGED kernel
  <2>1. PICK phase :
            /\ OpMoves(main, phase, ops[main].attempted, ops[main].pending)
            /\ \/ phase = MainPhase
               \/ /\ worker.step \in Pre /\ tickets[active].kind = "main"
                  /\ phase = "failed_before_dispatch"
    BY <1>1, <1>4, FailMoves
  <2>2. Ends
    BY <1>4 DEF Ends
  <2> QED BY <1>1, <1>2, <1>3, <1>4, <2>1, <2>2, SameKernel, EndsKeep
<1>5. CASE /\ GoesUnknown /\ Becomes("unknown")
           /\ kernel' = [kernel EXCEPT ![field] = Active.op] \/ kernel' = kernel
  <2>1. OpMoves(main, "unknown", ops[main].attempted, ops[main].pending)
    BY <1>5, PhaseMoves DEF Phases
  <2>2. Ends
    BY <1>5 DEF Ends
  <2>3. /\ kernel' \in KernelType /\ kernel'.at = kernel.at /\ kernel'.current = kernel.current
        /\ kernel'.done = kernel.done /\ kernel'.stop = kernel.stop
        /\ \/ kernel'.id = kernel.id /\ (kernel'.code = kernel.code \/ worker.step = "code")
           \/ kernel'.id = main /\ kernel'.code = kernel.code /\ worker.step = "id"
    BY <1>5, Written, SameKernel
  <2> QED BY <1>1, <1>2, <1>3, <1>5, <2>1, <2>2, <2>3, EndsKeep
<1> QED BY <1>4, <1>5

LEMMA WriteCodeKeeps == ASSUME Inv, WriteCode PROVE Inv'
<1>1. Runs /\ worker.step = "code" /\ tickets[active].kind = "main"
  BY DEF WriteCode, Write, Runs, Yet, Active, Inv, Control, Steps
<1>2. UNCHANGED <<main, scope, stops, epoch, resume, publicationVars, stopVars, ran>>
  BY DEF WriteCode, Write
<1>3. CASE /\ Entered /\ Step("id") /\ kernel' = [kernel EXCEPT !["code"] = Active.op]
           /\ UNCHANGED <<ops, queue, active>>
  <2>1. worker' \in WorkerType /\ worker'.step = "id"
    BY <1>3, StepTyped DEF WorkerSteps, Pre
  <2>2. /\ kernel' \in KernelType /\ kernel'.at = kernel.at /\ kernel'.current = kernel.current
        /\ kernel'.done = kernel.done /\ kernel'.stop = kernel.stop
        /\ kernel'.code = main /\ kernel'.id = kernel.id
    BY <1>1, <1>3, Written
  <2>3. Steps'
    <3>1. tickets'[active'].kind = "main" /\ tickets'[active'].ever
      <4>1. active \in 1 .. Len(tickets) /\ tickets \in Seq(TicketType) /\ tickets[active] \in TicketType
        BY <1>1, Running
      <4> QED BY <1>1, <1>3, <4>1 DEF TicketType, Entered
    <3> QED BY <1>2, <2>1, <2>2, <3>1 DEF Steps
  <2> QED BY <1>1, <1>2, <1>3, <2>1, <2>2, <2>3, QuietKeeps DEF Pre
<1>4. CASE \/ Settles("error") /\ FailsCommand /\ UNCHANGED kernel
           \/ /\ GoesUnknown /\ Becomes("unknown")
              /\ kernel' = [kernel EXCEPT !["code"] = Active.op] \/ kernel' = kernel
  BY <1>1, <1>2, <1>4, WriteFails
<1> QED BY <1>3, <1>4 DEF WriteCode, Write

LEMMA WriteIdKeeps == ASSUME Inv, WriteId PROVE Inv'
<1>1. Runs /\ worker.step = "id" /\ tickets[active].kind = "main" /\ kernel.code = main
  BY DEF WriteId, Write, Runs, Yet, Active, Inv, Control, Steps
<1>2. UNCHANGED <<main, scope, stops, epoch, resume, publicationVars, stopVars, ran>>
  BY DEF WriteId, Write
<1>3. CASE /\ Entered /\ Step("continue") /\ kernel' = [kernel EXCEPT !["id"] = Active.op]
           /\ UNCHANGED <<ops, queue, active>>
  <2>1. worker' \in WorkerType /\ worker'.step = "continue"
    BY <1>3, StepTyped DEF WorkerSteps, Pre
  <2>2. /\ kernel' \in KernelType /\ kernel'.at = kernel.at /\ kernel'.current = kernel.current
        /\ kernel'.done = kernel.done /\ kernel'.stop = kernel.stop
        /\ kernel'.code = kernel.code /\ kernel'.id = main
    BY <1>1, <1>3, Written
  <2>3. Steps'
    <3>1. tickets'[active'].kind = "main" /\ tickets'[active'].ever
      <4>1. active \in 1 .. Len(tickets) /\ tickets \in Seq(TicketType) /\ tickets[active] \in TicketType
        BY <1>1, Running
      <4> QED BY <1>1, <1>3, <4>1 DEF TicketType, Entered
    <3> QED BY <1>1, <1>2, <2>1, <2>2, <3>1 DEF Steps
  <2> QED BY <1>1, <1>2, <1>3, <2>1, <2>2, <2>3, QuietKeeps DEF Pre
<1>4. CASE \/ Settles("error") /\ FailsCommand /\ UNCHANGED kernel
           \/ /\ GoesUnknown /\ Becomes("unknown")
              /\ kernel' = [kernel EXCEPT !["id"] = Active.op] \/ kernel' = kernel
  BY <1>1, <1>2, <1>4, WriteFails
<1> QED BY <1>3, <1>4 DEF WriteId, Write

\* A plan that ends and leaves everything else as it is.
LEMMA PlainEndKeeps ==
    ASSUME Inv, Runs, Ends, GoesUnknown \/ ~Unsent,
           UNCHANGED <<commandVars, stopVars, kernelVars>>, PublicationTyped'
    PROVE  Inv'
BY SameOps, SameKernel, Running, EndsKeep

LEMMA WritebackKeeps == ASSUME Inv, Writeback PROVE Inv'
<1>1. Runs /\ worker.step = "writeback" /\ tickets[active].kind = "resume"
  BY DEF Writeback, Runs, Yet, Active, Inv, Control, Steps
<1>2. UNCHANGED <<commandVars, publicationVars, stopVars, kernelVars>>
  BY DEF Writeback
<1>3. CASE Entered /\ Step("continue") /\ UNCHANGED <<queue, active>>
  <2>1. worker' \in WorkerType /\ worker'.step = "continue"
    BY <1>3, StepTyped DEF WorkerSteps, Pre
  <2>2. Steps'
    <3>1. tickets'[active'].kind = "resume"
      <4>1. active \in 1 .. Len(tickets) /\ tickets \in Seq(TicketType) /\ tickets[active] \in TicketType
        BY <1>1, Running
      <4> QED BY <1>1, <1>3, <4>1 DEF TicketType, Entered
    <3> QED BY <2>1, <3>1 DEF Steps
  <2> QED BY <1>1, <1>2, <1>3, <2>1, <2>2, SameKernel, QuietKeeps DEF Pre
<1>4. CASE Settles("error") \/ GoesUnknown
  BY <1>1, <1>2, <1>4, SamePublication, PlainEndKeeps DEF Ends, Unsent
<1> QED BY <1>3, <1>4 DEF Writeback

\* A resume whose command has ended is not one of the current route, so this ends a debug one.
LEMMA TooLateKeeps == ASSUME Inv, ContinueTooLate PROVE Inv'
<1>1. Runs /\ worker.step = "continue" /\ Settles("error")
      /\ UNCHANGED <<commandVars, publicationVars, stopVars, kernelVars>>
  BY DEF ContinueTooLate, Runs, Yet, Active
<1>2. MainPhase \in TerminalPhases
  BY <1>1, Running DEF ContinueTooLate, Op, Active, MainPhase
<1>3. ~Unsent
  BY <1>1, <1>2, PreStands DEF Unsent, Belongs, Pre, TerminalPhases
<1> QED BY <1>1, <1>3, SamePublication, PlainEndKeeps DEF Ends

LEMMA UnansweredKeeps == ASSUME Inv, ContinueUnanswered PROVE Inv'
<1>1. Runs /\ worker.step \in {"sent", "unsent"} /\ GoesUnknown
      /\ UNCHANGED <<ops, main, stops, epoch, resume, publicationVars, stopVars, kernelVars>>
  BY DEF ContinueUnanswered, Runs, Active
<1>2. scope \in ScopeType /\ MainPhase = "unknown"
  BY <1>1, Running DEF Inv, Control, Steps
<1>3. CASE tickets[active].kind # "resume"
  BY <1>1, <1>3, SamePublication, PlainEndKeeps DEF Ends, ContinueUnanswered, Active
<1>4. CASE tickets[active].kind = "resume"
  <2>1. scope # NoScope
    BY <1>1, <1>4 DEF Inv, Control, Steps, NoScope
  <2>2. scope.seq # 0
    BY <2>1 DEF Inv, Control, Scopes
  <2>3. /\ scope' = [scope EXCEPT !.context = "closing", !.frame = "unverified"]
    BY <1>4 DEF ContinueUnanswered, Active
  <2>4. scope' \in ScopeType /\ scope'.seq = scope.seq /\ scope'.op = scope.op
    BY <1>2, <2>3 DEF ScopeType
  <2> QED BY <1>1, <1>2, <2>2, <2>4, SameOps, SameKernel, SamePublication, EndsKeep DEF Ends
<1> QED BY <1>3, <1>4

LEMMA AwaitEndsKeeps == ASSUME Inv, AwaitEnds PROVE Inv'
BY SamePublication, PlainEndKeeps DEF AwaitEnds, Ends, Runs, Yet, Active

LEMMA ServiceStopKeeps == ASSUME Inv, ServiceStop PROVE Inv'
<1>1. Runs /\ worker.step = "await" /\ kernel.at = "service" /\ Step("read")
      /\ UNCHANGED <<commandVars, tickets, queue, active, publicationVars, stopVars, kernelVars>>
  BY DEF ServiceStop, Runs, Yet, Active
<1>2. worker' \in WorkerType /\ worker'.step = "read"
  BY <1>1, StepTyped DEF WorkerSteps
<1>3. Steps'
  BY <1>1, <1>2 DEF Inv, Control, Steps, MainPhase
<1> QED BY <1>1, <1>2, <1>3, SameKernel, QuietKeeps DEF Pre

LEMMA YieldTyped ==
    ASSUME Inv, NEW kind \in Replies, Yields(kind)
    PROVE  worker' \in WorkerType /\ worker'.step = "policy" /\ worker'.yields = kind
BY DEF Inv, Typed, ArbiterTyped, Yields, WorkerType, WorkerSteps

LEMMA ReadValuesKeeps == ASSUME Inv, ReadValues PROVE Inv'
<1>1. Runs /\ worker.step = "values"
      /\ UNCHANGED <<commandVars, publicationVars, stopVars, kernelVars>>
  BY DEF ReadValues, Runs, Yet, Active
<1>2. CASE Yields("completed") /\ UNCHANGED <<tickets, queue, active>>
  <2>1. worker' \in WorkerType /\ worker'.step = "policy" /\ worker'.yields = "completed"
    BY <1>2, YieldTyped DEF Replies
  <2>2. Steps'
    BY <1>1, <1>2, <2>1 DEF Inv, Control, Steps, MainPhase
  <2> QED BY <1>1, <1>2, <2>1, <2>2, SameKernel, QuietKeeps DEF Pre
<1>3. CASE GoesUnknown
  BY <1>1, <1>3, SamePublication, PlainEndKeeps DEF Ends
<1> QED BY <1>2, <1>3 DEF ReadValues

LEMMA PolicyReadsKeeps == ASSUME Inv, PolicyReads PROVE Inv'
<1>1. Runs /\ worker.step = "policy"
      /\ UNCHANGED <<commandVars, publicationVars, stopVars, kernelVars>>
  BY DEF PolicyReads, Runs, Yet, Active
<1>2. CASE /\ Publishable(regs[Active.op]) /\ UNCHANGED <<tickets, queue, active>>
           /\ worker' = [worker EXCEPT !.step = "record", !.record = regs[Active.op]]
  <2>1. worker \in WorkerType /\ regs[Active.op] \in Record
    BY <1>1, Running DEF Inv, Typed, PublicationTyped, Active
  <2>2. /\ worker' \in WorkerType /\ worker'.step = "record" /\ worker'.yields = worker.yields
    BY <1>2, <2>1 DEF WorkerType, WorkerSteps
  <2>3. worker.yields # "unrecognised"
    BY <1>2 DEF Publishable
  <2>4. Steps'
    BY <1>1, <1>2, <2>2, <2>3 DEF Inv, Control, Steps, MainPhase
  <2> QED BY <1>1, <1>2, <2>2, <2>4, SameKernel, QuietKeeps DEF Pre
<1>3. CASE GoesUnknown
  BY <1>1, <1>3, SamePublication, PlainEndKeeps DEF Ends
<1> QED BY <1>2, <1>3 DEF PolicyReads

\* A step of the plan past Continue.
LEMMA OnwardKeeps ==
    ASSUME Inv, Runs, tickets' = tickets \/ Entered, active' = active, queue' = queue,
           UNCHANGED <<main, publicationVars, stopVars>>,
           worker' \in WorkerType, worker'.step # "none", worker'.step \notin Pre,
           NEW phase, NEW attempted, NEW pending, OpMoves(main, phase, attempted, pending),
           epoch' \in Nat, kernel' \in KernelType, kernel'.at # "gone", scope' \in ScopeType,
           stops' \in 0 .. MaxStops, resume' \in 0 .. Len(tickets), StopsCounted',
           \/ epoch < epoch'
           \/ /\ epoch' = epoch
              /\ \A i \in ToSet(queue) : tickets[i].epoch = epoch =>
                    tickets[i].kind = "debug" /\ scope' = NoScope /\ phase # "admitted",
           phase \in {"suspended_capture", "suspended_user"} => pending # 0,
           ops[main].attempted => attempted, attempted => phase # "admitted",
           \/ ran' = ran
           \/ ran' = ran \cup {<<kernel.id, kernel.code>>} /\ kernel.id = main /\ kernel.code = main
                /\ attempted,
           scope'.seq <= stops', scope'.seq = 0 => scope' = NoScope,
           scope'.seq # 0 => scope'.op = main, phase = "suspended_capture" => scope'.seq # 0,
           Steps', Kernel'
    PROVE  Inv'
<1>1. /\ active \in 1 .. Len(tickets) /\ main \in 1 .. Len(ops) /\ main # 0
      /\ main \in Nat
  BY Running
<1>2. epoch <= epoch' /\ Len(ops') = Len(ops)
  BY DEF Inv, Typed, CommandsTyped, OpMoves
<1>3. /\ PlanMoves
      /\ tickets' \in Seq(TicketType) /\ Len(tickets') = Len(tickets)
      /\ \A j \in 1 .. Len(tickets) : Same(tickets'[j], tickets[j])
  BY <1>2, OnwardMoves
<1>4. ran' \subseteq Nat \X Nat
  <2>1. ran \subseteq Nat \X Nat
    BY DEF Inv, Typed, KernelTyped
  <2> QED BY <1>1, <2>1
<1>5. Typed' /\ Owned' /\ Fenced'
  BY <1>3, <1>4, SamePublication, PlanKeepsTypes
<1>6. MainPhase' = phase
  BY DEF MainPhase, OpMoves
<1>7. Routed'
  <2>1. \A i \in 1 .. Len(tickets) : Standing(i)' => Standing(i)
    BY DEF Standing
  <2> QED BY <1>3, <1>6, <2>1, RouteKept
<1>8. Scopes'
  <2>1. \A c \in 1 .. Len(ops') :
            ops'[c].phase \in {"suspended_capture", "suspended_user"} => ops'[c].pending # 0
    BY <1>1, PendingKept
  <2> QED BY <1>1, <1>6, <2>1 DEF Scopes
<1>9. Ran'
  BY <1>1, RanKept
<1> QED BY <1>5, <1>7, <1>8, <1>9 DEF Inv, Control

\* Behind a command that runs or has ended, only resumes of a debug stop are of its route.
LEMMA QueueIsDebug ==
    ASSUME Inv, MainPhase \notin {"admitted", "suspended_capture"},
           NEW i \in ToSet(queue), tickets[i].epoch = epoch
    PROVE  tickets[i].kind = "debug" /\ scope = NoScope
<1>1. i \in 1 .. Len(tickets) /\ Standing(i)
  BY DEF Inv, Owned, ToSet, Standing
<1>2. tickets[i] \in TicketType /\ Belongs(i)
  BY <1>1 DEF Inv, Typed, ArbiterTyped, Control, Routed
<1> QED BY <1>2 DEF Belongs, TicketType, Kinds

LEMMA EntersKeeps == ASSUME Inv, ContinueEnters PROVE Inv'
<1>1. /\ Runs /\ worker.step = "continue" /\ worker.step \in Pre /\ Entered
      /\ UNCHANGED <<main, scope, stops, epoch, resume, queue, active, publicationVars, stopVars>>
      /\ Op.phase \notin TerminalPhases
  BY DEF ContinueEnters, Runs, Yet, Active, Pre
<1>2. /\ active \in 1 .. Len(tickets) /\ tickets \in Seq(TicketType)
      /\ tickets[active] \in TicketType /\ Active.op = main
      /\ main \in 1 .. Len(ops) /\ main \in 1 .. MaxCommands /\ main # 0
      /\ ops \in Seq(OpType) /\ ops[main] \in OpType
      /\ scope \in ScopeType /\ stops \in 0 .. MaxStops /\ worker \in WorkerType
      /\ kernel \in KernelType /\ ~Closed
  BY <1>1, Running DEF Active
<1>3. OpMoves(main, "unknown", TRUE, 0)
  <2> DEFINE o == ContinueRequested(ops[main])
  <2>1. /\ o \in OpType /\ o.phase = "unknown" /\ o.attempted = TRUE /\ o.pending = 0
    <3>1. 0 \in 0 .. MaxStops /\ "unknown" \in Phases
      BY BoundsAssumption DEF Phases
    <3>2. o.phase = "unknown" /\ o.pending = 0 /\ o \in OpType
      BY <1>2, <3>1 DEF ContinueRequested, OpType
    <3>3. o.attempted = TRUE
      BY <1>2, Zenon DEF ContinueRequested, OpType
    <3> QED BY <3>2, <3>3
  <2>2. ops' = [ops EXCEPT ![main] = o]
    BY <1>2 DEF ContinueEnters
  <2> HIDE DEF o
  <2> QED BY <1>2, <2>1, <2>2, ExceptOp
<1>4. Belongs(active)
  BY <1>1, PreStands
<1>5. IF tickets[active].kind = "resume" THEN scope.context = "ready" ELSE scope = NoScope
  BY <1>2, <1>4 DEF Belongs, TicketType, Kinds
<1>6. \A i \in ToSet(queue) : tickets[i].epoch = epoch =>
          tickets[i].kind = "debug" /\ scope' = NoScope
  <2> SUFFICES ASSUME NEW i \in ToSet(queue), tickets[i].epoch = epoch
               PROVE  tickets[i].kind = "debug" /\ scope' = NoScope
    OBVIOUS
  <2>1. tickets[i].kind = "debug" /\ tickets[active].kind = "debug"
    BY <1>1, Behind
  <2> QED BY <1>1, <1>5, <2>1
<1>7. epoch' \in Nat /\ epoch' = epoch /\ resume' \in 0 .. Len(tickets) /\ scope' \in ScopeType
      /\ stops' \in 0 .. MaxStops
  BY <1>1, <1>2 DEF Inv, Typed, CommandsTyped
<1>8. /\ scope'.seq <= stops'
      /\ scope'.seq = 0 => scope' = NoScope
      /\ scope'.seq # 0 => scope'.op = main
  BY <1>1 DEF Inv, Control, Scopes
<1>9. /\ tickets'[active'].kind = tickets[active].kind /\ MainPhase' = "unknown"
  BY <1>1, <1>2, <1>3 DEF Entered, TicketType, MainPhase, OpMoves
<1>10. CASE Released /\ Step("sent")
  <2>1. worker' \in WorkerType /\ worker'.step = "sent"
    BY <1>10, StepTyped DEF WorkerSteps
  <2>2. /\ kernel' \in KernelType /\ kernel'.at = "running" /\ kernel'.id = kernel.id
        /\ kernel'.done = kernel.done /\ kernel'.stop = kernel.stop
        /\ \/ /\ kernel.at = "service" /\ kernel.id > kernel.done /\ kernel'.current = kernel.id
              /\ ran' = ran \cup {<<kernel.id, kernel.code>>}
           \/ /\ ~(kernel.at = "service" /\ kernel.id > kernel.done)
              /\ kernel'.current = kernel.current /\ ran' = ran
    BY <1>2, <1>10 DEF Released, KernelType
  <2>3. kernel.at = "service" /\ kernel.id > kernel.done => kernel.id = main /\ kernel.code = main
    BY <1>2 DEF Inv, Control, Kernel, Closed
  <2>4. StopsCounted'
    BY <1>1, <2>1, <2>2 DEF StopsCounted, Inv, Typed
  <2>5. Steps'
    BY <1>1, <1>5, <1>9, <2>1 DEF Steps
  <2>6. Kernel'
    <3>1. kernel'.current # 0 => kernel'.current = main /\ kernel'.id = main
      BY <1>2, <2>2, <2>3 DEF Inv, Control, Kernel
    <3>2. kernel'.done <= kernel'.id /\ kernel'.id <= Len(ops')
      BY <1>3, <2>2 DEF Inv, Control, Kernel, OpMoves
    <3>3. ~(kernel'.current = 0 /\ kernel'.id > kernel'.done)
      BY <1>2, <2>2, <2>3 DEF Inv, Control, Kernel, Closed
    <3> QED BY <1>1, <1>2, <1>9, <2>2, <3>1, <3>2, <3>3 DEF Kernel, TerminalPhases
  <2> QED BY <1>1, <1>2, <1>3, <1>6, <1>7, <1>8, <2>1, <2>2, <2>3, <2>4, <2>5, <2>6,
             OnwardKeeps DEF Pre
<1>11. CASE UNCHANGED kernelVars /\ Step("unsent")
  <2>1. worker' \in WorkerType /\ worker'.step = "unsent"
    BY <1>11, StepTyped DEF WorkerSteps
  <2>2. StopsCounted'
    BY <1>1, <1>11, <2>1 DEF StopsCounted, Inv, Typed
  <2>3. Steps'
    BY <1>1, <1>5, <1>9, <2>1 DEF Steps
  <2>4. Kernel'
    <3>1. kernel.current = 0 /\ kernel.id > kernel.done =>
             tickets[active].kind = "main" /\ kernel.at = "service" /\ kernel.id = main
               /\ kernel.code = main
      BY <1>2 DEF Inv, Control, Kernel
    <3> QED BY <1>1, <1>2, <1>3, <1>9, <1>11, <2>1, <3>1
            DEF Inv, Control, Kernel, TerminalPhases, OpMoves, Closed, Runs
  <2>5. kernel' \in KernelType /\ kernel'.at # "gone" /\ ran' = ran
    BY <1>2, <1>11 DEF Closed
  <2> QED BY <1>1, <1>2, <1>3, <1>6, <1>7, <1>8, <2>1, <2>2, <2>3, <2>4, <2>5, OnwardKeeps DEF Pre
<1> QED BY <1>10, <1>11 DEF ContinueEnters

LEMMA AcknowledgedKeeps == ASSUME Inv, ContinueAcknowledged PROVE Inv'
<1>1. /\ Runs /\ worker.step = "sent" /\ Becomes("running") /\ Step("await")
      /\ IF tickets[active].kind = "resume"
         THEN scope' = NoScope /\ resume' = 0 /\ epoch' = epoch + 1
         ELSE UNCHANGED <<scope, resume, epoch>>
      /\ UNCHANGED <<main, stops, tickets, queue, active, publicationVars, stopVars, kernelVars>>
  BY DEF ContinueAcknowledged, Runs, Yet, Active
<1>2. /\ active \in 1 .. Len(tickets) /\ main \in 1 .. Len(ops) /\ main # 0
      /\ ops[main] \in OpType /\ scope \in ScopeType /\ stops \in 0 .. MaxStops
      /\ kernel \in KernelType /\ ~Closed
  BY <1>1, Running
<1>3. OpMoves(main, "running", ops[main].attempted, ops[main].pending)
  BY <1>1, PhaseMoves DEF Phases
<1>4. /\ MainPhase = "unknown"
      /\ tickets[active].kind # "resume" => scope = NoScope
  BY <1>1 DEF Inv, Control, Steps
<1>5. scope' = NoScope /\ scope' \in ScopeType
  BY <1>1, <1>4, BoundsAssumption DEF ScopeType, NoScope
<1>6. worker' \in WorkerType /\ worker'.step = "await"
  BY <1>1, StepTyped DEF WorkerSteps
<1>7. /\ epoch \in Nat /\ epoch' \in Nat /\ resume' \in 0 .. Len(tickets)
      /\ epoch < epoch' \/ epoch' = epoch
  BY <1>1, <1>2 DEF Inv, Typed, CommandsTyped
<1>8. MainPhase' = "running"
  BY <1>1, <1>3 DEF MainPhase, OpMoves
<1>9. StopsCounted'
  BY <1>1, <1>6 DEF StopsCounted, Inv, Typed
<1>10. Steps'
  BY <1>5, <1>6, <1>8 DEF Steps
<1>11. Kernel'
  <2>1. ~(kernel.current = 0 /\ kernel.id > kernel.done)
    BY <1>1, <1>2 DEF Inv, Control, Kernel, Runs
  <2> QED BY <1>1, <1>2, <1>3, <1>8, <2>1 DEF Inv, Control, Kernel, TerminalPhases, OpMoves, Closed
<1>12. scope'.seq = 0 /\ scope'.seq <= stops'
  BY <1>1, <1>2, <1>5 DEF NoScope
<1>13. \A i \in ToSet(queue) : tickets[i].epoch = epoch => tickets[i].kind = "debug"
  BY <1>4, QueueIsDebug
<1> QED BY <1>1, <1>2, <1>3, <1>5, <1>6, <1>7, <1>9, <1>10, <1>11, <1>12, <1>13,
           OnwardKeeps, SameKernel DEF Pre, Closed

LEMMA ReadCompletedKeeps == ASSUME Inv, ReadCompleted PROVE Inv'
<1>1. /\ Runs /\ worker.step = "read"
      /\ UNCHANGED <<main, scope, stops, epoch, resume, publicationVars, stopVars, kernelVars>>
  BY DEF ReadCompleted, Runs, Yet, Active
<1>2. /\ active \in 1 .. Len(tickets) /\ main \in 1 .. Len(ops) /\ main # 0 /\ ops \in Seq(OpType)
      /\ ops[main] \in OpType /\ scope \in ScopeType /\ stops \in 0 .. MaxStops
      /\ kernel \in KernelType /\ ~Closed /\ Active.op = main
  BY <1>1, Running DEF Active
<1>3. /\ MainPhase = "running" /\ scope = NoScope /\ kernel.at = "service"
  BY <1>1 DEF Inv, Control, Steps
<1>4. CASE /\ kernel.done = Active.op /\ Step("values") /\ UNCHANGED <<tickets, queue, active>>
           /\ ops' = [ops EXCEPT ![Active.op].phase = "completed", ![Active.op].pending = 0]
  <2>1. OpMoves(main, "completed", ops[main].attempted, 0)
    <3> DEFINE o == [ops[main] EXCEPT !.phase = "completed", !.pending = 0]
    <3>1. 0 \in 0 .. MaxStops /\ "completed" \in Phases
      BY BoundsAssumption DEF Phases
    <3>2. /\ o \in OpType /\ o.phase = "completed" /\ o.attempted = ops[main].attempted
          /\ o.pending = 0
      BY <1>2, <3>1 DEF OpType
    <3>3. ops' = [ops EXCEPT ![main] = o]
      BY <1>2, <1>4
    <3> HIDE DEF o
    <3> QED BY <1>2, <3>2, <3>3, ExceptOp
  <2>2. worker' \in WorkerType /\ worker'.step = "values"
    BY <1>4, StepTyped DEF WorkerSteps
  <2>3. /\ epoch' \in Nat /\ resume' \in 0 .. Len(tickets) /\ scope' \in ScopeType
        /\ scope'.seq = 0 /\ scope'.seq <= stops'
    BY <1>1, <1>2, <1>3 DEF Inv, Typed, CommandsTyped, NoScope
  <2>4. MainPhase' = "completed"
    BY <1>1, <2>1 DEF MainPhase, OpMoves
  <2>5. StopsCounted'
    BY <1>1, <2>2 DEF StopsCounted, Inv, Typed
  <2>6. Steps'
    BY <2>2, <2>4 DEF Steps
  <2>7. Kernel'
    <3>1. ~(kernel.current = 0 /\ kernel.id > kernel.done)
      BY <1>1, <1>2 DEF Inv, Control, Kernel, Runs
    <3> QED BY <1>1, <1>2, <1>3, <2>1, <2>4, <3>1 DEF Inv, Control, Kernel, TerminalPhases, OpMoves, Closed
  <2>8. \A i \in ToSet(queue) : tickets[i].epoch = epoch => tickets[i].kind = "debug"
    BY <1>3, QueueIsDebug
  <2> QED BY <1>1, <1>2, <1>3, <1>4, <2>1, <2>2, <2>3, <2>5, <2>6, <2>7, <2>8, OnwardKeeps,
             SameKernel DEF Pre, Closed
<1>5. CASE (Settles("error") \/ GoesUnknown) /\ UNCHANGED ops
  BY <1>1, <1>5, SamePublication, PlainEndKeeps DEF Ends, Unsent
<1> QED BY <1>4, <1>5, Zenon DEF ReadCompleted

\* A stop that pauses the command.
LEMMA PauseMoves ==
    ASSUME Inv, Runs, NEW phase \in Phases, Pauses(phase)
    PROVE  OpMoves(main, phase, ops[main].attempted, kernel.stop)
<1>1. /\ main \in 1 .. Len(ops) /\ ops \in Seq(OpType) /\ ops[main] \in OpType /\ Active.op = main
      /\ kernel.stop \in 0 .. MaxStops
  BY Running DEF Active, KernelType
<1> DEFINE o == [ops[main] EXCEPT !.phase = phase, !.pending = kernel.stop]
<1>2. o \in OpType /\ o.phase = phase /\ o.attempted = ops[main].attempted /\ o.pending = kernel.stop
  BY <1>1 DEF OpType
<1>3. ops' = [ops EXCEPT ![main] = o]
  BY <1>1 DEF Pauses
<1> HIDE DEF o
<1> QED BY <1>1, <1>2, <1>3, ExceptOp

LEMMA DebugStopKeeps == ASSUME Inv, DebugStop PROVE Inv'
<1>1. /\ Runs /\ worker.step = "await"
      /\ UNCHANGED <<main, scope, stops, epoch, resume, tickets, queue, active, publicationVars,
                     stopVars, kernelVars>>
  BY DEF DebugStop, Runs, Yet, Active
<1>2. /\ active \in 1 .. Len(tickets) /\ main \in 1 .. Len(ops) /\ main # 0 /\ ops \in Seq(OpType)
      /\ ops[main] \in OpType /\ scope \in ScopeType /\ stops \in 0 .. MaxStops
      /\ kernel \in KernelType /\ ~Closed
  BY <1>1, Running
<1>3. MainPhase = "running" /\ scope = NoScope
  BY <1>1 DEF Inv, Control, Steps
<1>4. PICK phase \in {"suspended_user", "unknown"}, yields \in {"debug", "unrecognised"} :
          /\ Pauses(phase) /\ Yields(yields) /\ kernel.at \in {"user", "other"}
          /\ yields = "debug" <=> phase = "suspended_user"
  BY DEF DebugStop
<1>5. OpMoves(main, phase, ops[main].attempted, kernel.stop)
  BY <1>1, <1>4, PauseMoves DEF Phases
<1>6. worker' \in WorkerType /\ worker'.step = "policy" /\ worker'.yields = yields
  BY <1>4, YieldTyped DEF Replies
<1>7. /\ epoch' \in Nat /\ resume' \in 0 .. Len(tickets) /\ scope' \in ScopeType
      /\ scope'.seq = 0 /\ scope'.seq <= stops'
  BY <1>1, <1>2, <1>3 DEF Inv, Typed, CommandsTyped, NoScope
<1>8. MainPhase' = phase
  BY <1>1, <1>5 DEF MainPhase, OpMoves
<1>9. StopsCounted' /\ kernel.stop # 0
  BY <1>1, <1>4, <1>6 DEF StopsCounted, Inv, Typed
<1>10. Steps'
  BY <1>4, <1>6, <1>8 DEF Steps
<1>11. Kernel'
  BY <1>1, <1>2, <1>4, <1>5, <1>8 DEF Inv, Control, Kernel, TerminalPhases, OpMoves, Closed
<1>12. \A i \in ToSet(queue) : tickets[i].epoch = epoch => tickets[i].kind = "debug"
  BY <1>3, QueueIsDebug
<1> QED BY <1>1, <1>2, <1>3, <1>4, <1>5, <1>6, <1>7, <1>9, <1>10, <1>11, <1>12, OnwardKeeps,
           SameKernel DEF Pre, Closed

LEMMA CaptureStopKeeps == ASSUME Inv, CaptureStop PROVE Inv'
<1>1. /\ Runs /\ worker.step = "await" /\ kernel.at = "capture"
      /\ Pauses("suspended_capture") /\ stops' = stops + 1 /\ epoch' = epoch + 1
      /\ scope' = [seq |-> stops + 1, op |-> Active.op, context |-> "opening",
                   frame |-> "unverified"]
      /\ Step("open")
      /\ UNCHANGED <<main, resume, tickets, queue, active, publicationVars, stopVars, kernelVars>>
  BY DEF CaptureStop, Runs, Yet, Active
<1>2. /\ active \in 1 .. Len(tickets) /\ main \in 1 .. Len(ops) /\ main # 0 /\ ops \in Seq(OpType)
      /\ ops[main] \in OpType /\ scope \in ScopeType /\ stops \in 0 .. MaxStops
      /\ main \in 1 .. MaxCommands /\ kernel \in KernelType /\ ~Closed /\ Active.op = main
  BY <1>1, Running DEF Active
<1>3. OpMoves(main, "suspended_capture", ops[main].attempted, kernel.stop)
  BY <1>1, PauseMoves DEF Phases
<1>4. stops < kernel.stop /\ kernel.stop \in 0 .. MaxStops
  BY <1>1, <1>2 DEF StopsCounted, Inv, Typed, KernelType
<1>5. /\ stops' \in 0 .. MaxStops /\ stops' <= kernel.stop /\ stops' # 0 /\ kernel.stop # 0
  BY <1>1, <1>2, <1>4, BoundsAssumption
<1>6. /\ scope'.seq = stops' /\ scope'.op = main /\ scope'.context = "opening"
      /\ scope' \in ScopeType
  BY <1>1, <1>2, <1>5 DEF ScopeType
<1>7. worker' \in WorkerType /\ worker'.step = "open"
  BY <1>1, StepTyped DEF WorkerSteps
<1>8. epoch \in Nat /\ epoch' \in Nat /\ epoch < epoch' /\ resume' \in 0 .. Len(tickets)
  BY <1>1 DEF Inv, Typed, CommandsTyped
<1>9. MainPhase' = "suspended_capture"
  BY <1>1, <1>3 DEF MainPhase, OpMoves
<1>10. StopsCounted'
  BY <1>1, <1>5, <1>7 DEF StopsCounted, Inv, Typed
<1>11. Steps'
  BY <1>6, <1>7, <1>9 DEF Steps
<1>12. Kernel'
  BY <1>1, <1>2, <1>3, <1>9 DEF Inv, Control, Kernel, TerminalPhases, OpMoves, Closed
<1>13. MainPhase = "running"
  BY <1>1 DEF Inv, Control, Steps
<1> QED BY <1>1, <1>2, <1>3, <1>5, <1>6, <1>7, <1>8, <1>10, <1>11, <1>12, OnwardKeeps, SameKernel
           DEF Pre, Closed, Inv, Control, Ran

LEMMA OpenScopeKeeps == ASSUME Inv, OpenScope PROVE Inv'
<1>1. /\ Runs /\ worker.step = "open"
      /\ UNCHANGED <<ops, main, stops, epoch, resume, publicationVars, stopVars, kernelVars>>
  BY DEF OpenScope, Runs, Yet, Active
<1>2. /\ active \in 1 .. Len(tickets) /\ main \in 1 .. Len(ops) /\ main # 0
      /\ scope \in ScopeType /\ stops \in 0 .. MaxStops /\ kernel \in KernelType /\ ~Closed
  BY <1>1, Running
<1>3. /\ MainPhase = "suspended_capture" /\ scope.context = "opening" /\ scope.seq = stops
      /\ scope # NoScope
  BY <1>1 DEF Inv, Control, Steps, NoScope
<1>4. scope.seq # 0 /\ scope.op = main
  BY <1>3 DEF Inv, Control, Scopes
<1>5. ASSUME NEW context \in {"opening", "ready", "setup_failed"},
             NEW frame \in {"unverified", "confirmed"}, Scoped(context, frame)
      PROVE  /\ scope' \in ScopeType /\ scope'.seq = scope.seq /\ scope'.op = scope.op
             /\ scope'.context = context /\ scope'.frame = frame
  BY <1>2, <1>5 DEF Scoped, ScopeType
<1>6. CASE Scoped("ready", "confirmed") /\ Yields("captured") /\ UNCHANGED <<tickets, queue, active>>
  <2>1. /\ scope' \in ScopeType /\ scope'.seq = scope.seq /\ scope'.op = scope.op
        /\ scope'.context = "ready" /\ scope'.frame = "confirmed"
    BY <1>5, <1>6
  <2>2. worker' \in WorkerType /\ worker'.step = "policy" /\ worker'.yields = "captured"
    BY <1>6, YieldTyped DEF Replies
  <2>3. epoch' \in Nat /\ epoch' = epoch /\ resume' \in 0 .. Len(tickets)
    BY <1>1 DEF Inv, Typed, CommandsTyped
  <2>4. StopsCounted'
    BY <1>1, <2>2 DEF StopsCounted, Inv, Typed
  <2>5. MainPhase' = MainPhase
    BY <1>1 DEF MainPhase
  <2>6. Steps'
    BY <1>1, <1>3, <2>1, <2>2, <2>5 DEF Steps
  <2>7. Kernel'
    <3>1. ~(kernel.current = 0 /\ kernel.id > kernel.done)
      BY <1>1, <1>2 DEF Inv, Control, Kernel, Runs
    <3> QED BY <1>1, <2>5, <3>1 DEF Inv, Control, Kernel, Closed
  <2>8. \A i \in ToSet(queue) : tickets[i].epoch # epoch
    <3> SUFFICES ASSUME NEW i \in ToSet(queue), tickets[i].epoch = epoch PROVE FALSE
      OBVIOUS
    <3>1. i \in 1 .. Len(tickets) /\ Standing(i)
      BY DEF Inv, Owned, ToSet, Standing
    <3>2. tickets[i] \in TicketType /\ Belongs(i)
      BY <3>1 DEF Inv, Typed, ArbiterTyped, Control, Routed
    <3> QED BY <1>3, <3>2 DEF Belongs, TicketType, Kinds
  <2>9. scope'.seq <= stops' /\ scope'.seq # 0
    BY <1>1, <1>2, <1>3, <1>4, <2>1
  <2>10. /\ ops[main].pending # 0
         /\ ops[main].attempted => MainPhase # "admitted"
    BY <1>2, <1>3 DEF Inv, Control, Scopes, MainPhase
  <2> QED BY <1>1, <1>2, <1>3, <1>4, <1>6, <2>1, <2>2, <2>3, <2>4, <2>6, <2>7, <2>8, <2>9, <2>10,
             SameOps, OnwardKeeps, SameKernel DEF Pre, Closed
<1>7. CASE /\ Settles("error") \/ GoesUnknown
           /\ \/ scope' = scope
              \/ \E context \in {"opening", "setup_failed"}, frame \in {"unverified", "confirmed"} :
                    Scoped(context, frame)
  <2>1. scope' \in ScopeType /\ scope'.seq = scope.seq /\ scope'.op = scope.op
    BY <1>2, <1>5, <1>7
  <2> QED BY <1>1, <1>3, <1>4, <1>7, <2>1, SameOps, SameKernel, SamePublication, EndsKeep
          DEF Ends, Unsent
<1> QED BY <1>6, <1>7 DEF OpenScope

\* What the finalizer records is a record, and what it publishes a reply.
LEMMA RecordsTyped ==
    ASSUME Inv, Runs, worker.step = "record", Recordable(worker.record),
           replies' = Append(replies, Reply(worker.record)),
           regs' = [regs EXCEPT ![Active.op] = Recorded(worker.record)],
           UNCHANGED <<planned, intents>>
    PROVE  PublicationTyped'
<1> DEFINE record == worker.record
<1>1. /\ Active.op = main /\ main \in 1 .. MaxCommands /\ record \in Record
      /\ worker.yields \in Replies /\ scope \in ScopeType
      /\ ops[main] \in OpType
  <2>1. worker \in WorkerType /\ worker.yields # "none"
    BY Running DEF Inv, Control, Steps
  <2> QED BY <2>1, Running DEF Active, WorkerType
<1>2. /\ regs \in [1 .. MaxCommands -> Record] /\ replies \in Seq(ReplyType)
      /\ \A c \in 1 .. MaxCommands : regs[c].corr <= Len(intents)
      /\ intents \in Seq(IntentType) /\ Len(intents) \in Nat
  BY DEF Inv, Typed, PublicationTyped
<1>3. /\ worker.yields = "captured" =>
            /\ regs[main] = record /\ Number(record) = record.last + 1
            /\ Number(record) \in 0 .. MaxStops /\ Number(record) \in Nat
            /\ record.corr \in Nat
  BY <1>1, BoundsAssumption DEF Recordable, Number, Record, ScopeType
<1>4. Recorded(record) \in Record /\ Recorded(record).corr <= Len(intents)
  <2>1. NoRecord \in Record /\ NoRecord.corr = 0
    BY BoundsAssumption DEF NoRecord, Record
  <2>2. Op.pending \in 0 .. MaxStops
    BY <1>1 DEF Op, OpType
  <2>3. regs[main] \in Record /\ regs[main].corr <= Len(intents)
    BY <1>1, <1>2
  <2>4. CASE worker.yields = "captured"
    <3>1. Recorded(record) = [record EXCEPT !.last = Number(record), !.stop = Op.pending]
      BY <2>4 DEF Recorded
    <3> HIDE DEF record
    <3> QED BY <1>1, <1>3, <2>2, <2>3, <2>4, <3>1 DEF Record
  <2>5. CASE worker.yields # "captured"
    <3>1. Recorded(record) \in {NoRecord, regs[main]}
      BY <1>1, <2>5 DEF Recorded
    <3> QED BY <1>2, <2>1, <2>3, <3>1
  <2> QED BY <2>4, <2>5
<1>5. Reply(record) \in ReplyType
  <2>1. CASE worker.yields = "captured"
    <3>1. Answers(record, Number(record)) \in {0, record.corr}
      BY DEF Answers
    <3> QED BY <1>1, <1>3, <2>1, <3>1 DEF Reply, ReplyType
  <2>2. CASE worker.yields # "captured"
    BY <1>1, <2>2 DEF Reply, ReplyType
  <2> QED BY <2>1, <2>2
<1> DEFINE new == Recorded(record)
           r == Reply(record)
<1>6. regs' = [regs EXCEPT ![main] = new] /\ replies' = Append(replies, r)
  BY <1>1
<1> HIDE DEF new, r, record
<1>7. /\ regs' \in [1 .. MaxCommands -> Record]
      /\ \A c \in 1 .. MaxCommands : regs'[c].corr <= Len(intents)
  BY <1>1, <1>2, <1>4, <1>6 DEF new
<1>8. replies' \in Seq(ReplyType)
  BY <1>2, <1>5, <1>6 DEF r
<1> QED BY <1>7, <1>8 DEF Inv, Typed, PublicationTyped

LEMMA PolicyRecordsKeeps == ASSUME Inv, PolicyRecords PROVE Inv'
<1>1. Runs /\ worker.step = "record"
      /\ UNCHANGED <<commandVars, planned, intents, stopVars, kernelVars>>
  BY DEF PolicyRecords, Runs, Yet, Active
<1>2. ~Unsent
  BY <1>1 DEF Unsent
<1>3. CASE /\ Recordable(worker.record) /\ replies' = Append(replies, Reply(worker.record))
           /\ regs' = [regs EXCEPT ![Active.op] = Recorded(worker.record)] /\ Settles("value")
  <2>1. PublicationTyped'
    BY <1>1, <1>3, RecordsTyped
  <2> QED BY <1>1, <1>2, <1>3, <2>1, PlainEndKeeps DEF Ends
<1>4. CASE GoesUnknown /\ UNCHANGED <<replies, regs>>
  BY <1>1, <1>2, <1>4, SamePublication, PlainEndKeeps DEF Ends
<1> QED BY <1>3, <1>4 DEF PolicyRecords

LEMMA TakeKeeps == ASSUME Inv, Take PROVE Inv'
<1> DEFINE i == Head(queue)
<1>1. /\ active = 0 /\ queue # <<>> /\ ~Closed /\ worker.step = "none" /\ i \in 1 .. Len(tickets)
      /\ tickets[i].op = main /\ queue' = Tail(queue)
      /\ \/ active' = 0 /\ worker' = worker /\ TicketMoves(i, "settled", "error")
         \/ /\ tickets[i].epoch = epoch /\ active' = i
            /\ TicketMoves(i, "running", tickets[i].outcome)
            /\ worker' = [worker EXCEPT !.step = FirstStep[tickets[i].kind]]
      /\ UNCHANGED <<commandVars, publicationVars, stopVars, kernelVars>>
  BY TakeMoves DEF Inv
<1>2. /\ tickets' \in Seq(TicketType) /\ Len(tickets') = Len(tickets) /\ queue \in Seq(Nat)
      /\ \A j \in 1 .. Len(tickets) : Same(tickets'[j], tickets[j])
      /\ tickets[i] \in TicketType /\ worker \in WorkerType /\ epoch \in Nat
  <2>1. i \in 1 .. Len(tickets)
    BY <1>1
  <2> HIDE DEF i
  <2>2. /\ tickets \in Seq(TicketType) /\ queue \in Seq(Nat) /\ worker \in WorkerType
        /\ epoch \in Nat
    BY DEF Inv, Typed, ArbiterTyped, CommandsTyped
  <2>3. /\ tickets' \in Seq(TicketType) /\ Len(tickets') = Len(tickets)
        /\ \A j \in 1 .. Len(tickets) : j # i => tickets'[j] = tickets[j]
        /\ Same(tickets'[i], tickets[i])
    BY <1>1 DEF TicketMoves
  <2>4. \A j \in 1 .. Len(tickets) : Same(tickets'[j], tickets[j])
    BY <2>3 DEF Same
  <2>5. tickets[i] \in TicketType
    BY <2>1, <2>2
  <2> QED BY <2>2, <2>3, <2>4, <2>5
<1>3. ToSet(Tail(queue)) = ToSet(queue) \ {i} /\ i \in ToSet(queue)
  BY <1>1, <1>2, TailDistinct DEF Inv, Owned
<1>4. \/ worker'.step = "none"
      \/ /\ active' = i /\ tickets[i].epoch = epoch
         /\ \/ tickets[i].kind = "main" /\ worker'.step = "prepare"
            \/ tickets[i].kind = "resume" /\ worker'.step = "writeback"
            \/ tickets[i].kind = "debug" /\ worker'.step = "continue"
  <2>1. tickets[i].kind \in Kinds
    BY <1>2 DEF TicketType
  <2>2. FirstStep[tickets[i].kind] = IF tickets[i].kind = "main" THEN "prepare"
                                     ELSE IF tickets[i].kind = "resume" THEN "writeback"
                                     ELSE "continue"
    BY <2>1, FirstSteps DEF Kinds
  <2>3. CASE worker' = worker
    BY <1>1, <2>3
  <2>4. CASE /\ active' = i /\ tickets[i].epoch = epoch
             /\ worker' = [worker EXCEPT !.step = FirstStep[tickets[i].kind]]
    <3>1. worker'.step = FirstStep[tickets[i].kind]
      BY <1>2, <2>4 DEF WorkerType
    <3> QED BY <2>1, <2>2, <2>4, <3>1 DEF Kinds
  <2> QED BY <1>1, <2>3, <2>4
<1> HIDE DEF i
<1>5. ArbiterTyped' /\ Owned' /\ Fenced'
  BY TakeKeepsArbiter DEF Inv
<1>6. Typed'
  <2>1. CommandsTyped'
    BY <1>1, <1>2 DEF Inv, Typed, CommandsTyped
  <2>2. KernelTyped'
    BY <1>1 DEF Inv, Typed, KernelTyped
  <2>3. StopsCounted'
    BY <1>1, <1>4 DEF Inv, Typed, StopsCounted
  <2> QED BY <1>1, <1>5, <2>1, <2>2, <2>3, SamePublication DEF Typed
<1>7. MainPhase' = MainPhase
  BY <1>1 DEF MainPhase
<1>8. Routed'
  <2>1. \A j \in 1 .. Len(tickets) : Standing(j)' => Standing(j)
    BY <1>1, <1>3, <1>4 DEF Standing, Pre
  <2>2. worker'.step \in Pre => tickets'[active'].epoch = epoch'
    BY <1>1, <1>2, <1>4 DEF Same, Pre
  <2> QED BY <1>1, <1>2, <1>7, <2>1, <2>2, RouteKept
<1>9. Scopes' /\ Ran'
  BY <1>1, <1>7 DEF Inv, Control, Scopes, Ran
<1>10. Steps'
  <2>1. active' = i => tickets'[active'].kind = tickets[i].kind
    BY <1>1, <1>2 DEF Same
  <2> QED BY <1>4, <2>1 DEF Steps
<1>11. Kernel'
  <2>1. ~(kernel.current = 0 /\ kernel.id > kernel.done)
    BY <1>1 DEF Inv, Control, Kernel
  <2> QED BY <1>1, <1>7, <2>1 DEF Inv, Control, Kernel, Closed
<1> QED BY <1>5, <1>6, <1>8, <1>9, <1>10, <1>11 DEF Inv, Control

-----------------------------------------------------------------------------
(* Steps beside the plan.                                                   *)

\* The worker and its queue rest, and so does the route.
LEMMA RestKeeps ==
    ASSUME Inv, UNCHANGED arbiterVars, UNCHANGED <<epoch, resume, scope, stops>>,
           main' = main, ops' = ops, Closed' <=> Closed,
           stopper' \in StopperType, proof' \in BOOLEAN, PublicationTyped',
           \/ stopper' = stopper \/ stopper'.step = "none"
           \/ stopper'.step = "asked" /\ stopper'.ticket \in 1 .. Len(tickets),
           kernel' \in KernelType, ran' = ran, StopsCounted', Kernel', Steps'
    PROVE  Inv'
<1>1. ArbiterTyped' /\ Owned' /\ Fenced'
  <2>1. ops' \in Seq(OpType) /\ Len(ops) <= Len(ops')
    BY DEF Inv, Typed, CommandsTyped
  <2> QED BY <2>1, RestKeepsArbiter DEF Inv
<1>2. Typed'
  BY <1>1 DEF Inv, Typed, CommandsTyped, KernelTyped
<1>3. Routed' /\ Scopes' /\ Ran'
  BY DEF Inv, Control, Routed, Standing, Belongs, Scopes, Ran, MainPhase
<1> QED BY <1>1, <1>2, <1>3 DEF Inv, Control

LEMMA AskStopKeeps == ASSUME Inv, NEW i \in 1 .. Len(tickets), AskStop(i) PROVE Inv'
<1>1. /\ UNCHANGED <<commandVars, publicationVars, arbiterVars, proof, kernelVars>>
      /\ stopper' = [step |-> "asked", ticket |-> i,
                     context |-> [main |-> main, scope |-> scope.seq, seen |-> TRUE]]
  BY DEF AskStop
<1>2. stopper' \in StopperType /\ stopper'.step = "asked" /\ stopper'.ticket = i
  <2>1. i \in 0 .. MaxTickets
    <3>1. Len(tickets) \in Nat /\ Len(tickets) <= MaxTickets
      BY DEF Inv, Typed, ArbiterTyped
    <3> QED BY <3>1, BoundsAssumption
  <2>2. [main |-> main, scope |-> scope.seq, seen |-> TRUE] \in Context
    <3>1. main \in 0 .. MaxCommands /\ scope.seq \in 0 .. MaxStops
      BY BoundsAssumption DEF Inv, Typed, CommandsTyped, ScopeType
    <3> QED BY <3>1 DEF Context
  <2> QED BY <1>1, <2>1, <2>2 DEF StopperType
<1>3. StopsCounted' /\ Kernel' /\ Steps' /\ (Closed' <=> Closed)
  BY <1>1 DEF Inv, Typed, StopsCounted, Control, Kernel, Steps, MainPhase, Closed
<1>4. proof' \in BOOLEAN /\ kernel' \in KernelType
  BY <1>1 DEF Inv, Typed, KernelTyped
<1> QED BY <1>1, <1>2, <1>3, <1>4, SamePublication, RestKeeps

LEMMA KernelStopsKeeps == ASSUME Inv, KernelStops PROVE Inv'
<1>1. /\ kernel.at = "running" /\ kernel.current # 0 /\ kernel.stop < MaxStops
      /\ UNCHANGED <<commandVars, publicationVars, arbiterVars, stopVars, ran>>
      /\ kernel \in KernelType
  BY DEF KernelStops, Inv, Typed, KernelTyped
<1>2. PICK place \in {"capture", "user", "other"} :
          kernel' = [kernel EXCEPT !.at = place, !.stop = @ + 1]
  BY DEF KernelStops
<1>3. /\ kernel' \in KernelType /\ kernel'.at = place /\ kernel'.stop = kernel.stop + 1
      /\ kernel'.current = kernel.current /\ kernel'.id = kernel.id
      /\ kernel'.code = kernel.code /\ kernel'.done = kernel.done
  <2>1. kernel.stop + 1 \in 0 .. MaxStops /\ place \in Stopped \cup {"running", "gone"}
    BY <1>1, BoundsAssumption DEF KernelType, Stopped
  <2> QED BY <1>1, <1>2, <2>1 DEF KernelType
<1>4. StopsCounted'
  <2>1. stops \in 0 .. MaxStops /\ kernel.stop \in 0 .. MaxStops /\ stops <= kernel.stop
    BY <1>1 DEF Inv, Typed, CommandsTyped, StopsCounted, KernelType
  <2> QED BY <1>1, <1>3, <2>1, BoundsAssumption DEF StopsCounted
<1>5. MainPhase' = MainPhase /\ ~Closed /\ ~Closed'
  BY <1>1, <1>3 DEF MainPhase, Closed
<1>6. Kernel'
  BY <1>1, <1>3, <1>5 DEF Inv, Control, Kernel, Closed
<1>7. Steps'
  BY <1>1, <1>3, <1>5 DEF Inv, Control, Steps
<1>8. stopper' \in StopperType /\ proof' \in BOOLEAN
  BY <1>1 DEF Inv, Typed, KernelTyped
<1> QED BY <1>1, <1>3, <1>4, <1>5, <1>6, <1>7, <1>8, SamePublication, RestKeeps

LEMMA KernelServesKeeps == ASSUME Inv, KernelServes PROVE Inv'
<1>1. /\ kernel.at = "running" /\ kernel \in KernelType
      /\ UNCHANGED <<commandVars, publicationVars, arbiterVars, stopVars, ran>>
  BY DEF KernelServes, Inv, Typed, KernelTyped
<1>2. /\ kernel' \in KernelType /\ kernel'.at = "service" /\ kernel'.stop = kernel.stop
      /\ kernel'.current = 0 /\ kernel'.id = kernel.id /\ kernel'.code = kernel.code
      /\ kernel'.done = IF kernel.current = 0 THEN kernel.done ELSE kernel.id
  <2>1. 0 \in 0 .. MaxCommands /\ "service" \in Stopped \cup {"running", "gone"}
    BY BoundsAssumption DEF Stopped
  <2> DEFINE done == IF kernel.current = 0 THEN kernel.done ELSE kernel.id
  <2>2. done \in 0 .. MaxCommands
    BY <1>1 DEF KernelType
  <2>3. kernel' = [kernel EXCEPT !.at = "service", !.current = 0, !.done = done]
    BY <1>1 DEF KernelServes, KernelType
  <2> HIDE DEF done
  <2>4. /\ kernel' \in KernelType /\ kernel'.at = "service" /\ kernel'.stop = kernel.stop
        /\ kernel'.current = 0 /\ kernel'.id = kernel.id /\ kernel'.code = kernel.code
        /\ kernel'.done = done
    BY <1>1, <2>1, <2>2, <2>3 DEF KernelType
  <2> QED BY <2>4 DEF done
<1>3. StopsCounted'
  BY <1>1, <1>2 DEF Inv, Typed, StopsCounted
<1>4. MainPhase' = MainPhase /\ ~Closed /\ ~Closed'
  BY <1>1, <1>2 DEF MainPhase, Closed
<1>5. Kernel'
  <2>1. kernel.current = 0 => ~(kernel.id > kernel.done)
    BY <1>1 DEF Inv, Control, Kernel, Closed
  <2>2. kernel'.done <= kernel'.id /\ ~(kernel'.id > kernel'.done)
    BY <1>1, <1>2, <2>1, BoundsAssumption DEF Inv, Control, Kernel, KernelType
  <2> QED BY <1>1, <1>2, <1>4, <2>2 DEF Inv, Control, Kernel, Closed
<1>6. Steps'
  BY <1>1, <1>2, <1>4 DEF Inv, Control, Steps
<1>7. stopper' \in StopperType /\ proof' \in BOOLEAN
  BY <1>1 DEF Inv, Typed, KernelTyped
<1> QED BY <1>1, <1>2, <1>3, <1>4, <1>5, <1>6, <1>7, SamePublication, RestKeeps

LEMMA Issued ==
    ASSUME Inv, NEW op \in 1 .. MaxCommands + 1, NEW seq \in Nat, Issue(op, seq)
    PROVE  /\ intents' \in Seq(IntentType) /\ Len(intents') = Len(intents) + 1
           /\ Len(intents) \in Nat /\ Len(intents') <= MaxIntents
<1>1. /\ intents \in Seq(IntentType) /\ Len(intents) \in Nat /\ Len(replies) \in Nat
      /\ MaxIntents \in Nat
  BY BoundsAssumption DEF Inv, Typed, PublicationTyped
<1> DEFINE r == [op |-> op, seq |-> seq, after |-> Len(replies)]
<1>2. r \in IntentType
  BY <1>1 DEF IntentType
<1>3. intents' = Append(intents, r) /\ Len(intents) < MaxIntents
  BY DEF Issue
<1> HIDE DEF r
<1> QED BY <1>1, <1>2, <1>3, AppendProperties

LEMMA Rebound ==
    ASSUME Inv, main \in 1 .. MaxCommands, Rebind(main), UNCHANGED <<planned, replies>>
    PROVE  PublicationTyped'
<1>1. /\ regs \in [1 .. MaxCommands -> Record] /\ regs[main] \in Record
      /\ \A c \in 1 .. MaxCommands : regs[c].corr <= Len(intents) /\ regs[c] \in Record
      /\ MaxCommands \in Nat /\ MaxIntents \in Nat /\ MaxStops \in Nat
  BY BoundsAssumption DEF Inv, Typed, PublicationTyped
<1>2. main \in 1 .. MaxCommands + 1 /\ regs[main].last + 1 \in Nat
  <2>1. regs[main].last \in 0 .. MaxStops
    BY <1>1 DEF Record
  <2> QED BY <1>1, <2>1
<1>3. /\ intents' \in Seq(IntentType) /\ Len(intents') = Len(intents) + 1
      /\ Len(intents) \in Nat /\ Len(intents') <= MaxIntents
  BY <1>2, Issued DEF Rebind
<1> DEFINE r == [regs[main] EXCEPT !.corr = Len(intents) + 1]
<1>4. r \in Record /\ r.corr = Len(intents) + 1
  <2> DEFINE n == Len(intents) + 1
  <2>1. n \in 0 .. MaxIntents
    BY <1>1, <1>3
  <2> HIDE DEF n
  <2>2. [regs[main] EXCEPT !.corr = n] \in Record /\ [regs[main] EXCEPT !.corr = n].corr = n
    BY <1>1, <2>1 DEF Record
  <2> QED BY <2>2 DEF n
<1>5. regs' = [regs EXCEPT ![main] = r]
  BY DEF Rebind
<1> HIDE DEF r
<1>6. \A c \in 1 .. MaxCommands : regs'[c].corr <= Len(intents')
  <2> SUFFICES ASSUME NEW c \in 1 .. MaxCommands PROVE regs'[c].corr <= Len(intents')
    OBVIOUS
  <2>1. CASE c = main
    <3>1. regs'[c] = r
      BY <1>1, <1>5, <2>1
    <3> QED BY <1>3, <1>4, <3>1
  <2>2. CASE c # main
    <3>1. regs'[c] = regs[c] /\ regs[c].corr <= Len(intents) /\ regs[c] \in Record
      BY <1>1, <1>5, <2>2
    <3>2. regs[c].corr \in Nat
      BY <1>1, <3>1 DEF Record
    <3> QED BY <1>3, <3>1, <3>2
  <2> QED BY <2>1, <2>2
<1>7. planned' \in 0 .. Len(intents')
  BY <1>3 DEF Inv, Typed, PublicationTyped
<1>8. regs' \in [1 .. MaxCommands -> Record]
  BY <1>1, <1>4, <1>5
<1> QED BY <1>3, <1>6, <1>7, <1>8 DEF Inv, Typed, PublicationTyped

\* A CAPTURE frame that is offered belongs to a command.
LEMMA CapturedMain ==
    ASSUME Inv, main # 0
    PROVE  main = Len(ops) /\ main \in 1 .. Len(ops) /\ main \in 1 .. MaxCommands
<1>1. main \in {0, Len(ops)} /\ Len(ops) \in Nat /\ Len(ops) <= MaxCommands /\ MaxCommands \in Nat
  BY BoundsAssumption DEF Inv, Typed, CommandsTyped
<1> QED BY <1>1

\* Only correlation tickets and registrations change.
LEMMA PublicationKeeps ==
    ASSUME Inv, UNCHANGED <<commandVars, arbiterVars, stopVars, kernelVars>>, PublicationTyped'
    PROVE  Inv'
<1>1. /\ StopsCounted' /\ Kernel' /\ Steps' /\ (Closed' <=> Closed)
      /\ stopper' \in StopperType /\ proof' \in BOOLEAN /\ kernel' \in KernelType
  BY DEF Inv, Typed, KernelTyped, StopsCounted, Control, Kernel, Steps, MainPhase, Closed
<1> QED BY <1>1, RestKeeps

LEMMA NextStopKeeps == ASSUME Inv, PrepareNextStop PROVE Inv'
<1>1. main # 0
  BY DEF PrepareNextStop, Captured
<1>2. main \in 1 .. MaxCommands
  BY <1>1, CapturedMain
<1>3. PublicationTyped'
  BY <1>2, Rebound DEF PrepareNextStop
<1> QED BY <1>3, PublicationKeeps DEF PrepareNextStop

LEMMA NextCommandKeeps == ASSUME Inv, PrepareNextCommand PROVE Inv'
<1>1. Len(ops) + 1 \in 1 .. MaxCommands + 1
  BY BoundsAssumption DEF Inv, Typed, CommandsTyped
<1>2. /\ intents' \in Seq(IntentType) /\ Len(intents') = Len(intents) + 1
      /\ Len(intents) \in Nat /\ Len(intents') <= MaxIntents
  BY <1>1, Issued DEF PrepareNextCommand
<1>3. PublicationTyped'
  <2>1. planned' \in 0 .. Len(intents') /\ regs' = regs /\ replies' = replies
    BY <1>2 DEF PrepareNextCommand
  <2>2. \A c \in 1 .. MaxCommands : regs[c].corr <= Len(intents')
    <3> SUFFICES ASSUME NEW c \in 1 .. MaxCommands PROVE regs[c].corr <= Len(intents')
      OBVIOUS
    <3>1. regs[c].corr <= Len(intents) /\ regs[c].corr \in Nat
      BY DEF Inv, Typed, PublicationTyped, Record
    <3> QED BY <1>2, <3>1
  <2> QED BY <1>2, <2>1, <2>2 DEF Inv, Typed, PublicationTyped
<1> QED BY <1>3, PublicationKeeps DEF PrepareNextCommand

\* The arbiter has nothing to do: nothing stands on the route, and the kernel has no fields
\* that it did not run.
LEMMA AtRest ==
    ASSUME Inv, Idle
    PROVE  /\ worker.step = "none" /\ ToSet(queue) = {} /\ active = 0
           /\ \A i \in 1 .. Len(tickets) : ~Standing(i)
           /\ ~(kernel.current = 0 /\ kernel.id > kernel.done /\ ~Closed)
<1>1. active = 0 /\ queue = <<>>
  BY DEF Idle
<1>2. worker.step = "none"
  BY <1>1 DEF Inv, Owned, Runs
<1>3. ToSet(queue) = {}
  BY <1>1 DEF ToSet
<1> QED BY <1>1, <1>2, <1>3 DEF Inv, Control, Kernel, Standing, Pre

LEMMA UnwoundKeeps == ASSUME Inv, MainUnwound PROVE Inv'
<1>1. /\ MainEnded /\ scope = NoScope /\ Idle /\ main' = 0 /\ resume' = 0
      /\ UNCHANGED <<ops, scope, stops, epoch, publicationVars, arbiterVars, stopVars, kernelVars>>
  BY DEF MainUnwound, MainAdmissible
<1>2. worker.step = "none" /\ ToSet(queue) = {} /\ active = 0
      /\ ~(kernel.current = 0 /\ kernel.id > kernel.done /\ ~Closed)
  BY <1>1, AtRest
<1>3. ArbiterTyped' /\ Owned' /\ Fenced'
  <2>1. ops' \in Seq(OpType) /\ Len(ops) <= Len(ops')
    BY <1>1 DEF Inv, Typed, CommandsTyped
  <2> QED BY <1>1, <2>1, RestKeepsArbiter DEF Inv, Closed
<1>4. Typed'
  <2>1. resume' \in 0 .. Len(tickets')
    BY <1>1 DEF Inv, Typed, ArbiterTyped
  <2> QED BY <1>1, <1>3, <2>1, SamePublication DEF Inv, Typed, CommandsTyped, KernelTyped, StopsCounted
<1>5. Routed'
  BY <1>1, <1>2 DEF Routed, Standing, Pre
<1>6. Scopes'
  BY <1>1 DEF Inv, Control, Scopes, NoScope
<1>7. Steps'
  BY <1>1, <1>2 DEF Steps
<1>8. Kernel'
  <2>1. kernel.at \in {"service", "gone"}
    BY <1>1 DEF MainEnded, Inv, Control, Kernel, MainPhase
  <2> QED BY <1>1, <1>2, <2>1 DEF Inv, Control, Kernel, Closed
<1>9. Ran'
  BY <1>1 DEF Inv, Control, Ran
<1> QED BY <1>3, <1>4, <1>5, <1>6, <1>7, <1>8, <1>9 DEF Inv, Control

\* The ticket that a submission adds, behind what was queued.
LEMMA SubmissionMoves ==
    ASSUME Inv, NEW kind \in Kinds, NEW op \in 1 .. MaxCommands, NEW phase \in {"queued", "settled"},
           Submits(kind, op, phase)
    PROVE  LET n == Len(tickets) + 1
           IN  /\ Len(tickets) \in Nat /\ tickets' \in Seq(TicketType) /\ Len(tickets') = n
               /\ \A i \in 1 .. Len(tickets) : tickets'[i] = tickets[i]
               /\ tickets'[n].kind = kind /\ tickets'[n].epoch = epoch
               /\ \A i \in ToSet(queue') : i \in ToSet(queue) \/ (i = n /\ phase = "queued")
<1> DEFINE n == Len(tickets) + 1
<1>0. /\ tickets \in Seq(TicketType) /\ Len(tickets) \in Nat /\ epoch \in Nat /\ queue \in Seq(Nat)
  BY DEF Inv, Typed, ArbiterTyped, CommandsTyped
<1>1. PICK outcome \in {"none", "cancelled"} :
          tickets' = Append(tickets, NewTicket(kind, op, phase, outcome))
  BY DEF Submits
<1> DEFINE u == NewTicket(kind, op, phase, outcome)
<1>2. NoContext \in Context
  BY BoundsAssumption DEF NoContext, Context
<1>3. u \in TicketType /\ u.kind = kind /\ u.epoch = epoch
  BY <1>0, <1>2 DEF NewTicket, TicketType, Outcomes
<1>4. tickets' = Append(tickets, u)
  BY <1>1
<1> HIDE DEF u
<1>5. /\ tickets' \in Seq(TicketType) /\ Len(tickets') = n /\ tickets'[n] = u
      /\ \A i \in 1 .. Len(tickets) : tickets'[i] = tickets[i]
  BY <1>0, <1>3, <1>4, AppendProperties
<1>6. \A i \in ToSet(queue') : i \in ToSet(queue) \/ (i = n /\ phase = "queued")
  <2>1. CASE phase = "queued"
    <3>1. queue' = Append(queue, n) /\ n \in Nat
      BY <1>0, <2>1 DEF Submits
    <3>2. n \notin ToSet(queue)
      <4>1. n \notin 1 .. Len(tickets)
        BY <1>0
      <4>2. \A k \in DOMAIN queue : queue[k] \in 1 .. Len(tickets)
        BY DEF Inv, Owned
      <4> HIDE DEF n
      <4> QED BY <4>1, <4>2 DEF ToSet
    <3> HIDE DEF n
    <3>3. ToSet(queue') = ToSet(queue) \cup {n}
      <4>1. Distinct(queue)
        BY DEF Inv, Owned
      <4> QED BY <1>0, <3>1, <3>2, <4>1, AppendDistinct
    <3> QED BY <2>1, <3>3
  <2>2. CASE phase # "queued"
    BY <2>2 DEF Submits
  <2> QED BY <2>1, <2>2
<1> QED BY <1>0, <1>3, <1>5, <1>6

LEMMA Submitted ==
    ASSUME Inv, NEW kind, NEW op, Submit(kind, op)
    PROVE  Submits(kind, op, "queued") /\ UNCHANGED <<active, worker>>
BY DEF Submit, Submits

\* A new command: the one before it is over, and its ticket is alone.
LEMMA CommandKeeps ==
    ASSUME Inv, MainAdmissible, Accepts, NEW phase \in {"admitted", "failed_before_dispatch"},
           NewCommand(phase), planned' \in {0, planned},
           Submits("main", Len(ops) + 1, IF phase = "admitted" THEN "queued" ELSE "settled"),
           UNCHANGED <<scope, stops, epoch, intents, replies, active, worker, stopVars, kernelVars>>
    PROVE  Inv'
<1> DEFINE c == Len(ops) + 1
           n == Len(tickets) + 1
           state == IF phase = "admitted" THEN "queued" ELSE "settled"
<1>1. /\ MainEnded /\ scope = NoScope /\ Idle /\ Len(ops) < MaxCommands /\ Len(tickets) < MaxTickets
      /\ ~Closed
  BY DEF MainAdmissible, Accepts
<1>2. /\ worker.step = "none" /\ ToSet(queue) = {} /\ active = 0
      /\ ~(kernel.current = 0 /\ kernel.id > kernel.done /\ ~Closed)
  BY <1>1, AtRest
<1>3. /\ ops \in Seq(OpType) /\ Len(ops) \in Nat /\ MaxCommands \in Nat /\ MaxStops \in Nat
      /\ stops \in 0 .. MaxStops /\ planned \in 0 .. Len(intents) /\ Len(intents) <= MaxIntents
      /\ Len(intents) \in Nat /\ MaxIntents \in Nat
  BY BoundsAssumption DEF Inv, Typed, CommandsTyped, PublicationTyped
<1>4. c \in 1 .. MaxCommands /\ state \in {"queued", "settled"}
  BY <1>1, <1>3
<1>5. NewOperation(phase) \in OpType /\ NewOperation(phase).phase = phase
      /\ NewOperation(phase).attempted = FALSE
  <2>1. 0 \in 0 .. MaxStops /\ phase \in Phases
    BY <1>3 DEF Phases
  <2>2. NewOperation(phase) \in OpType
    BY <2>1 DEF NewOperation, OpType
  <2>3. NewOperation(phase).phase = phase
    BY DEF NewOperation
  <2>4. NewOperation(phase).attempted = FALSE
    BY Zenon DEF NewOperation
  <2> QED BY <2>2, <2>3, <2>4
<1>6. /\ ops' \in Seq(OpType) /\ Len(ops') = c /\ ops'[c] = NewOperation(phase)
      /\ \A d \in 1 .. Len(ops) : ops'[d] = ops[d]
  <2> DEFINE o == NewOperation(phase)
  <2>1. ops' = Append(ops, o)
    BY DEF NewCommand
  <2> HIDE DEF o
  <2>2. o \in OpType
    BY <1>5 DEF o
  <2>3. /\ ops' \in Seq(OpType) /\ Len(ops') = c /\ ops'[c] = o
        /\ \A d \in 1 .. Len(ops) : ops'[d] = ops[d]
    BY <1>3, <2>1, <2>2, AppendProperties
  <2> QED BY <2>3 DEF o
<1>7. main' = c /\ resume' = 0 /\ main' # 0 /\ MainPhase' = phase
  BY <1>3, <1>5, <1>6 DEF NewCommand, MainPhase
<1>8. /\ Len(tickets) \in Nat /\ tickets' \in Seq(TicketType) /\ Len(tickets') = n
      /\ \A i \in 1 .. Len(tickets) : tickets'[i] = tickets[i]
      /\ tickets'[n].kind = "main" /\ tickets'[n].epoch = epoch
      /\ \A i \in ToSet(queue') : i = n /\ state = "queued"
  BY <1>2, <1>4, SubmissionMoves DEF Kinds
<1>9. ArbiterTyped' /\ Owned' /\ Fenced'
  <2>1. /\ main' \in 1 .. Len(ops') /\ Len(ops) <= Len(ops') /\ Len(ops') <= MaxCommands
        /\ Submits("main", main', state) /\ (Closed' <=> Closed)
    BY <1>3, <1>4, <1>6, <1>7 DEF Closed
  <2> QED BY <1>1, <1>4, <1>6, <1>7, <2>1, SubmissionKeepsArbiter DEF Inv, Kinds
<1>10. PublicationTyped'
  <2> DEFINE r == [prior |-> Baseline, last |-> 0, stop |-> 0, corr |-> planned, live |-> TRUE]
  <2>1. r \in Record /\ r.corr = planned
    BY <1>3 DEF Baseline, Record
  <2>2. regs' = [regs EXCEPT ![c] = r]
    BY DEF NewCommand
  <2> HIDE DEF r
  <2>3. planned' \in 0 .. Len(intents)
    BY <1>3
  <2>4. /\ regs' \in [1 .. MaxCommands -> Record]
        /\ \A d \in 1 .. MaxCommands : regs'[d].corr <= Len(intents)
    BY <1>3, <1>4, <2>1, <2>2 DEF Inv, Typed, PublicationTyped
  <2> QED BY <2>3, <2>4 DEF Inv, Typed, PublicationTyped
<1>11. Typed'
  <2>1. CommandsTyped'
    BY <1>3, <1>4, <1>6, <1>7, <1>8 DEF Inv, Typed, CommandsTyped
  <2>2. KernelTyped' /\ StopsCounted'
    BY DEF Inv, Typed, KernelTyped, StopsCounted
  <2> QED BY <1>9, <1>10, <2>1, <2>2 DEF Typed
<1> HIDE DEF c, n
<1>12. Routed'
  <2>1. worker'.step = "none"
    BY <1>2
  <2>2. PICK m : m = n
    OBVIOUS
  <2>3. phase = "admitted" => Belongs(m)'
    BY <1>1, <1>7, <1>8, <2>2 DEF Belongs
  <2>4. \A i \in ToSet(queue') : i = m /\ phase = "admitted"
    BY <1>8, <2>2 DEF state
  <2> QED BY <2>1, <2>3, <2>4 DEF Routed, Standing, Pre
<1>13. Scopes'
  <2>1. \A d \in 1 .. Len(ops') :
            ops'[d].phase \in {"suspended_capture", "suspended_user"} => ops'[d].pending # 0
    <3>1. \A d \in 1 .. Len(ops') : d \in 1 .. Len(ops) \/ d = c
      BY <1>3, <1>6 DEF c
    <3> QED BY <1>5, <1>6, <3>1 DEF Inv, Control, Scopes
  <2> QED BY <1>1, <1>7, <2>1 DEF Inv, Control, Scopes, NoScope
<1>14. Steps'
  BY <1>2 DEF Steps
<1>15. Kernel'
  <2>1. kernel.at \in {"service", "gone"}
    BY <1>1 DEF MainEnded, Inv, Control, Kernel, MainPhase
  <2>2. kernel.id <= Len(ops')
    <3>1. kernel.id <= Len(ops) /\ kernel.id \in Nat
      BY BoundsAssumption DEF Inv, Typed, KernelTyped, KernelType, Control, Kernel
    <3> QED BY <1>3, <1>6, <3>1 DEF c
  <2> QED BY <1>1, <1>2, <2>1, <2>2 DEF Inv, Control, Kernel, Closed
<1>16. Ran'
  <2>1. \A d \in 1 .. Len(ops') : d \in 1 .. Len(ops) \/ d = c
    BY <1>3, <1>6 DEF c
  <2>2. \A d \in 1 .. Len(ops) : d \in 1 .. Len(ops')
    BY <1>3, <1>6 DEF c
  <2>3. ~ops'[c].attempted
    BY <1>5, <1>6
  <2>4. \A d \in 1 .. Len(ops') : ops'[d].attempted => ops'[d].phase # "admitted"
    BY <1>6, <2>1, <2>3 DEF Inv, Control, Ran
  <2> QED BY <1>6, <2>2, <2>4 DEF Inv, Control, Ran
<1> QED BY <1>9, <1>11, <1>12, <1>13, <1>14, <1>15, <1>16 DEF Inv, Control

LEMMA SubmitMainKeeps == ASSUME Inv, SubmitMain PROVE Inv'
<1>1. Submits("main", Len(ops) + 1, "queued") /\ UNCHANGED <<active, worker>>
  BY Submitted DEF SubmitMain
<1> QED BY <1>1, CommandKeeps DEF SubmitMain

LEMMA WithdrawnKeeps == ASSUME Inv, MainWithdrawn PROVE Inv'
<1>1. Submits("main", Len(ops) + 1, "settled")
  BY DEF MainWithdrawn, Submits
<1> QED BY <1>1, CommandKeeps DEF MainWithdrawn

\* A resume of the paused command: nothing else of its route may be under way.
LEMMA ResumeKeeps ==
    ASSUME Inv, main # 0, Accepts, Len(tickets) < MaxTickets, NEW kind \in {"resume", "debug"},
           Submits(kind, main, "queued"), UNCHANGED <<active, worker>>,
           UNCHANGED <<ops, main, scope, stops, epoch, stopVars, kernelVars>>, PublicationTyped',
           \/ kind = "resume" /\ Captured /\ ~ResumeInFlight /\ resume' = Len(tickets) + 1
           \/ /\ kind = "debug" /\ scope = NoScope /\ MainPhase = "suspended_user"
              /\ resume' = resume
    PROVE  Inv'
<1> DEFINE n == Len(tickets) + 1
<1>1. main \in 1 .. Len(ops) /\ main \in 1 .. MaxCommands /\ ~Closed
  BY CapturedMain DEF Accepts
<1>2. /\ Len(tickets) \in Nat /\ tickets' \in Seq(TicketType) /\ Len(tickets') = n
      /\ \A i \in 1 .. Len(tickets) : tickets'[i] = tickets[i]
      /\ tickets'[n].kind = kind /\ tickets'[n].epoch = epoch
      /\ \A i \in ToSet(queue') : i \in ToSet(queue) \/ i = n
  BY <1>1, SubmissionMoves DEF Kinds
<1>3. ArbiterTyped' /\ Owned' /\ Fenced'
  <2>1. /\ main' \in 1 .. Len(ops') /\ Len(ops) <= Len(ops') /\ Len(ops') <= MaxCommands
        /\ ops' \in Seq(OpType) /\ (Closed' <=> Closed) /\ Submits(kind, main', "queued")
    BY <1>1 DEF Closed, Inv, Typed, CommandsTyped
  <2> QED BY <1>1, <2>1, SubmissionKeepsArbiter DEF Inv, Kinds
<1>4. resume \in 0 .. Len(tickets) /\ active \in 0 .. Len(tickets)
  BY DEF Inv, Typed, CommandsTyped, ArbiterTyped
<1>5. Typed'
  <2>1. resume' \in 0 .. Len(tickets')
    BY <1>2, <1>4
  <2> QED BY <1>3, <2>1 DEF Inv, Typed, CommandsTyped, KernelTyped, StopsCounted
<1>6. MainPhase' = MainPhase
  BY DEF MainPhase
<1>7. active # 0 => tickets'[active] = tickets[active]
  BY <1>2, <1>4
<1>8. PICK m : m = n
  OBVIOUS
<1>9. Belongs(m)'
  <2>1. kind = "resume" => scope.context = "ready" /\ MainPhase = "suspended_capture" /\ resume' = n
    BY DEF Captured, CaptureReady, MainPhase
  <2> QED BY <1>2, <1>6, <1>8, <2>1 DEF Belongs
<1>10. ASSUME NEW i \in 1 .. Len(tickets), Standing(i), tickets[i].epoch = epoch
       PROVE  kind = "debug" /\ Belongs(i)
  <2>1. Belongs(i) /\ tickets[i] \in TicketType
    BY <1>10 DEF Inv, Control, Routed, Typed, ArbiterTyped
  <2>2. ASSUME kind = "resume" PROVE FALSE
    <3>1. scope # NoScope /\ ~ResumeInFlight
      BY <2>2 DEF Captured, CaptureReady, NoScope
    <3>2. i = resume /\ resume # 0
      BY <2>1, <3>1 DEF Belongs, TicketType, Kinds
    <3>3. tickets[i].phase = "settled"
      BY <3>1, <3>2 DEF ResumeInFlight
    <3>4. tickets[i].phase = "queued" \/ i = active
      BY <1>10 DEF Standing, Inv, Owned, ToSet
    <3>5. i = active => tickets[i].phase \in {"running", "unknown"}
      BY DEF Inv, Owned
    <3> QED BY <3>3, <3>4, <3>5
  <2> QED BY <2>1, <2>2
<1>11. Routed'
  <2>1. worker.step \in Pre => tickets[active].epoch = epoch /\ active # 0
    BY PreStands DEF Runs
  <2>2. worker'.step \in Pre => tickets'[active'].epoch = epoch'
    BY <1>7, <2>1
  <2>3. ASSUME NEW i \in 1 .. Len(tickets'), Standing(i)', tickets'[i].epoch = epoch'
        PROVE  Belongs(i)'
    <3>1. CASE i = m
      BY <1>9, <3>1
    <3>2. CASE i # m
      <4>1. i \in 1 .. Len(tickets)
        BY <1>2, <1>8, <3>2
      <4>2. Standing(i)
        BY <1>2, <1>8, <2>3, <3>2 DEF Standing
      <4>3. tickets'[i] = tickets[i]
        BY <1>2, <4>1
      <4>4. kind = "debug" /\ Belongs(i)
        BY <1>10, <2>3, <4>1, <4>2, <4>3
      <4> QED BY <1>6, <4>3, <4>4 DEF Belongs
    <3> QED BY <3>1, <3>2
  <2> QED BY <2>2, <2>3 DEF Routed
<1>12. Scopes' /\ Ran'
  BY <1>6 DEF Inv, Control, Scopes, Ran
<1>13. Steps'
  <2>1. worker.step # "none" => active # 0
    BY DEF Inv, Owned, Runs
  <2> QED BY <1>6, <1>7, <2>1 DEF Inv, Control, Steps
<1>14. Kernel'
  BY <1>6, <1>7 DEF Inv, Control, Kernel, Closed
<1> QED BY <1>3, <1>5, <1>11, <1>12, <1>13, <1>14 DEF Inv, Control

LEMMA SubmitResumeKeeps == ASSUME Inv, SubmitResume PROVE Inv'
<1>1. /\ Captured /\ ~ResumeInFlight /\ Accepts /\ Len(tickets) < MaxTickets /\ main # 0
      /\ Submits("resume", main, "queued") /\ UNCHANGED <<active, worker>>
      /\ resume' = Len(tickets) + 1
      /\ UNCHANGED <<ops, main, scope, stops, epoch, planned, replies, stopVars, kernelVars>>
  BY Submitted DEF SubmitResume, Captured
<1>2. main \in 1 .. MaxCommands
  BY <1>1, CapturedMain
<1>3. PublicationTyped'
  BY <1>1, <1>2, Rebound, SamePublication DEF SubmitResume
<1> QED BY <1>1, <1>3, ResumeKeeps

LEMMA SubmitDebugKeeps == ASSUME Inv, SubmitDebug PROVE Inv'
<1>1. /\ main # 0 /\ MainPhase = "suspended_user" /\ scope = NoScope /\ Accepts
      /\ Len(tickets) < MaxTickets
      /\ Submits("debug", main, "queued") /\ UNCHANGED <<active, worker>>
      /\ UNCHANGED <<commandVars, publicationVars, stopVars, kernelVars>>
  BY Submitted DEF SubmitDebug, MainPhase
<1> QED BY <1>1, SamePublication, ResumeKeeps

LEMMA RequestStopKeeps == ASSUME Inv, RequestStop PROVE Inv'
<1>1. /\ UNCHANGED <<commandVars, publicationVars, active, worker, proof, kernelVars>>
      /\ tickets' \in Seq(TicketType) /\ Len(tickets') = Len(tickets)
      /\ \A j \in 1 .. Len(tickets) :
            /\ tickets'[j].kind = tickets[j].kind /\ tickets'[j].op = tickets[j].op
            /\ tickets'[j].epoch = tickets[j].epoch /\ tickets'[j].ever = tickets[j].ever
      /\ \A j \in 1 .. Len(tickets) :
            tickets'[j].phase = tickets[j].phase \/ tickets[j].phase = "queued"
      /\ ToSet(queue') \subseteq ToSet(queue) /\ stopper' \in StopperType
  BY StopMoves DEF Inv
<1>2. ArbiterTyped' /\ Owned' /\ Fenced'
  BY StopKeepsArbiter DEF Inv
<1>3. Typed'
  BY <1>1, <1>2, SamePublication DEF Inv, Typed, CommandsTyped, KernelTyped, StopsCounted
<1>4. active # 0 => /\ tickets'[active].kind = tickets[active].kind
                    /\ tickets'[active].ever = tickets[active].ever
                    /\ tickets'[active].epoch = tickets[active].epoch
                    /\ tickets'[active].phase = tickets[active].phase
  <2>1. active \in 0 .. Len(tickets) /\ Len(tickets) \in Nat
    BY DEF Inv, Typed, ArbiterTyped
  <2>2. active # 0 => active \in 1 .. Len(tickets) /\ tickets[active].phase # "queued"
    BY <2>1 DEF Inv, Owned
  <2> QED BY <1>1, <2>2
<1>5. MainPhase' = MainPhase
  BY <1>1 DEF MainPhase
<1>6. worker.step # "none" => active # 0
  BY DEF Inv, Owned, Runs
<1>7. Routed'
  <2>1. \A i : Standing(i)' => Standing(i)
    BY <1>1 DEF Standing
  <2>2. worker'.step \in Pre => tickets'[active'].epoch = epoch'
    BY <1>1, <1>4, <1>6 DEF Inv, Control, Routed, Pre
  <2>3. ASSUME NEW i \in 1 .. Len(tickets), Standing(i)', tickets'[i].epoch = epoch'
        PROVE  Belongs(i)'
    <3>1. Belongs(i)
      BY <1>1, <2>1, <2>3 DEF Inv, Control, Routed
    <3> QED BY <1>1, <1>5, <3>1 DEF Belongs
  <2> QED BY <1>1, <2>2, <2>3 DEF Routed
<1>8. Scopes' /\ Ran'
  BY <1>1, <1>5 DEF Inv, Control, Scopes, Ran
<1>9. Steps'
  BY <1>1, <1>4, <1>5, <1>6 DEF Inv, Control, Steps
<1>10. Kernel'
  BY <1>1, <1>4, <1>5 DEF Inv, Control, Kernel, Closed
<1> QED BY <1>2, <1>3, <1>7, <1>8, <1>9, <1>10 DEF Inv, Control

LEMMA ExitKeeps == ASSUME Inv, TargetTerminated PROVE Inv'
<1>1. /\ tickets' \in Seq(TicketType) /\ Len(tickets') = Len(tickets)
      /\ queue' = <<>> /\ active' = 0 /\ worker' = IdleWorker /\ Closed' /\ kernel' \in KernelType
      /\ kernel'.current = 0 /\ kernel'.id = kernel.id /\ kernel'.done = kernel.done
      /\ kernel'.stop = kernel.stop
      /\ UNCHANGED <<commandVars, publicationVars, stopVars, ran>>
  BY ExitMoves DEF Inv
<1>2. ArbiterTyped' /\ Owned' /\ Fenced'
  BY ExitKeepsArbiter DEF Inv
<1>3. worker'.step = "none" /\ kernel'.at = "gone"
  BY <1>1 DEF IdleWorker, Closed
<1>4. Typed'
  <2>1. CommandsTyped'
    BY <1>1 DEF Inv, Typed, CommandsTyped
  <2>2. KernelTyped'
    BY <1>1 DEF Inv, Typed, KernelTyped
  <2>3. StopsCounted'
    BY <1>1, <1>3 DEF Inv, Typed, StopsCounted
  <2> QED BY <1>1, <1>2, <2>1, <2>2, <2>3, SamePublication DEF Typed
<1>5. Routed'
  <2>1. \A i : ~Standing(i)'
    BY <1>1, <1>3 DEF Standing, ToSet, Pre
  <2> QED BY <1>3, <2>1 DEF Routed, Pre
<1>6. Scopes' /\ Ran'
  BY <1>1 DEF Inv, Control, Scopes, Ran, MainPhase
<1>7. Steps'
  BY <1>3 DEF Steps
<1>8. Kernel'
  BY <1>1, <1>3 DEF Inv, Control, Kernel
<1> QED BY <1>2, <1>4, <1>5, <1>6, <1>7, <1>8 DEF Inv, Control

\* The command ends beside the plan: nothing stands on its route, and the kernel has let go.
LEMMA EndedBeside ==
    ASSUME Inv, main # 0, UNCHANGED <<main, stops, epoch, resume, publicationVars, arbiterVars>>,
           kernel' = kernel, ran' = ran, stopper' \in StopperType, proof' \in BOOLEAN,
           stopper' = stopper \/ stopper'.step = "none",
           NEW phase, NEW pending, phase \in {"failed_before_dispatch", "lost"},
           OpMoves(main, phase, ops[main].attempted, pending),
           scope' \in ScopeType, scope'.seq = scope.seq, scope'.op = scope.op,
           scope.seq = 0 => scope' = scope,
           worker.step = "none", kernel.at \in {"service", "gone"},
           \A i \in 1 .. Len(tickets) : Standing(i) => tickets[i].epoch # epoch
    PROVE  Inv'
<1>1. main \in 1 .. Len(ops) /\ kernel.current = 0
  BY CapturedMain DEF Inv, Control, Kernel
<1>2. ArbiterTyped' /\ Owned' /\ Fenced'
  <2>1. ops' \in Seq(OpType) /\ Len(ops) <= Len(ops') /\ (Closed' <=> Closed)
    BY DEF OpMoves, Inv, Typed, CommandsTyped, Closed
  <2> QED BY <2>1, RestKeepsArbiter DEF Inv
<1>3. Typed'
  <2>1. CommandsTyped'
    BY DEF Inv, Typed, CommandsTyped, OpMoves
  <2>2. KernelTyped' /\ StopsCounted'
    BY DEF Inv, Typed, KernelTyped, StopsCounted
  <2> QED BY <1>2, <2>1, <2>2, SamePublication DEF Typed
<1>4. MainPhase' = phase
  BY DEF MainPhase, OpMoves
<1>5. Routed'
  BY DEF Routed, Standing, Pre
<1>6. Scopes'
  <2>1. \A c \in 1 .. Len(ops') :
            ops'[c].phase \in {"suspended_capture", "suspended_user"} => ops'[c].pending # 0
    BY <1>1, PendingKept
  <2> QED BY <1>4, <2>1 DEF Inv, Control, Scopes
<1>7. Steps'
  BY DEF Steps
<1>8. Kernel'
  <2>1. Len(ops') = Len(ops)
    BY DEF OpMoves
  <2> QED BY <1>1, <1>4, <2>1 DEF Inv, Control, Kernel, Closed
<1>9. Ran'
  BY <1>1, RanKept
<1> QED BY <1>2, <1>3, <1>5, <1>6, <1>7, <1>8, <1>9 DEF Inv, Control

LEMMA StopCancelledKeeps == ASSUME Inv, StopCancelled PROVE Inv'
<1> DEFINE i == stopper.ticket
<1>1. /\ stopper.step = "cancelled" /\ stopper' = NoStopper
      /\ UNCHANGED <<main, scope, stops, epoch, resume, publicationVars, arbiterVars, proof,
                     kernelVars>>
  BY DEF StopCancelled
<1>2. NoStopper \in StopperType /\ NoStopper.step = "none"
  BY BoundsAssumption DEF NoStopper, StopperType, NoContext, Context
<1>3. proof' \in BOOLEAN /\ i \in 1 .. Len(tickets) /\ tickets[i].phase = "settled"
  BY <1>1 DEF Inv, Typed, KernelTyped, Fenced
<1>4. CASE ops' = ops
  <2>1. /\ StopsCounted' /\ Kernel' /\ Steps' /\ (Closed' <=> Closed) /\ kernel' \in KernelType
    BY <1>1, <1>4 DEF Inv, Typed, KernelTyped, StopsCounted, Control, Kernel, Steps, MainPhase, Closed
  <2> QED BY <1>1, <1>2, <1>3, <1>4, <2>1, SamePublication, RestKeeps
<1>5. CASE /\ main # 0 /\ tickets[i].kind = "main" /\ tickets[i].op = main
           /\ MainPhase = "admitted"
           /\ ops' = [ops EXCEPT ![main].phase = "failed_before_dispatch"]
  <2>1. /\ main \in 1 .. Len(ops) /\ ops \in Seq(OpType) /\ ops[main] \in OpType
        /\ scope \in ScopeType
    BY <1>5, CapturedMain DEF Inv, Typed, CommandsTyped
  <2>2. OpMoves(main, "failed_before_dispatch", ops[main].attempted, ops[main].pending)
    <3> DEFINE o == [ops[main] EXCEPT !.phase = "failed_before_dispatch"]
    <3>1. /\ o \in OpType /\ o.phase = "failed_before_dispatch"
          /\ o.attempted = ops[main].attempted /\ o.pending = ops[main].pending
      BY <2>1 DEF OpType, Phases
    <3>2. ops' = [ops EXCEPT ![main] = o]
      BY <1>5, <2>1
    <3> HIDE DEF o
    <3> QED BY <2>1, <3>1, <3>2, ExceptOp
  <2>3. ASSUME NEW j \in 1 .. Len(tickets), Standing(j), tickets[j].epoch = epoch PROVE FALSE
    <3>1. Belongs(j) /\ tickets[j] \in TicketType
      BY <2>3 DEF Inv, Control, Routed, Typed, ArbiterTyped
    <3>2. tickets[j].kind = "main"
      BY <1>5, <3>1 DEF Belongs, TicketType, Kinds
    <3>3. tickets[j].phase # "settled" /\ tickets[j].op = main
      BY <2>3 DEF Standing, Inv, Owned, ToSet, Pre, Runs
    <3>4. j = i
      BY <1>3, <1>5, <3>2, <3>3 DEF Inv, Owned
    <3> QED BY <1>3, <3>3, <3>4
  <2>4. worker.step = "none"
    <3>1. worker.step \notin Pre
      <4> SUFFICES ASSUME worker.step \in Pre PROVE FALSE
        OBVIOUS
      <4>1. Runs /\ tickets[active].epoch = epoch /\ Standing(active)
        BY PreStands
      <4>2. active \in 1 .. Len(tickets)
        BY <4>1, Running
      <4> QED BY <2>3, <4>1, <4>2
    <3>2. worker \in WorkerType
      BY DEF Inv, Typed, ArbiterTyped
    <3> QED BY <1>5, <3>1, <3>2 DEF Inv, Control, Steps, WorkerType, WorkerSteps, Replies
  <2>5. kernel.at \in {"service", "gone"}
    BY <1>5 DEF Inv, Control, Kernel
  <2> HIDE DEF i
  <2> QED BY <1>1, <1>2, <1>3, <1>5, <2>1, <2>2, <2>3, <2>4, <2>5, EndedBeside
<1> QED BY <1>4, <1>5 DEF StopCancelled, MainPhase

LEMMA ConfirmedExitKeeps == ASSUME Inv, NEW i \in 1 .. Len(tickets), ConfirmedExit(i) PROVE Inv'
<1>1. /\ tickets[i].outcome = "terminated" /\ scope' = Lost(tickets[i].context) /\ proof' = TRUE
      /\ UNCHANGED <<main, stops, epoch, resume, publicationVars, arbiterVars, stopper, kernelVars>>
  BY DEF ConfirmedExit
<1>2. /\ kernel.at = "gone" /\ active = 0 /\ queue = <<>>
  BY <1>1 DEF Inv, Fenced, Closed
<1>3. Idle
  BY <1>2 DEF Idle
<1>4. /\ worker.step = "none" /\ \A j \in 1 .. Len(tickets) : ~Standing(j)
  BY <1>3, AtRest
<1>5. /\ scope' \in ScopeType /\ scope'.seq = scope.seq /\ scope'.op = scope.op
      /\ scope.seq = 0 => scope' = scope
  <2>1. scope \in ScopeType
    BY DEF Inv, Typed, CommandsTyped
  <2> QED BY <1>1, <2>1 DEF Lost, ScopeType
<1>6. stopper' \in StopperType /\ proof' \in BOOLEAN
  BY <1>1 DEF Inv, Typed, KernelTyped
<1>7. CASE ops' = ops
  <2>1. ArbiterTyped' /\ Owned' /\ Fenced'
    <3>1. ops' \in Seq(OpType) /\ Len(ops) <= Len(ops') /\ (Closed' <=> Closed)
      BY <1>1, <1>7 DEF Inv, Typed, CommandsTyped, Closed
    <3> QED BY <1>1, <3>1, RestKeepsArbiter DEF Inv
  <2>2. Typed'
    BY <1>1, <1>5, <1>6, <1>7, <2>1, SamePublication
       DEF Inv, Typed, CommandsTyped, KernelTyped, StopsCounted
  <2>3. Routed' /\ Steps'
    BY <1>1, <1>4 DEF Routed, Standing, Pre, Steps
  <2>4. Scopes' /\ Ran' /\ Kernel'
    BY <1>1, <1>5, <1>7 DEF Inv, Control, Scopes, Ran, Kernel, MainPhase, Closed
  <2> QED BY <2>1, <2>2, <2>3, <2>4 DEF Inv, Control
<1>8. CASE /\ main # 0 /\ ops' = [ops EXCEPT ![main].phase = "lost", ![main].pending = 0]
  <2>1. main \in 1 .. Len(ops) /\ ops \in Seq(OpType) /\ ops[main] \in OpType
    BY <1>8, CapturedMain DEF Inv, Typed, CommandsTyped
  <2>2. OpMoves(main, "lost", ops[main].attempted, 0)
    <3> DEFINE o == [ops[main] EXCEPT !.phase = "lost", !.pending = 0]
    <3>1. 0 \in 0 .. MaxStops /\ "lost" \in Phases
      BY BoundsAssumption DEF Phases
    <3>2. o \in OpType /\ o.phase = "lost" /\ o.attempted = ops[main].attempted /\ o.pending = 0
      BY <2>1, <3>1 DEF OpType
    <3>3. ops' = [ops EXCEPT ![main] = o]
      BY <1>8, <2>1
    <3> HIDE DEF o
    <3> QED BY <2>1, <3>2, <3>3, ExceptOp
  <2> QED BY <1>1, <1>2, <1>4, <1>5, <1>6, <1>8, <2>2, EndedBeside
<1> QED BY <1>7, <1>8 DEF ConfirmedExit

-----------------------------------------------------------------------------
(* The invariant of the specification, and what follows from it.           *)

LEMMA InitKeeps == ASSUME Init PROVE Inv
<1>1. NoRecord \in Record /\ NoContext \in Context
  BY BoundsAssumption DEF NoRecord, Record, NoContext, Context
<1>2. /\ ops = <<>> /\ tickets = <<>> /\ intents = <<>> /\ replies = <<>> /\ queue = <<>>
      /\ Len(ops) = 0 /\ Len(tickets) = 0 /\ Len(intents) = 0 /\ main = 0 /\ active = 0
      /\ worker = IdleWorker /\ worker.step = "none" /\ scope = NoScope /\ stops = 0
      /\ stopper = NoStopper /\ stopper.step = "none" /\ ran = {} /\ epoch = 1
  BY DEF Init, IdleWorker, NoStopper
<1>3. CommandsTyped
  <2>1. scope \in ScopeType
    BY <1>2, BoundsAssumption DEF NoScope, ScopeType
  <2>2. ops \in Seq(OpType) /\ resume \in 0 .. Len(tickets)
    BY <1>2 DEF Init
  <2> QED BY <1>2, <2>1, <2>2, BoundsAssumption DEF CommandsTyped
<1>4. PublicationTyped
  <2>1. regs = [c \in 1 .. MaxCommands |-> NoRecord] /\ planned = 0
    BY DEF Init
  <2>2. \A c \in 1 .. MaxCommands : regs[c] = NoRecord /\ regs[c].corr = 0
    BY <2>1 DEF NoRecord
  <2>3. regs \in [1 .. MaxCommands -> Record]
    BY <1>1, <2>1
  <2>4. intents \in Seq(IntentType) /\ replies \in Seq(ReplyType)
    BY <1>2
  <2> QED BY <1>2, <2>1, <2>2, <2>3, <2>4, BoundsAssumption DEF PublicationTyped
<1>5. ArbiterTyped
  <2>1. tickets \in Seq(TicketType) /\ queue \in Seq(Nat)
    BY <1>2
  <2>2. worker \in WorkerType
    BY <1>1, <1>2 DEF IdleWorker, WorkerType, WorkerSteps
  <2> QED BY <1>2, <2>1, <2>2, BoundsAssumption DEF ArbiterTyped
<1>6. /\ kernel.at = "service" /\ kernel.current = 0 /\ kernel.id = 0 /\ kernel.done = 0
      /\ kernel.stop = 0 /\ kernel \in KernelType /\ proof = FALSE
  BY BoundsAssumption DEF Init, KernelType, Stopped
<1>7. KernelTyped
  <2>1. stopper \in StopperType
    BY <1>1, <1>2, BoundsAssumption DEF NoStopper, StopperType
  <2> QED BY <1>2, <1>6, <2>1 DEF KernelTyped
<1>8. StopsCounted
  BY <1>2, <1>6 DEF StopsCounted
<1>9. Owned /\ Fenced
  BY <1>2, <1>6 DEF Owned, Fenced, Runs, Distinct, Closed
<1>10. Routed /\ Scopes /\ Steps /\ Kernel /\ Ran
  <2>1. Routed
    BY <1>2 DEF Routed, Pre
  <2>2. Scopes
    BY <1>2 DEF Scopes, NoScope
  <2>3. Steps
    BY <1>2 DEF Steps
  <2>4. Kernel
    BY <1>2, <1>6 DEF Kernel
  <2>5. Ran
    BY <1>2 DEF Ran
  <2> QED BY <2>1, <2>2, <2>3, <2>4, <2>5
<1> QED BY <1>3, <1>4, <1>5, <1>7, <1>8, <1>9, <1>10 DEF Inv, Typed, Control

LEMMA StutterKeeps == ASSUME Inv, UNCHANGED vars PROVE Inv'
<1>1. Typed'
  BY DEF vars, Inv, Typed, CommandsTyped, PublicationTyped, ArbiterTyped, KernelTyped, StopsCounted
<1>2. Owned' /\ Fenced'
  BY DEF vars, Inv, Owned, Fenced, Runs, Closed
<1>3. Routed' /\ Scopes' /\ Kernel' /\ Ran'
  BY DEF vars, Inv, Control, Routed, Standing, Belongs, Scopes, Kernel, Ran, MainPhase, Closed
<1>4. Steps'
  BY DEF vars, Inv, Control, Steps, MainPhase
<1> QED BY <1>1, <1>2, <1>3, <1>4 DEF Inv, Control

LEMMA NextKeeps == ASSUME Inv, [Next]_vars PROVE Inv'
<1>1. CASE UNCHANGED vars
  BY <1>1, StutterKeeps
<1>2. CASE Submission
  BY <1>2, SubmitMainKeeps, WithdrawnKeeps, UnwoundKeeps, NextStopKeeps, NextCommandKeeps,
     SubmitResumeKeeps, SubmitDebugKeeps DEF Submission
<1>3. CASE Plan
  <2>1. CASE Take \/ Blocked \/ Prepare \/ WriteCode \/ WriteId \/ Writeback
    BY <2>1, TakeKeeps, BlockedKeeps, PrepareKeeps, WriteCodeKeeps, WriteIdKeeps, WritebackKeeps
  <2>2. CASE ContinueEnters \/ ContinueTooLate \/ ContinueAcknowledged \/ ContinueUnanswered
    BY <2>2, EntersKeeps, TooLateKeeps, AcknowledgedKeeps, UnansweredKeeps
  <2>3. CASE AwaitEnds \/ ServiceStop \/ ReadCompleted \/ ReadValues \/ DebugStop
    BY <2>3, AwaitEndsKeeps, ServiceStopKeeps, ReadCompletedKeeps, ReadValuesKeeps, DebugStopKeeps
  <2>4. CASE CaptureStop \/ OpenScope \/ PolicyReads \/ PolicyRecords
    BY <2>4, CaptureStopKeeps, OpenScopeKeeps, PolicyReadsKeeps, PolicyRecordsKeeps
  <2> QED BY <1>3, <2>1, <2>2, <2>3, <2>4 DEF Plan
<1>4. CASE Stopping
  BY <1>4, AskStopKeeps, ConfirmedExitKeeps, RequestStopKeeps, StopCancelledKeeps, ExitKeeps
     DEF Stopping
<1>5. CASE KernelStops \/ KernelServes
  BY <1>5, KernelStopsKeeps, KernelServesKeeps
<1> QED BY <1>1, <1>2, <1>3, <1>4, <1>5 DEF Next

LEMMA InvHolds == Spec => []Inv
<1>1. Init => Inv
  BY InitKeeps
<1>2. Inv /\ [Next]_vars => Inv'
  BY NextKeeps
<1> QED BY <1>1, <1>2, PTL DEF Spec

\* Types hold in every reachable state; one ticket owns the worker and is the
\* only one running or unknown; a CAPTURE scope is of the current command,
\* which is paused at CAPTURE only inside one; and a suspended command names
\* the stop it is paused at (ExecutionController, RdbgArbiter).
THEOREM CommandsTypeCorrect == Spec => []TypeOK
<1>1. ASSUME Inv PROVE TypeOK
  <2>1. /\ ops \in Seq([phase : Phases, attempted : BOOLEAN, pending : 0 .. MaxStops])
        /\ Len(ops) <= MaxCommands /\ main \in {0, Len(ops)} /\ Len(ops) \in Nat
        /\ stops \in 0 .. MaxStops /\ epoch \in Nat /\ resume \in 0 .. Len(tickets)
        /\ planned \in 0 .. Len(intents) /\ regs \in [1 .. MaxCommands -> Record]
        /\ active \in 0 .. Len(tickets) /\ proof \in BOOLEAN
        /\ scope \in ScopeType /\ worker \in WorkerType /\ stopper \in StopperType
        /\ kernel \in KernelType /\ Len(tickets) \in Nat /\ Len(tickets) <= MaxTickets
    BY <1>1 DEF Inv, Typed, CommandsTyped, PublicationTyped, ArbiterTyped, KernelTyped, OpType
  <2>2. /\ scope.seq \in 0 .. MaxStops
        /\ scope.context \in {"opening", "ready", "setup_failed", "closing", "closed"}
        /\ scope.frame \in {"unverified", "confirmed", "released", "lost"}
    BY <2>1 DEF ScopeType
  <2>3. worker.record \in Record
    BY <2>1 DEF WorkerType
  <2>4. stopper.context \in Context
    BY <2>1 DEF StopperType
  <2>5. kernel.at \in Stopped \cup {"running", "gone"}
    BY <2>1 DEF KernelType
  <2>6. resume \in Indices
    BY <2>1, BoundsAssumption DEF Indices
  <2>7. /\ scope.seq <= stops /\ (scope.seq = 0 => scope = NoScope)
        /\ (scope.seq # 0 => main # 0 /\ scope.op = main)
        /\ (main # 0 /\ ops[main].phase = "suspended_capture" => scope.seq # 0)
        /\ \A c \in 1 .. Len(ops) :
              ops[c].phase \in {"suspended_capture", "suspended_user"} => ops[c].pending # 0
    BY <1>1 DEF Inv, Control, Scopes, MainPhase
  <2>8. scope.seq \in 0 .. stops
    BY <2>1, <2>2, <2>7, BoundsAssumption
  <2>9. scope.op \in {0, main}
    BY <2>7 DEF NoScope
  <2>10. \A i \in 1 .. Len(tickets) :
            tickets[i].phase \in {"running", "unknown"} <=> i = active
    BY <1>1 DEF Inv, Owned
  <2> QED BY <2>1, <2>2, <2>3, <2>4, <2>5, <2>6, <2>7, <2>8, <2>9, <2>10 DEF TypeOK
<1> QED BY <1>1, InvHolds, PTL

\* The kernel runs only the current command, under its own code and while it
\* is not over; and a command whose dispatch evidence is "no" - which lets the
\* caller try again - has not run and will not (main_dispatch_evidence).
THEOREM RunsAreAdmitted == Spec => []OnlyAdmittedRuns
<1>1. ASSUME Inv PROVE OnlyAdmittedRuns
  <2>1. kernel.current # 0 =>
            /\ kernel.current = main
            /\ ops[main].phase \in {"unknown", "running", "suspended_capture", "suspended_user"}
    BY <1>1 DEF Inv, Control, Kernel, MainPhase
  <2>2. \A pair \in ran : pair[1] = pair[2] /\ ops[pair[1]].attempted
    BY <1>1 DEF Inv, Control, Ran
  <2>3. ASSUME NEW i \in 1 .. Len(tickets), Evidence(tickets[i]) = "no", NEW pair \in ran,
               pair[1] = tickets[i].op
        PROVE  FALSE
    <3>1. ops[tickets[i].op].attempted
      BY <2>2, <2>3
    <3> QED BY <2>3, <3>1 DEF Evidence
  <2> QED BY <2>1, <2>2, <2>3 DEF OnlyAdmittedRuns
<1> QED BY <1>1, InvHolds, PTL

-----------------------------------------------------------------------------
(* A phase that ends a command is its last one.                            *)

\* What a step that registers no command does to the current one.
Steady ==
    /\ main' = main /\ Len(ops') = Len(ops)
    /\ main # 0 /\ MainPhase \in TerminalPhases => MainPhase' = MainPhase

LEMMA SameIsSteady == ASSUME main' = main, ops' = ops PROVE Steady
BY DEF Steady, MainPhase

\* A step that changes only the current command, which is not over.
LEMMA OpenIsSteady ==
    ASSUME Inv, NEW o, ops' = [ops EXCEPT ![main] = o], main' = main, main # 0,
           MainPhase \notin TerminalPhases
    PROVE  Steady
<1>1. ops \in Seq(OpType) /\ main \in 1 .. Len(ops)
  BY CapturedMain DEF Inv, Typed, CommandsTyped
<1>2. DOMAIN ops' = DOMAIN ops /\ Len(ops') = Len(ops)
  BY <1>1
<1> QED BY <1>2 DEF Steady

\* FailsCommand ends an admitted command only.
LEMMA FailIsSteady ==
    ASSUME Inv, Runs, worker.step \in EntrySteps, FailsCommand, main' = main PROVE Steady
<1>1. PICK phase : /\ OpMoves(main, phase, ops[main].attempted, ops[main].pending)
                   /\ \/ phase = MainPhase
                      \/ /\ worker.step \in Pre /\ tickets[active].kind = "main"
                         /\ phase = "failed_before_dispatch"
  BY FailMoves
<1>2. Len(ops') = Len(ops) /\ MainPhase' = phase
  BY <1>1 DEF OpMoves, MainPhase
<1>3. CASE phase = MainPhase
  BY <1>2, <1>3 DEF Steady
<1>4. CASE worker.step \in Pre /\ tickets[active].kind = "main"
  <2>1. MainPhase = "admitted"
    BY <1>4, PreStands DEF Belongs
  <2> QED BY <1>2, <2>1 DEF Steady, TerminalPhases
<1> QED BY <1>1, <1>3, <1>4

LEMMA PlanIsSteady == ASSUME Inv, Plan, ~Take PROVE Steady
<1>1. Runs /\ main' = main /\ Active.op = main /\ main # 0
  <2>1. Runs /\ main' = main
    BY DEF Plan, Blocked, Prepare, WriteCode, WriteId, Write, Writeback, ContinueEnters,
           ContinueTooLate, ContinueAcknowledged, ContinueUnanswered, AwaitEnds, ServiceStop,
           ReadCompleted, ReadValues, DebugStop, CaptureStop, OpenScope, PolicyReads,
           PolicyRecords, Yet, Active, Runs
  <2> QED BY <2>1, Running DEF Active
<1>2. CASE Blocked
  BY <1>1, <1>2, SameIsSteady, FailIsSteady DEF Blocked
<1>3. CASE Prepare
  BY <1>1, <1>3, SameIsSteady, FailIsSteady DEF Prepare, Yet, EntrySteps
<1>4. CASE WriteCode \/ WriteId
  <2>1. worker.step \in {"code", "id"} /\ worker.step \in Pre /\ worker.step \in EntrySteps
    BY <1>4 DEF WriteCode, WriteId, Write, Yet, Pre, EntrySteps
  <2>2. MainPhase = "admitted"
    BY <2>1, PreStands DEF Inv, Control, Steps, Belongs
  <2>3. MainPhase \notin TerminalPhases
    BY <2>2 DEF TerminalPhases
  <2>4. UNCHANGED ops \/ FailsCommand \/ Becomes("unknown")
    BY <1>4 DEF WriteCode, WriteId, Write
  <2> QED BY <1>1, <2>1, <2>3, <2>4, SameIsSteady, FailIsSteady, OpenIsSteady DEF Becomes
<1>5. CASE ContinueEnters
  BY <1>1, <1>5, OpenIsSteady DEF ContinueEnters, Op, MainPhase
<1>6. CASE ContinueAcknowledged \/ ReadCompleted \/ DebugStop \/ CaptureStop
  <2>1. worker.step \in {"sent", "read", "await"}
    BY <1>6 DEF ContinueAcknowledged, ReadCompleted, DebugStop, CaptureStop, Yet
  <2>2. MainPhase \in {"unknown", "running"}
    BY <2>1 DEF Inv, Control, Steps
  <2>3. MainPhase \notin TerminalPhases
    BY <2>2 DEF TerminalPhases
  <2>4. UNCHANGED ops \/ \E o : ops' = [ops EXCEPT ![main] = o]
    <3>1. CASE ContinueAcknowledged
      BY <1>1, <3>1 DEF ContinueAcknowledged, Becomes
    <3>2. CASE ReadCompleted
      BY <1>1, <3>2 DEF ReadCompleted
    <3>3. CASE DebugStop \/ CaptureStop
      BY <1>1, <3>3 DEF DebugStop, CaptureStop, Pauses
    <3> QED BY <1>6, <3>1, <3>2, <3>3
  <2> QED BY <1>1, <2>3, <2>4, SameIsSteady, OpenIsSteady
<1>7. CASE UNCHANGED ops
  BY <1>1, <1>7, SameIsSteady
<1> QED BY <1>2, <1>3, <1>4, <1>5, <1>6, <1>7
        DEF Plan, Writeback, ContinueTooLate, ContinueUnanswered, AwaitEnds, ServiceStop, ReadValues,
            OpenScope, PolicyReads, PolicyRecords

\* Every step but those that register a command, or give its number back.
LEMMA NextIsSteady ==
    ASSUME Inv, Next, ~SubmitMain, ~MainWithdrawn, ~MainUnwound PROVE Steady
<1>1. CASE Plan
  <2>1. CASE Take
    BY <2>1, SameIsSteady DEF Take
  <2> QED BY <1>1, <2>1, PlanIsSteady
<1>2. CASE StopCancelled
  <2>1. CASE main # 0 /\ ops[main].phase = "admitted"
    <3>1. MainPhase \notin TerminalPhases /\ main' = main
      BY <1>2, <2>1 DEF StopCancelled, MainPhase, TerminalPhases
    <3> QED BY <1>2, <2>1, <3>1, SameIsSteady, OpenIsSteady DEF StopCancelled
  <2> QED BY <1>2, <2>1, SameIsSteady DEF StopCancelled
<1>3. CASE \E i \in 1 .. Len(tickets) : ConfirmedExit(i)
  <2>1. CASE main # 0 /\ ~MainEnded
    <3>1. MainPhase \notin TerminalPhases
      BY <2>1 DEF MainEnded, MainPhase
    <3> QED BY <1>3, <2>1, <3>1, SameIsSteady, OpenIsSteady DEF ConfirmedExit
  <2> QED BY <1>3, <2>1, SameIsSteady DEF ConfirmedExit
<1>4. CASE UNCHANGED <<ops, main>>
  BY <1>4, SameIsSteady
<1> QED BY <1>1, <1>2, <1>3, <1>4
        DEF Next, Submission, Stopping, PrepareNextStop, PrepareNextCommand, SubmitResume, SubmitDebug,
            AskStop, RequestStop, TargetTerminated, KernelStops, KernelServes

-----------------------------------------------------------------------------
(* Replies: their numbers, the stops they are about and what they answer.  *)

\* A CAPTURE stop on its way to its reply: it is counted, and not recorded yet.
OnItsWay ==
    worker.step = "open" \/ (worker.step \in {"policy", "record"} /\ worker.yields = "captured")

\* The scope never becomes ready, or the target is gone: its stop has no reply.
NeverReady == scope.context \in {"opening", "setup_failed"} \/ Closed

\* The registration of the current command counts its stops, less one on its way to a reply;
\* it is gone only after the completion, and the finalizer has the one that is stored.
Numbered ==
    main # 0 =>
        LET record == regs[main]
            numbered == record.prior + record.last
        IN  /\ ~record.live =>
                  MainPhase = "completed" /\ worker.step \notin {"values", "policy", "record"}
            /\ record.live /\ OnItsWay => stops = numbered + 1
            /\ record.live /\ ~OnItsWay => stops = numbered \/ NeverReady
            /\ worker.step = "record" => worker.record = record

\* RepliesInOrder, reply by reply.
InOrder ==
    /\ \A i \in DOMAIN replies : \A j \in 1 .. i - 1 :
          /\ replies[j].op <= replies[i].op
          /\ replies[j].op = replies[i].op => replies[j].kind # "completed"
    /\ \A i \in DOMAIN replies : replies[i].kind = "captured" =>
          \A n \in 1 .. replies[i].seq - 1 :
              \E j \in 1 .. i - 1 : replies[j].op = replies[i].op /\ replies[j].seq = n
    /\ \A i \in DOMAIN replies : replies[i].corr # 0 =>
          LET intent == intents[replies[i].corr]
          IN  /\ intent.op = replies[i].op /\ intent.seq = replies[i].seq
              /\ \A j \in intent.after + 1 .. i - 1 : replies[j].kind # "captured"

\* The replies are those that the live registrations count.
Counted ==
    /\ \A j \in DOMAIN replies :
          /\ replies[j].op <= Len(ops) /\ replies[j].corr <= Len(intents)
          /\ replies[j].kind = "completed" => ~regs[replies[j].op].live
    /\ \A c \in 1 .. Len(ops) : regs[c].live =>
          /\ \A n \in 1 .. regs[c].last :
                \E j \in DOMAIN replies : replies[j].op = c /\ replies[j].seq = n
          /\ \A j \in DOMAIN replies : replies[j].op = c => replies[j].seq <= regs[c].last

\* A correlation ticket is for the next command, once this one is over, or for a stop up to
\* the next one; no CAPTURE reply since is of an older command or stop.
Expected ==
    \A x \in DOMAIN intents :
        LET intent == intents[x]
        IN  /\ intent.op <= Len(ops) + 1 /\ intent.after <= Len(replies)
            /\ intent.op > Len(ops) => intent.seq = 1 /\ MainEnded
            /\ intent.op <= Len(ops) /\ regs[intent.op].live => intent.seq <= regs[intent.op].last + 1
            /\ \A j \in intent.after + 1 .. Len(replies) : replies[j].kind = "captured" =>
                  /\ intent.op <= replies[j].op
                  /\ intent.op = replies[j].op => intent.seq <= replies[j].seq

Publishes == Numbered /\ InOrder /\ Counted /\ Expected

\* A step that registers nothing and counts no stop.
LEMMA NumbersKept ==
    ASSUME Inv, Numbered, Steady, stops' = stops,
           main # 0 => /\ regs'[main].live = regs[main].live /\ regs'[main].prior = regs[main].prior
                       /\ regs'[main].last = regs[main].last,
           OnItsWay' => OnItsWay,
           OnItsWay => OnItsWay' \/ NeverReady',
           NeverReady /\ ~OnItsWay => NeverReady',
           worker'.step \in {"values", "policy", "record"} =>
              worker.step \in {"values", "policy", "record"} \/ MainPhase # "completed",
           worker'.step = "record" => worker'.record = regs'[main]
    PROVE  Numbered'
<1> SUFFICES ASSUME main # 0
             PROVE  LET record == regs'[main]
                        numbered == record.prior + record.last
                    IN  /\ ~record.live =>
                              /\ MainPhase' = "completed"
                              /\ worker'.step \notin {"values", "policy", "record"}
                        /\ record.live /\ OnItsWay' => stops = numbered + 1
                        /\ record.live /\ ~OnItsWay' => stops = numbered \/ NeverReady'
                        /\ worker'.step = "record" => worker'.record = record
  BY DEF Numbered, Steady
<1>1. /\ ~regs[main].live =>
             MainPhase = "completed" /\ worker.step \notin {"values", "policy", "record"}
      /\ regs[main].live /\ OnItsWay => stops = regs[main].prior + regs[main].last + 1
      /\ regs[main].live /\ ~OnItsWay =>
             stops = regs[main].prior + regs[main].last \/ NeverReady
  BY DEF Numbered
<1>2. MainPhase = "completed" => MainPhase' = "completed"
  BY DEF Steady, TerminalPhases
<1> QED BY <1>1, <1>2

\* The target does not come back.
LEMMA GoneStays == ASSUME Inv, Next, Closed PROVE Closed'
<1>1. active = 0 /\ ~Runs /\ kernel.at = "gone" /\ kernel \in KernelType
  BY DEF Inv, Fenced, Runs, Closed, Typed, KernelTyped
<1>2. kernel' = kernel \/ kernel'.at = "gone"
  <2>1. ~Plan
    BY <1>1 DEF Plan, Take, Closed, Blocked, Prepare, WriteCode, WriteId, Write, Writeback,
           ContinueEnters, ContinueTooLate, ContinueAcknowledged, ContinueUnanswered, AwaitEnds,
           ServiceStop, ReadCompleted, ReadValues, DebugStop, CaptureStop, OpenScope, PolicyReads,
           PolicyRecords, Yet
  <2> QED BY <1>1, <2>1
          DEF Next, Submission, Stopping, SubmitMain, MainWithdrawn, MainUnwound, PrepareNextStop,
              PrepareNextCommand, SubmitResume, SubmitDebug, AskStop, RequestStop, StopCancelled,
              ConfirmedExit, TargetTerminated, KernelStops, KernelServes
<1> QED BY <1>1, <1>2 DEF Closed

\* The registration of the current command is a record of numbers.
LEMMA CurrentRecord ==
    ASSUME Inv, main # 0
    PROVE  /\ main \in 1 .. Len(ops) /\ main \in 1 .. MaxCommands /\ main = Len(ops)
           /\ regs \in [1 .. MaxCommands -> Record]
           /\ regs[main] \in Record /\ regs[main].prior \in Nat /\ regs[main].last \in Nat
           /\ stops \in Nat /\ stops <= MaxStops /\ scope.seq \in Nat /\ MaxStops \in Nat
<1>1. main \in 1 .. Len(ops) /\ main \in 1 .. MaxCommands /\ main = Len(ops)
  BY CapturedMain
<1>2. /\ regs \in [1 .. MaxCommands -> Record] /\ stops \in 0 .. MaxStops /\ scope \in ScopeType
      /\ MaxStops \in Nat
  BY BoundsAssumption DEF Inv, Typed, PublicationTyped, CommandsTyped
<1>3. regs[main] \in Record
  BY <1>1, <1>2
<1>4. regs[main].prior \in 0 .. MaxStops /\ regs[main].last \in 0 .. MaxStops
  BY <1>3 DEF Record
<1>5. scope.seq \in 0 .. MaxStops
  BY <1>2 DEF ScopeType
<1> QED BY <1>1, <1>2, <1>3, <1>4, <1>5

\* A yield of a recognised stop may be published,
LEMMA MayPublish ==
    ASSUME Inv, Numbered, active # 0, worker.step = "policy", worker.yields # "unrecognised"
    PROVE  Publishable(regs[Active.op])
<1>1. Runs
  BY DEF Inv, Owned
<1>2. Active.op = main /\ main # 0 /\ Op.phase = MainPhase /\ worker.yields \in Replies
  <2>1. worker.yields # "none" /\ worker \in WorkerType
    BY <1>1, Running DEF Inv, Control, Steps
  <2> QED BY <1>1, <2>1, Running DEF Active, Op, MainPhase, WorkerType
<1>3. /\ worker.yields = "completed" => MainPhase = "completed"
      /\ worker.yields = "debug" => MainPhase = "suspended_user"
      /\ worker.yields = "captured" =>
            /\ MainPhase = "suspended_capture" /\ scope.context = "ready"
            /\ scope.frame = "confirmed" /\ scope.seq = stops
  BY DEF Inv, Control, Steps
<1>4. regs[main].live /\ (OnItsWay => stops = regs[main].prior + regs[main].last + 1)
  BY <1>2 DEF Numbered
<1>5. main \in 1 .. Len(ops) /\ regs[main].prior \in Nat /\ regs[main].last \in Nat /\ stops \in Nat
  BY <1>2, CurrentRecord
<1>6. CASE worker.yields = "captured"
  <2>1. stops = regs[main].prior + regs[main].last + 1 /\ scope.seq = stops
    BY <1>3, <1>4, <1>6 DEF OnItsWay
  <2>2. Number(regs[main]) > 0
    BY <1>5, <2>1 DEF Number
  <2>3. scope.op = main
    BY <1>2, <1>3, <1>6 DEF Inv, Control, Scopes
  <2> QED BY <1>2, <1>3, <1>4, <1>6, <2>2, <2>3 DEF Publishable
<1>7. CASE worker.yields = "completed"
  BY <1>2, <1>3, <1>4, <1>7 DEF Publishable
<1>8. CASE worker.yields = "debug"
  <2>1. ops[main].pending # 0
    BY <1>3, <1>5, <1>8 DEF Inv, Control, Scopes, MainPhase
  <2> QED BY <1>2, <1>3, <1>4, <1>8, <2>1 DEF Publishable, Op
<1> QED BY <1>2, <1>6, <1>7, <1>8 DEF Replies

\* and what the policy let through may be recorded.
LEMMA MayRecord ==
    ASSUME Inv, Numbered, active # 0, worker.step = "record"
    PROVE  /\ Active.op = main /\ main # 0 /\ worker.record = regs[main] /\ regs[main].live
           /\ worker.yields = "captured" => Number(regs[main]) = regs[main].last + 1
           /\ Recordable(worker.record)
<1>1. Runs
  BY DEF Inv, Owned
<1>2. Active.op = main /\ main # 0
  BY <1>1, Running DEF Active
<1>3. /\ worker.record = regs[main] /\ regs[main].live
      /\ OnItsWay => stops = regs[main].prior + regs[main].last + 1
  BY <1>2 DEF Numbered
<1>4. worker.yields = "captured" => Number(regs[main]) = regs[main].last + 1
  <2> SUFFICES ASSUME worker.yields = "captured" PROVE Number(regs[main]) = regs[main].last + 1
    OBVIOUS
  <2>1. scope.seq = stops
    BY DEF Inv, Control, Steps
  <2>2. stops = regs[main].prior + regs[main].last + 1
    BY <1>3 DEF OnItsWay
  <2> QED BY <1>2, <2>1, <2>2, CurrentRecord DEF Number
<1> QED BY <1>2, <1>3, <1>4 DEF Recordable

\* What the registrations keep of a command when a correlation ticket is rebound.
SameNumbers ==
    main # 0 => /\ regs'[main].live = regs[main].live /\ regs'[main].prior = regs[main].prior
                /\ regs'[main].last = regs[main].last

LEMMA ReboundNumbers ==
    ASSUME Inv, main # 0, regs' = regs \/ Rebind(main) PROVE SameNumbers
<1>1. regs \in [1 .. MaxCommands -> Record] /\ main \in 1 .. MaxCommands /\ regs[main] \in Record
  BY CurrentRecord
<1>2. CASE Rebind(main)
  <2>1. regs'[main] = [regs[main] EXCEPT !.corr = Len(intents) + 1]
    BY <1>1, <1>2 DEF Rebind
  <2> QED BY <1>1, <2>1 DEF SameNumbers, Record
<1> QED BY <1>2 DEF SameNumbers

\* Beside the plan.
LEMMA BesideNumbers ==
    ASSUME Inv, Numbered, Next, ~Plan, ~SubmitMain, ~MainWithdrawn PROVE Numbered'
<1>1. CASE MainUnwound
  BY <1>1 DEF MainUnwound, Numbered
<1>2. CASE ~MainUnwound
  <2>1. Steady
    BY <1>2, NextIsSteady
  <2>2. stops' = stops
    BY <1>2 DEF Next, Submission, Stopping, PrepareNextStop, PrepareNextCommand, SubmitResume,
                SubmitDebug, AskStop, RequestStop, StopCancelled, ConfirmedExit, TargetTerminated,
                KernelStops, KernelServes
  <2>3. main # 0 => regs' = regs \/ Rebind(main)
    BY <1>2 DEF Next, Submission, Stopping, PrepareNextStop, PrepareNextCommand, SubmitResume,
                SubmitDebug, AskStop, RequestStop, StopCancelled, ConfirmedExit, TargetTerminated,
                KernelStops, KernelServes
  <2>4. SameNumbers
    BY <2>3, ReboundNumbers DEF SameNumbers
  <2>5. worker' = worker \/ (worker.step = "none" /\ worker'.step = "none")
    <3>1. CASE TargetTerminated
      <4>1. active # 0 /\ tickets[active].phase = "unknown" /\ worker'.step = "none"
        BY <3>1 DEF TargetTerminated, Active, IdleWorker
      <4>2. worker.step = "none"
        BY <4>1 DEF Inv, Owned, Runs
      <4> QED BY <4>1, <4>2
    <3> QED BY <1>2, <3>1
            DEF Next, Submission, Stopping, PrepareNextStop, PrepareNextCommand, Submit, SubmitResume,
                SubmitDebug, AskStop, RequestStop, StopCancelled, ConfirmedExit, KernelStops,
                KernelServes
  <2>6. NeverReady => NeverReady'
    <3>1. Closed => Closed'
      BY GoneStays
    <3>2. scope' = scope \/ Closed
      <4>1. CASE \E i \in 1 .. Len(tickets) : ConfirmedExit(i)
        BY <4>1 DEF ConfirmedExit, Inv, Fenced
      <4> QED BY <1>2, <4>1
              DEF Next, Submission, Stopping, PrepareNextStop, PrepareNextCommand, SubmitResume,
                  SubmitDebug, AskStop, RequestStop, StopCancelled, TargetTerminated, KernelStops,
                  KernelServes
    <3> QED BY <3>1, <3>2 DEF NeverReady
  <2>7. OnItsWay' <=> OnItsWay
    BY <2>5 DEF OnItsWay
  <2>8. worker'.step \in {"values", "policy", "record"} =>
            worker.step \in {"values", "policy", "record"}
    BY <2>5
  <2>9. worker'.step = "record" => worker'.record = regs'[main]
    <3> SUFFICES ASSUME worker'.step = "record" PROVE worker'.record = regs'[main]
      OBVIOUS
    <3>1. worker' = worker /\ worker.step = "record"
      BY <2>5
    <3>2. Runs /\ ~Idle
      BY <3>1 DEF Inv, Owned, Runs, Idle
    <3>3. active # 0 /\ worker.record = regs[main]
      BY <3>1, <3>2, MayRecord DEF Runs
    <3>4. regs' = regs
      BY <1>2, <3>2, <3>3
         DEF Next, Submission, Stopping, PrepareNextStop, PrepareNextCommand, SubmitResume,
             SubmitDebug, AskStop, RequestStop, StopCancelled, ConfirmedExit, TargetTerminated,
             KernelStops, KernelServes
    <3> QED BY <3>1, <3>3, <3>4
  <2>10. main # 0 => /\ regs'[main].live = regs[main].live /\ regs'[main].prior = regs[main].prior
                     /\ regs'[main].last = regs[main].last
    BY <2>4 DEF SameNumbers
  <2> QED BY <2>1, <2>2, <2>6, <2>7, <2>8, <2>9, <2>10, NumbersKept
<1> QED BY <1>1, <1>2

\* A command is registered with the stops of those before it.
LEMMA RegisteredNumbers ==
    ASSUME Inv, Numbered, SubmitMain \/ MainWithdrawn PROVE Numbered'
<1>1. /\ MainAdmissible /\ UNCHANGED <<worker, stops, scope>>
      /\ \E phase : NewCommand(phase)
  BY DEF SubmitMain, MainWithdrawn, Submit
<1> DEFINE c == Len(ops) + 1
           r == [prior |-> stops, last |-> 0, stop |-> 0, corr |-> planned, live |-> TRUE]
<1>2. main' = c /\ regs' = [regs EXCEPT ![c] = r]
  BY <1>1 DEF NewCommand, Baseline
<1>3. regs \in [1 .. MaxCommands -> Record] /\ c \in 1 .. MaxCommands /\ stops \in Nat
  BY <1>1, BoundsAssumption DEF MainAdmissible, Inv, Typed, CommandsTyped, PublicationTyped
<1>4. regs'[main'] = r
  BY <1>2, <1>3
<1>5. worker'.step = "none"
  BY <1>1, AtRest DEF MainAdmissible
<1>6. ~OnItsWay' /\ stops' = r.prior + r.last /\ r.live
  BY <1>1, <1>3, <1>5 DEF OnItsWay
<1> HIDE DEF r
<1> QED BY <1>4, <1>5, <1>6 DEF Numbered

\* The plan goes from step to step, or ends: where its worker stands, and its scope.
LEMMA PlanNumbersKept ==
    ASSUME Inv, Numbered, Steady, UNCHANGED <<stops, regs, kernel>>, Runs,
           \/ worker'.step \notin {"open", "values", "policy", "record"}
           \/ worker'.step = "values" /\ MainPhase # "completed"
           \/ /\ worker'.step = "policy" /\ worker'.yields # "captured"
              /\ worker.step = "values" \/ MainPhase # "completed",
           ~OnItsWay \/ NeverReady',
           scope'.context = scope.context \/ OnItsWay \/ scope.context \notin {"opening", "setup_failed"}
    PROVE  Numbered'
<1>1. ~OnItsWay' /\ worker'.step # "record"
  BY DEF OnItsWay
<1>2. NeverReady /\ ~OnItsWay => NeverReady'
  BY Running DEF NeverReady, Closed
<1>3. worker'.step \in {"values", "policy", "record"} =>
          worker.step \in {"values", "policy", "record"} \/ MainPhase # "completed"
  OBVIOUS
<1> QED BY <1>1, <1>2, <1>3, NumbersKept

LEMMA TakeNumbers == ASSUME Inv, Numbered, Take PROVE Numbered'
<1>1. /\ worker.step = "none" /\ Steady
      /\ UNCHANGED <<stops, regs, scope, kernel>>
      /\ worker' = worker \/ worker'.step \in {"prepare", "writeback", "continue"}
  <2>1. Steady
    BY SameIsSteady DEF Take
  <2>2. PICK i \in 1 .. Len(tickets) :
            \/ worker' = worker
            \/ worker' = [worker EXCEPT !.step = FirstStep[tickets[i].kind]]
    BY TakeMoves DEF Inv
  <2>3. FirstStep[tickets[i].kind] \in {"prepare", "writeback", "continue"}
    <3>1. tickets[i] \in TicketType
      BY DEF Inv, Typed, ArbiterTyped
    <3>2. tickets[i].kind \in Kinds
      BY <3>1 DEF TicketType
    <3> QED BY <3>2, FirstSteps DEF Kinds
  <2>4. worker \in WorkerType /\ worker.step = "none"
    BY TakeMoves DEF Inv, Typed, ArbiterTyped
  <2>5. worker' = worker \/ worker'.step \in {"prepare", "writeback", "continue"}
    <3> DEFINE step == FirstStep[tickets[i].kind]
    <3> HIDE DEF step
    <3>1. worker' = worker \/ worker' = [worker EXCEPT !.step = step]
      BY <2>2 DEF step
    <3>2. step \in {"prepare", "writeback", "continue"}
      BY <2>3 DEF step
    <3> QED BY <2>4, <3>1, <3>2 DEF WorkerType
  <2> QED BY <2>1, <2>4, <2>5 DEF Take
<1>2. worker'.step \notin {"open", "values", "policy", "record"}
  BY <1>1
<1>3. ~OnItsWay /\ ~OnItsWay'
  BY <1>1, <1>2 DEF OnItsWay
<1>4. NeverReady' <=> NeverReady
  BY <1>1 DEF NeverReady, Closed
<1> QED BY <1>1, <1>2, <1>3, <1>4, NumbersKept

\* Up to Continue, and after it.
LEMMA EntryNumbers ==
    ASSUME Inv, Numbered,
           Prepare \/ WriteCode \/ WriteId \/ Writeback \/ ContinueEnters \/ ContinueTooLate
    PROVE  Numbered'
<1>1. /\ Runs /\ worker.step \in Pre /\ UNCHANGED <<scope, stops, regs>>
      /\ worker' = IdleWorker \/ \E step \in {"code", "id", "continue", "sent", "unsent"} : Step(step)
      /\ kernel'.at # "gone"
  <2>1. Runs /\ worker.step \in Pre /\ UNCHANGED <<scope, stops, regs>>
    BY DEF Prepare, WriteCode, WriteId, Write, Writeback, ContinueEnters, ContinueTooLate, Yet,
           Active, Runs, Pre
  <2>2. worker' = IdleWorker \/ \E step \in {"code", "id", "continue", "sent", "unsent"} : Step(step)
    BY DEF Prepare, WriteCode, WriteId, Write, Writeback, ContinueEnters, ContinueTooLate, Settles,
           GoesUnknown
  <2>3. Inv'
    BY PrepareKeeps, WriteCodeKeeps, WriteIdKeeps, WritebackKeeps, EntersKeeps, TooLateKeeps
  <2>4. kernel'.at # "gone"
    <3>1. kernel \in KernelType /\ kernel.at # "gone"
      BY <2>1, Running DEF Closed
    <3>2. CASE UNCHANGED kernel
      BY <3>1, <3>2
    <3>3. CASE WriteCode \/ WriteId
      BY <3>1, <3>3 DEF WriteCode, WriteId, Write, KernelType
    <3>4. CASE ContinueEnters
      <4>1. kernel' = kernel \/ Released
        BY <3>4 DEF ContinueEnters
      <4> QED BY <3>1, <4>1 DEF Released, KernelType
    <3> QED BY <3>2, <3>3, <3>4 DEF Prepare, Writeback, ContinueTooLate
  <2> QED BY <2>1, <2>2, <2>4
<1>2. Steady
  BY PlanIsSteady, <1>1 DEF Plan, Take, Runs
<1>3. worker'.step \notin {"open", "values", "policy", "record"}
  <2>1. worker \in WorkerType
    BY <1>1, Running
  <2> QED BY <1>1, <2>1 DEF IdleWorker, Step, WorkerType
<1>4. ~OnItsWay /\ ~OnItsWay'
  BY <1>1, <1>3 DEF OnItsWay, Pre
<1>5. NeverReady => NeverReady'
  BY <1>1, Running DEF NeverReady
<1>6. worker'.step \notin {"values", "policy", "record"}
  BY <1>3
<1> QED BY <1>1, <1>2, <1>4, <1>5, <1>6, NumbersKept

LEMMA StopNumbers ==
    ASSUME Inv, Numbered,
           \/ ContinueAcknowledged \/ ContinueUnanswered \/ AwaitEnds \/ ServiceStop \/ ReadCompleted
           \/ ReadValues \/ DebugStop
    PROVE  Numbered'
<1>1. /\ Runs /\ worker.step \in {"sent", "unsent", "await", "read", "values"}
      /\ UNCHANGED <<stops, regs, kernel>>
  BY DEF ContinueAcknowledged, ContinueUnanswered, AwaitEnds, ServiceStop, ReadCompleted, ReadValues,
         DebugStop, Yet, Active, Runs
<1>2. Steady
  BY PlanIsSteady, <1>1 DEF Plan, Take, Runs
<1>3. worker \in WorkerType /\ ~OnItsWay
  BY <1>1, Running DEF OnItsWay
<1>4. scope'.context = scope.context \/ scope.context \notin {"opening", "setup_failed"}
  <2>1. CASE UNCHANGED scope
    BY <2>1
  <2>2. CASE ContinueAcknowledged \/ ContinueUnanswered
    <3>1. worker.step \in {"sent", "unsent"}
      BY <2>2 DEF ContinueAcknowledged, ContinueUnanswered, Yet
    <3>2. scope.context = "ready" \/ scope = NoScope
      BY <3>1 DEF Inv, Control, Steps
    <3> QED BY <3>2 DEF NoScope
  <2> QED BY <2>1, <2>2 DEF AwaitEnds, ServiceStop, ReadCompleted, ReadValues, DebugStop
<1>5. worker.step \in {"await", "read"} => MainPhase # "completed"
  BY DEF Inv, Control, Steps
<1>6. CASE worker' = IdleWorker \/ Step("await") \/ Step("read")
  <2>1. worker'.step \in {"none", "await", "read"}
    BY <1>3, <1>6 DEF IdleWorker, Step, WorkerType
  <2>2. worker'.step \notin {"open", "values", "policy", "record"}
    BY <2>1
  <2> QED BY <1>1, <1>2, <1>3, <1>4, <2>2, PlanNumbersKept
<1>7. CASE ReadCompleted /\ Step("values")
  <2>1. worker'.step = "values" /\ worker.step = "read"
    BY <1>3, <1>7 DEF Step, WorkerType, ReadCompleted, Yet
  <2> QED BY <1>1, <1>2, <1>3, <1>4, <1>5, <2>1, PlanNumbersKept
<1>8. CASE ReadValues /\ Yields("completed")
  <2>1. worker'.step = "policy" /\ worker'.yields = "completed" /\ worker.step = "values"
    BY <1>3, <1>8 DEF Yields, WorkerType, ReadValues, Yet
  <2> QED BY <1>1, <1>2, <1>3, <1>4, <2>1, PlanNumbersKept
<1>9. CASE DebugStop
  <2>1. Yields("debug") \/ Yields("unrecognised")
    BY <1>9 DEF DebugStop
  <2>2. worker'.step = "policy" /\ worker'.yields \in {"debug", "unrecognised"}
    BY <1>3, <2>1 DEF Yields, WorkerType
  <2>3. worker.step = "await"
    BY <1>9 DEF DebugStop, Yet
  <2> QED BY <1>1, <1>2, <1>3, <1>4, <1>5, <2>2, <2>3, PlanNumbersKept
<1> QED BY <1>6, <1>7, <1>8, <1>9
        DEF ContinueAcknowledged, ContinueUnanswered, AwaitEnds, ServiceStop, ReadCompleted, ReadValues,
            GoesUnknown, Settles

\* A CAPTURE stop is counted: it is on its way.
LEMMA CaptureNumbers == ASSUME Inv, Numbered, CaptureStop PROVE Numbered'
<1>1. /\ Runs /\ worker.step = "await" /\ Step("open")
      /\ UNCHANGED <<main, regs>> /\ stops' = stops + 1
  BY DEF CaptureStop, Yet, Active, Runs
<1>2. worker'.step = "open" /\ OnItsWay' /\ ~OnItsWay
  <2>1. worker'.step = "open"
    BY <1>1, Running DEF Step, WorkerType
  <2> QED BY <1>1, <2>1 DEF OnItsWay
<1>3. ~NeverReady /\ MainPhase = "running"
  <2>1. scope = NoScope /\ MainPhase = "running"
    BY <1>1 DEF Inv, Control, Steps
  <2> QED BY <1>1, <2>1, Running DEF NeverReady, NoScope
<1>4. main # 0 /\ regs[main].live /\ stops = regs[main].prior + regs[main].last
  BY <1>1, <1>2, <1>3, Running DEF Numbered
<1> QED BY <1>1, <1>2, <1>4 DEF Numbered

LEMMA OpenNumbers == ASSUME Inv, Numbered, Blocked \/ OpenScope PROVE Numbered'
<1>1. /\ Runs /\ UNCHANGED <<stops, regs, kernel>> /\ worker.step \notin {"policy", "record"}
      /\ worker.step = "open" => scope.context = "opening"
  BY DEF Blocked, OpenScope, EntrySteps, Yet, Active, Runs, Inv, Control, Steps
<1>2. Steady
  BY PlanIsSteady, <1>1 DEF Plan, Take, Runs
<1>3. worker \in WorkerType /\ scope \in ScopeType
  BY <1>1, Running
<1>4. CASE worker' = IdleWorker
  <2>1. worker'.step \notin {"open", "values", "policy", "record"}
    BY <1>4 DEF IdleWorker
  <2>2. \/ scope'.context = scope.context
        \/ worker.step = "open" /\ scope'.context \in {"opening", "setup_failed"}
    <3>1. CASE Blocked
      BY <1>3, <3>1 DEF Blocked, ScopeType
    <3>2. CASE OpenScope
      <4>1. worker.step = "open" /\ (UNCHANGED scope \/
                \E context \in {"opening", "setup_failed"}, frame \in {"unverified", "confirmed"} :
                    Scoped(context, frame))
        <5>1. ~Yields("captured")
          BY <1>3, <1>4 DEF Yields, WorkerType, IdleWorker
        <5> QED BY <3>2, <5>1 DEF OpenScope, Yet
      <4> QED BY <1>3, <4>1 DEF Scoped, ScopeType
    <3> QED BY <3>1, <3>2
  <2>3. ~OnItsWay \/ NeverReady'
    BY <1>1, <2>2 DEF OnItsWay, NeverReady
  <2>4. scope'.context = scope.context \/ OnItsWay
    BY <2>2 DEF OnItsWay
  <2> QED BY <1>1, <1>2, <2>1, <2>3, <2>4, PlanNumbersKept
<1>5. CASE OpenScope /\ Yields("captured")
  <2>1. worker.step = "open" /\ worker'.step = "policy" /\ worker'.yields = "captured"
    BY <1>3, <1>5 DEF OpenScope, Yet, Yields, WorkerType
  <2>2. OnItsWay /\ OnItsWay'
    BY <2>1 DEF OnItsWay
  <2>3. MainPhase # "completed"
    BY <2>1 DEF Inv, Control, Steps
  <2> QED BY <1>1, <1>2, <2>1, <2>2, <2>3, NumbersKept
<1> QED BY <1>4, <1>5 DEF Blocked, OpenScope, GoesUnknown, Settles

\* The policy lets every recognised stop through.
LEMMA PolicyNumbers == ASSUME Inv, Numbered, PolicyReads PROVE Numbered'
<1>1. /\ Runs /\ worker.step = "policy" /\ UNCHANGED <<commandVars, regs, kernel>> /\ active # 0
  BY DEF PolicyReads, Yet, Active, Runs
<1>2. Steady
  BY <1>1, SameIsSteady
<1>3. worker \in WorkerType /\ Active.op = main /\ main # 0
  BY <1>1, Running DEF Active
<1>4. NeverReady' <=> NeverReady
  BY <1>1 DEF NeverReady, Closed
<1>5. CASE worker' = [worker EXCEPT !.step = "record", !.record = regs[Active.op]]
  <2>1. worker'.step = "record" /\ worker'.yields = worker.yields /\ worker'.record = regs'[main]
    BY <1>1, <1>3, <1>5 DEF WorkerType
  <2>2. OnItsWay' <=> OnItsWay
    BY <1>1, <2>1 DEF OnItsWay
  <2> QED BY <1>1, <1>2, <1>4, <2>1, <2>2, NumbersKept
<1>6. CASE GoesUnknown /\ ~Publishable(regs[Active.op])
  <2>1. worker'.step = "none" /\ worker.yields = "unrecognised"
    BY <1>1, <1>6, MayPublish DEF GoesUnknown, IdleWorker
  <2>2. ~OnItsWay /\ ~OnItsWay'
    BY <1>1, <2>1 DEF OnItsWay
  <2> QED BY <1>1, <1>2, <1>4, <2>1, <2>2, NumbersKept
<1> QED BY <1>5, <1>6 DEF PolicyReads

\* The reply is published; its stop is recorded.
LEMMA RecordNumbers == ASSUME Inv, Numbered, PolicyRecords PROVE Numbered'
<1>1. /\ worker.step = "record" /\ active # 0 /\ Runs /\ UNCHANGED <<commandVars, kernel>>
  BY DEF PolicyRecords, Yet, Active, Runs
<1> DEFINE record == regs[main]
<1>2. /\ Active.op = main /\ main # 0 /\ worker.record = record /\ record.live
      /\ worker.yields = "captured" => Number(record) = record.last + 1
  BY <1>1, MayRecord
<1>3. /\ regs' = [regs EXCEPT ![main] = Recorded(record)] /\ worker'.step = "none"
  <2>1. Recordable(worker.record) /\ Active.op = main
    BY <1>1, MayRecord
  <2>2. regs' = [regs EXCEPT ![main] = Recorded(worker.record)] /\ Settles("value")
    BY <2>1 DEF PolicyRecords
  <2> QED BY <1>2, <2>2 DEF Settles, IdleWorker
<1>4. regs'[main] = Recorded(record) /\ record \in Record /\ record.prior \in Nat /\ record.last \in Nat
  BY <1>2, <1>3, CurrentRecord
<1>5. ~OnItsWay' /\ (NeverReady' <=> NeverReady) /\ main' = main /\ stops' = stops
      /\ MainPhase' = MainPhase
  BY <1>1, <1>3 DEF OnItsWay, NeverReady, Closed, MainPhase
<1>6. CASE worker.yields = "captured"
  <2>1. OnItsWay /\ stops = record.prior + record.last + 1
    BY <1>1, <1>2, <1>6 DEF OnItsWay, Numbered
  <2>2. regs'[main] = [record EXCEPT !.last = record.last + 1, !.stop = Op.pending]
    BY <1>2, <1>4, <1>6 DEF Recorded
  <2> HIDE DEF record
  <2>3. /\ regs'[main].last = record.last + 1 /\ regs'[main].prior = record.prior
        /\ regs'[main].live = record.live
    BY <1>4, <2>2 DEF Record
  <2>4. stops = regs'[main].prior + regs'[main].last
    BY <1>4, <2>1, <2>3
  <2> QED BY <1>2, <1>3, <1>5, <2>3, <2>4 DEF Numbered
<1>7. CASE worker.yields # "captured"
  <2>1. ~OnItsWay
    BY <1>1, <1>7 DEF OnItsWay
  <2>2. stops = record.prior + record.last \/ NeverReady
    BY <1>2, <2>1 DEF Numbered
  <2>3. CASE worker.yields = "completed"
    <3>1. MainPhase = "completed"
      BY <1>1, <2>3 DEF Inv, Control, Steps
    <3>2. regs'[main] = NoRecord
      BY <1>2, <1>4, <2>3 DEF Recorded
    <3> QED BY <1>3, <1>5, <3>1, <3>2 DEF Numbered, NoRecord
  <2>4. CASE worker.yields # "completed"
    <3>1. regs'[main] = record
      BY <1>2, <1>4, <1>7, <2>4 DEF Recorded
    <3> QED BY <1>2, <1>3, <1>5, <2>2, <3>1 DEF Numbered
  <2> QED BY <2>3, <2>4
<1> QED BY <1>6, <1>7

LEMMA NumbersNext == ASSUME Inv, Numbered, [Next]_vars PROVE Numbered'
<1>1. CASE UNCHANGED vars
  BY <1>1 DEF vars, Numbered, OnItsWay, NeverReady, Closed, MainPhase
<1>2. CASE Plan
  BY <1>2, TakeNumbers, EntryNumbers, StopNumbers, CaptureNumbers, OpenNumbers, PolicyNumbers,
     RecordNumbers DEF Plan
<1>3. CASE Next /\ ~Plan
  BY <1>3, BesideNumbers, RegisteredNumbers
<1> QED BY <1>1, <1>2, <1>3 DEF Next

\* The policy and both locked sections of settle_main accept every yield of a
\* recognised stop (route_settlement.py): no reply is lost to a registration
\* that is gone, to a number or to a rebinding between the two sections.
THEOREM RecognisedStopsAnswered == Spec => []PolicyAccepts
<1>1. Init => Inv /\ Numbered
  BY InitKeeps DEF Init, Numbered
<1>2. Inv /\ Numbered /\ [Next]_vars => Inv' /\ Numbered'
  BY NextKeeps, NumbersNext
<1>3. Inv /\ Numbered => PolicyAccepts
  BY MayPublish, MayRecord DEF PolicyAccepts
<1> QED BY <1>1, <1>2, <1>3, PTL DEF Spec

-----------------------------------------------------------------------------
(* The order of the replies, and what each of them answers.                 *)

Told == InOrder /\ Counted /\ Expected

\* What the sequences of correlation tickets and replies are made of.
LEMMA PublicationFacts ==
    ASSUME Inv
    PROVE  /\ Len(ops) \in Nat /\ Len(intents) \in Nat /\ Len(replies) \in Nat
           /\ DOMAIN intents = 1 .. Len(intents) /\ DOMAIN replies = 1 .. Len(replies)
           /\ \A x \in DOMAIN intents : /\ intents[x].op \in Nat /\ intents[x].op > 0
                                        /\ intents[x].seq \in Nat /\ intents[x].after \in Nat
           /\ \A j \in DOMAIN replies : /\ replies[j].op \in Nat /\ replies[j].op > 0
                                        /\ replies[j].seq \in Nat /\ replies[j].corr \in Nat
           /\ \A c \in 1 .. MaxCommands : regs[c].last \in Nat /\ regs[c].corr \in Nat
           /\ Len(ops) <= MaxCommands /\ MaxCommands \in Nat
<1>1. /\ ops \in Seq(OpType) /\ intents \in Seq(IntentType) /\ replies \in Seq(ReplyType)
      /\ regs \in [1 .. MaxCommands -> Record] /\ Len(ops) <= MaxCommands /\ MaxCommands \in Nat
      /\ MaxStops \in Nat /\ MaxIntents \in Nat
  BY BoundsAssumption DEF Inv, Typed, CommandsTyped, PublicationTyped
<1>2. ASSUME NEW x \in DOMAIN intents
      PROVE  /\ intents[x].op \in Nat /\ intents[x].op > 0
             /\ intents[x].seq \in Nat /\ intents[x].after \in Nat
  <2>1. intents[x] \in IntentType
    BY <1>1
  <2>2. intents[x].op \in 1 .. MaxCommands + 1 /\ intents[x].seq \in Nat /\ intents[x].after \in Nat
    BY <2>1 DEF IntentType
  <2> QED BY <1>1, <2>2
<1>3. ASSUME NEW j \in DOMAIN replies
      PROVE  /\ replies[j].op \in Nat /\ replies[j].op > 0
             /\ replies[j].seq \in Nat /\ replies[j].corr \in Nat
  <2>1. replies[j] \in ReplyType
    BY <1>1
  <2>2. replies[j].op \in 1 .. MaxCommands /\ replies[j].seq \in Nat /\ replies[j].corr \in Nat
    BY <2>1 DEF ReplyType
  <2> QED BY <1>1, <2>2
<1>4. ASSUME NEW c \in 1 .. MaxCommands PROVE regs[c].last \in Nat /\ regs[c].corr \in Nat
  <2>1. regs[c] \in Record
    BY <1>1
  <2>2. regs[c].last \in 0 .. MaxStops /\ regs[c].corr \in 0 .. MaxIntents
    BY <2>1 DEF Record
  <2> QED BY <1>1, <2>2
<1>5. Len(ops) \in Nat /\ Len(intents) \in Nat /\ Len(replies) \in Nat
  BY <1>1
<1>6. DOMAIN intents = 1 .. Len(intents) /\ DOMAIN replies = 1 .. Len(replies)
  BY <1>1
<1> QED BY <1>1, <1>2, <1>3, <1>4, <1>5, <1>6

\* A step that publishes nothing: it may register a command and issue correlation tickets.
LEMMA ToldKept ==
    ASSUME Inv, Inv', Told, replies' = replies, Len(ops) <= Len(ops'),
           \A c \in 1 .. Len(ops) : regs'[c].live = regs[c].live /\ regs'[c].last = regs[c].last,
           \A c \in 1 .. Len(ops') : c > Len(ops) => regs'[c].last = 0,
           Len(intents) <= Len(intents'),
           \A x \in 1 .. Len(intents) : intents'[x] = intents[x],
           \A x \in 1 .. Len(intents') : x > Len(intents) =>
              /\ intents'[x].after = Len(replies) /\ intents'[x].op <= Len(ops') + 1
              /\ intents'[x].op > Len(ops') => intents'[x].seq = 1 /\ MainEnded'
              /\ intents'[x].op <= Len(ops') /\ regs'[intents'[x].op].live =>
                     intents'[x].seq <= regs'[intents'[x].op].last + 1,
           MainEnded => MainEnded' \/ Len(ops) < Len(ops')
    PROVE  Told'
<1>0. /\ Len(ops) \in Nat /\ Len(intents) \in Nat /\ Len(replies) \in Nat
      /\ DOMAIN intents = 1 .. Len(intents) /\ DOMAIN replies = 1 .. Len(replies)
      /\ \A j \in DOMAIN replies : /\ replies[j].op \in Nat /\ replies[j].op > 0
                                   /\ replies[j].seq \in Nat /\ replies[j].corr \in Nat
      /\ \A x \in DOMAIN intents : /\ intents[x].op \in Nat /\ intents[x].op > 0
                                   /\ intents[x].seq \in Nat /\ intents[x].after \in Nat
  BY PublicationFacts
<1>1. Len(ops') \in Nat /\ Len(intents') \in Nat /\ DOMAIN intents' = 1 .. Len(intents')
      /\ \A c \in 1 .. MaxCommands : regs'[c].last \in Nat
      /\ Len(ops') <= MaxCommands /\ MaxCommands \in Nat
  <2>1. /\ ops' \in Seq(OpType) /\ intents' \in Seq(IntentType) /\ Len(ops') <= MaxCommands
        /\ regs' \in [1 .. MaxCommands -> Record] /\ MaxCommands \in Nat /\ MaxStops \in Nat
    BY BoundsAssumption DEF Inv, Typed, CommandsTyped, PublicationTyped
  <2>2. Len(ops') \in Nat /\ Len(intents') \in Nat /\ DOMAIN intents' = 1 .. Len(intents')
    BY <2>1
  <2>3. ASSUME NEW c \in 1 .. MaxCommands PROVE regs'[c].last \in Nat
    <3>1. regs'[c].last \in 0 .. MaxStops
      BY <2>1 DEF Record
    <3> QED BY <2>1, <3>1
  <2> QED BY <2>1, <2>2, <2>3
<1>2. \A j \in DOMAIN replies : replies[j].op \in 1 .. Len(ops) /\ replies[j].corr <= Len(intents)
  BY <1>0 DEF Told, Counted
<1>3. InOrder'
  <2>1. \A i \in DOMAIN replies : replies[i].corr # 0 =>
            LET intent == intents'[replies[i].corr]
            IN  /\ intent.op = replies[i].op /\ intent.seq = replies[i].seq
                /\ \A j \in intent.after + 1 .. i - 1 : replies[j].kind # "captured"
    <3> SUFFICES ASSUME NEW i \in DOMAIN replies, replies[i].corr # 0
                 PROVE  intents'[replies[i].corr] = intents[replies[i].corr]
      BY DEF Told, InOrder
    <3>1. replies[i].corr \in 1 .. Len(intents)
      BY <1>0, <1>2
    <3> QED BY <3>1
  <2> QED BY <2>1 DEF Told, InOrder
<1>4. Counted'
  <2>1. ASSUME NEW j \in DOMAIN replies
        PROVE  /\ replies[j].op <= Len(ops') /\ replies[j].corr <= Len(intents')
               /\ replies[j].kind = "completed" => ~regs'[replies[j].op].live
    <3>1. replies[j].op \in 1 .. Len(ops) /\ replies[j].corr <= Len(intents)
      BY <1>2
    <3>2. replies[j].op <= Len(ops') /\ replies[j].corr <= Len(intents')
      BY <1>0, <1>1, <3>1
    <3>3. regs'[replies[j].op].live = regs[replies[j].op].live
      BY <3>1
    <3>4. replies[j].kind = "completed" => ~regs[replies[j].op].live
      BY DEF Told, Counted
    <3> QED BY <3>2, <3>3, <3>4
  <2>2. ASSUME NEW c \in 1 .. Len(ops'), regs'[c].live
        PROVE  /\ \A n \in 1 .. regs'[c].last :
                     \E j \in DOMAIN replies : replies[j].op = c /\ replies[j].seq = n
               /\ \A j \in DOMAIN replies : replies[j].op = c => replies[j].seq <= regs'[c].last
    <3>1. CASE c \in 1 .. Len(ops)
      <4>1. regs[c].live /\ regs'[c].last = regs[c].last
        BY <2>2, <3>1
      <4> QED BY <3>1, <4>1 DEF Told, Counted
    <3>2. CASE c > Len(ops)
      <4>1. regs'[c].last = 0
        BY <3>2
      <4>2. \A j \in DOMAIN replies : replies[j].op # c
        BY <1>0, <1>2, <3>2
      <4> QED BY <4>1, <4>2
    <3> QED BY <1>0, <1>1, <3>1, <3>2
  <2> QED BY <2>1, <2>2 DEF Counted
<1>5. Expected'
  <2> DEFINE Of(x) ==
        /\ intents'[x].op <= Len(ops') + 1 /\ intents'[x].after <= Len(replies)
        /\ intents'[x].op > Len(ops') => intents'[x].seq = 1 /\ MainEnded'
        /\ intents'[x].op <= Len(ops') /\ regs'[intents'[x].op].live =>
              intents'[x].seq <= regs'[intents'[x].op].last + 1
        /\ \A j \in intents'[x].after + 1 .. Len(replies) : replies[j].kind = "captured" =>
              /\ intents'[x].op <= replies[j].op
              /\ intents'[x].op = replies[j].op => intents'[x].seq <= replies[j].seq
  <2>1. ASSUME NEW x \in 1 .. Len(intents'), x > Len(intents) PROVE Of(x)
    <3>1. intents'[x].after = Len(replies)
      BY <2>1
    <3>2. \A j \in intents'[x].after + 1 .. Len(replies) : FALSE
      BY <1>0, <3>1
    <3>3. intents'[x].after <= Len(replies)
      BY <1>0, <3>1
    <3> QED BY <2>1, <3>2, <3>3
  <2>2. ASSUME NEW x \in 1 .. Len(intents) PROVE Of(x)
    <3> DEFINE op == intents[x].op
               seq == intents[x].seq
    <3>1. /\ op <= Len(ops) + 1 /\ intents[x].after <= Len(replies)
          /\ op > Len(ops) => seq = 1 /\ MainEnded
          /\ op <= Len(ops) /\ regs[op].live => seq <= regs[op].last + 1
          /\ \A j \in intents[x].after + 1 .. Len(replies) : replies[j].kind = "captured" =>
                /\ op <= replies[j].op
                /\ op = replies[j].op => seq <= replies[j].seq
      BY <1>0 DEF Told, Expected
    <3>2. intents'[x] = intents[x]
      OBVIOUS
    <3>3. op \in Nat /\ op > 0 /\ seq \in Nat
      BY <1>0
    <3> HIDE DEF op, seq
    <3>4. op <= Len(ops') + 1 /\ (op > Len(ops') => seq = 1 /\ MainEnded')
      BY <1>0, <1>1, <3>1, <3>3
    <3>5. op <= Len(ops') /\ regs'[op].live => seq <= regs'[op].last + 1
      <4>1. CASE op <= Len(ops)
        <5>1. op \in 1 .. Len(ops)
          BY <1>0, <3>3, <4>1
        <5>2. regs'[op].live = regs[op].live /\ regs'[op].last = regs[op].last
          BY <5>1
        <5> QED BY <3>1, <4>1, <5>2
      <4>2. CASE op > Len(ops) /\ op <= Len(ops')
        <5>1. op \in 1 .. Len(ops') /\ seq = 1
          BY <1>1, <3>1, <3>3, <4>2
        <5>2. regs'[op].last = 0
          BY <4>2, <5>1
        <5> QED BY <5>1, <5>2
      <4> QED BY <1>0, <1>1, <3>3, <4>1, <4>2
    <3> QED BY <3>1, <3>2, <3>4, <3>5 DEF op, seq
  <2>3. \A x \in 1 .. Len(intents') : x \in 1 .. Len(intents) \/ x > Len(intents)
    BY <1>0, <1>1
  <2>4. \A x \in DOMAIN intents' : Of(x)
    BY <1>1, <2>1, <2>2, <2>3
  <2> QED BY <2>4 DEF Expected
<1> QED BY <1>3, <1>4, <1>5 DEF Told

\* Nothing is published or issued.
LEMMA ToldQuietly ==
    ASSUME Inv, Inv', Told, UNCHANGED <<replies, intents, regs>>, Len(ops') = Len(ops),
           MainEnded => MainEnded'
    PROVE  Told'
<1>1. Len(ops) \in Nat /\ Len(intents) \in Nat
  BY PublicationFacts
<1>2. \A c \in 1 .. Len(ops') : ~(c > Len(ops))
  BY <1>1
<1>3. \A x \in 1 .. Len(intents') : ~(x > Len(intents))
  BY <1>1
<1> QED BY <1>1, <1>2, <1>3, ToldKept

\* A correlation ticket is issued, and bound to the current command or planned.
LEMMA ToldIssue ==
    ASSUME Inv, Inv', Told, NEW op, NEW seq, Issue(op, seq), UNCHANGED <<replies, ops, main>>,
           \A c \in 1 .. Len(ops) : regs'[c].live = regs[c].live /\ regs'[c].last = regs[c].last,
           \/ op \in 1 .. Len(ops) /\ seq <= regs[op].last + 1
           \/ op = Len(ops) + 1 /\ seq = 1 /\ MainEnded
    PROVE  Told'
<1>1. Len(ops) \in Nat /\ Len(intents) \in Nat /\ Len(replies) \in Nat
  BY PublicationFacts
<1>2. MainEnded' <=> MainEnded
  BY DEF MainEnded
<1> DEFINE r == [op |-> op, seq |-> seq, after |-> Len(replies)]
<1>3. intents' = Append(intents, r)
  BY DEF Issue
<1>4. r.op = op /\ r.seq = seq /\ r.after = Len(replies)
  OBVIOUS
<1> HIDE DEF r
<1>5. /\ Len(intents') = Len(intents) + 1 /\ intents'[Len(intents) + 1] = r
      /\ \A x \in 1 .. Len(intents) : intents'[x] = intents[x]
  <2>1. intents \in Seq(IntentType)
    BY DEF Inv, Typed, PublicationTyped
  <2> QED BY <1>3, <2>1
<1>6. \A x \in 1 .. Len(intents') : x > Len(intents) => intents'[x] = r
  BY <1>1, <1>5
<1>7. \A c \in 1 .. Len(ops') : ~(c > Len(ops))
  BY <1>1
<1>8. op <= Len(ops) => regs'[op].last = regs[op].last /\ seq <= regs[op].last + 1
  BY <1>1
<1>9. op <= Len(ops') + 1 /\ (op > Len(ops') => seq = 1 /\ MainEnded')
  BY <1>1, <1>2
<1> QED BY <1>1, <1>2, <1>4, <1>5, <1>6, <1>7, <1>8, <1>9, ToldKept

LEMMA ToldRebind ==
    ASSUME Inv, Inv', Told, main # 0, Rebind(main), UNCHANGED <<replies, ops, main>>
    PROVE  Told'
<1>1. regs \in [1 .. MaxCommands -> Record] /\ main \in 1 .. MaxCommands /\ main \in 1 .. Len(ops)
  BY CurrentRecord
<1>2. ASSUME NEW c \in 1 .. Len(ops)
      PROVE  regs'[c].live = regs[c].live /\ regs'[c].last = regs[c].last
  <2>1. c \in 1 .. MaxCommands
    BY PublicationFacts
  <2>2. CASE c = main
    BY <2>2, ReboundNumbers DEF SameNumbers
  <2>3. CASE c # main
    BY <1>1, <2>1, <2>3 DEF Rebind
  <2> QED BY <2>2, <2>3
<1>3. regs[main].last + 1 <= regs[main].last + 1
  BY CurrentRecord
<1> QED BY <1>1, <1>2, <1>3, ToldIssue DEF Rebind

\* A command is registered: its number is the next one.
LEMMA ToldRegister ==
    ASSUME Inv, Inv', Told, SubmitMain \/ MainWithdrawn PROVE Told'
<1>1. MainAdmissible /\ UNCHANGED <<replies, intents>> /\ \E phase : NewCommand(phase)
  BY DEF SubmitMain, MainWithdrawn
<1> DEFINE c == Len(ops) + 1
<1>2. PICK phase : ops' = Append(ops, NewOperation(phase))
  BY <1>1 DEF NewCommand
<1>3. regs' = [regs EXCEPT ![c] = [prior |-> stops, last |-> 0, stop |-> 0, corr |-> planned,
                                   live |-> TRUE]]
  BY <1>1 DEF NewCommand, Baseline
<1>4. /\ Len(ops) \in Nat /\ Len(intents) \in Nat /\ MaxCommands \in Nat /\ c \in 1 .. MaxCommands
      /\ regs \in [1 .. MaxCommands -> Record] /\ ops \in Seq(OpType)
  <2>1. regs \in [1 .. MaxCommands -> Record] /\ ops \in Seq(OpType) /\ MaxCommands \in Nat
    BY BoundsAssumption DEF Inv, Typed, CommandsTyped, PublicationTyped
  <2>2. Len(ops) \in Nat /\ Len(intents) \in Nat
    BY PublicationFacts
  <2>3. Len(ops) < MaxCommands
    BY <1>1 DEF MainAdmissible
  <2> QED BY <2>1, <2>2, <2>3
<1>5. Len(ops') = c
  BY <1>2, <1>4
<1>6. \A d \in 1 .. Len(ops) : regs'[d] = regs[d]
  BY <1>3, <1>4
<1>7. \A d \in 1 .. Len(ops') : d > Len(ops) => regs'[d].last = 0
  <2>1. regs'[c].last = 0
    BY <1>3, <1>4
  <2>2. \A d \in 1 .. Len(ops') : d > Len(ops) => d = c
    BY <1>4, <1>5
  <2> QED BY <2>1, <2>2
<1>8. Len(ops) <= Len(ops') /\ Len(ops) < Len(ops')
  BY <1>4, <1>5
<1>9. \A x \in 1 .. Len(intents') : ~(x > Len(intents))
  BY <1>1, <1>4
<1>10. Len(intents) <= Len(intents') /\ \A x \in 1 .. Len(intents) : intents'[x] = intents[x]
  BY <1>1, <1>4
<1> HIDE DEF c
<1> QED BY <1>1, <1>6, <1>7, <1>8, <1>9, <1>10, ToldKept

\* Every step but the one that publishes.
LEMMA ToldBeside ==
    ASSUME Inv, Inv', Told, Next, ~PolicyRecords PROVE Told'
<1>1. CASE SubmitMain \/ MainWithdrawn
  BY <1>1, ToldRegister
<1>2. CASE MainUnwound
  BY <1>2, ToldQuietly DEF MainUnwound, MainEnded
<1>3. CASE PrepareNextStop
  BY <1>3, ToldRebind DEF PrepareNextStop, Captured
<1>4. CASE SubmitResume
  <2>1. main # 0 /\ UNCHANGED <<replies, ops, main>>
    BY <1>4 DEF SubmitResume, Captured
  <2>2. CASE UNCHANGED <<intents, regs>>
    BY <2>1, <2>2, ToldQuietly DEF MainEnded
  <2> QED BY <1>4, <2>1, <2>2, ToldRebind DEF SubmitResume
<1>5. CASE PrepareNextCommand
  <2>1. Issue(Len(ops) + 1, 1) /\ UNCHANGED <<replies, ops, main, regs>> /\ MainEnded
    BY <1>5 DEF PrepareNextCommand
  <2> QED BY <2>1, ToldIssue
<1>6. CASE UNCHANGED <<replies, intents, regs>> /\ Steady
  <2>1. MainEnded => MainEnded'
    BY <1>6 DEF Steady, MainEnded, MainPhase
  <2> QED BY <1>6, <2>1, ToldQuietly DEF Steady
<1>7. CASE ~SubmitMain /\ ~MainWithdrawn /\ ~MainUnwound /\ ~PrepareNextStop /\ ~SubmitResume
           /\ ~PrepareNextCommand
  <2>1. Steady
    BY <1>7, NextIsSteady
  <2>2. UNCHANGED <<replies, intents, regs>>
    <3>1. CASE Plan
      BY <3>1 DEF Plan, Take, Blocked, Prepare, WriteCode, WriteId, Write, Writeback, ContinueEnters,
           ContinueTooLate, ContinueAcknowledged, ContinueUnanswered, AwaitEnds, ServiceStop,
           ReadCompleted, ReadValues, DebugStop, CaptureStop, OpenScope, PolicyReads
    <3>2. CASE ~Plan
      BY <1>7, <3>2 DEF Next, Submission, Stopping, SubmitDebug, AskStop, RequestStop, StopCancelled,
           ConfirmedExit, TargetTerminated, KernelStops, KernelServes
    <3> QED BY <3>1, <3>2
  <2> QED BY <1>6, <2>1, <2>2
<1> QED BY <1>1, <1>2, <1>3, <1>4, <1>5, <1>7

\* What the finalizer publishes of the current command, r, and what it leaves registered.
LEMMA PublishedReply ==
    ASSUME Inv, Numbered, Told, PolicyRecords
    PROVE  \E r :
              /\ replies' = Append(replies, r) /\ r.op = main /\ main # 0 /\ regs[main].live
              /\ UNCHANGED <<intents, ops, main>>
              /\ \A c \in 1 .. MaxCommands : c # main => regs'[c] = regs[c]
              /\ r.kind = "captured" =>
                    /\ r.seq = regs[main].last + 1 /\ MainPhase = "suspended_capture"
                    /\ regs'[main].live /\ regs'[main].last = regs[main].last + 1
              /\ r.kind # "captured" =>
                    r.seq = 0 /\ r.corr = 0 /\ (regs'[main].live => regs'[main] = regs[main])
              /\ r.kind = "completed" => ~regs'[main].live
              /\ r.corr \in 0 .. Len(intents)
              /\ r.corr # 0 => intents[r.corr].op = main /\ intents[r.corr].seq = r.seq
<1>1. /\ worker.step = "record" /\ active # 0 /\ Runs
      /\ UNCHANGED <<commandVars, kernel, intents>>
  BY DEF PolicyRecords, Yet, Active, Runs
<1> DEFINE record == regs[main]
           captured == worker.yields = "captured"
           r == Reply(record)
<1>2. /\ Active.op = main /\ main # 0 /\ worker.record = record /\ record.live
      /\ captured => Number(record) = record.last + 1
      /\ Recordable(worker.record)
  BY <1>1, MayRecord
<1>3. regs' = [regs EXCEPT ![main] = Recorded(record)] /\ replies' = Append(replies, r)
  BY <1>2 DEF PolicyRecords
<1>4. /\ regs \in [1 .. MaxCommands -> Record] /\ main \in 1 .. MaxCommands /\ record \in Record
      /\ record.last \in Nat
  BY <1>2, CurrentRecord
<1>5. /\ regs'[main] = Recorded(record)
      /\ \A c \in 1 .. MaxCommands : c # main => regs'[c] = regs[c]
  BY <1>3, <1>4
<1>6. /\ r.op = main /\ r.kind = worker.yields
      /\ captured => r.seq = Number(record) /\ r.corr = Answers(record, Number(record))
      /\ ~captured => r.seq = 0 /\ r.corr = 0
  BY <1>2 DEF Reply
<1>7. /\ r.corr \in 0 .. Len(intents)
      /\ r.corr # 0 => intents[r.corr].op = main /\ intents[r.corr].seq = r.seq
  <2>1. record.corr \in Nat /\ record.corr <= Len(intents) /\ Len(intents) \in Nat
    BY <1>4, PublicationFacts DEF Inv, Typed, PublicationTyped
  <2>2. CASE captured
    <3>1. r.corr = Answers(record, r.seq)
      BY <1>6, <2>2
    <3> HIDE DEF r, record
    <3>2. CASE record.corr # 0 /\ Match(intents[record.corr], main, r.seq)
      <4>1. r.corr = record.corr
        BY <1>2, <3>1, <3>2 DEF Answers
      <4> QED BY <2>1, <3>2, <4>1 DEF Match
    <3>3. CASE ~(record.corr # 0 /\ Match(intents[record.corr], main, r.seq))
      <4>1. r.corr = 0
        BY <1>2, <3>1, <3>3 DEF Answers
      <4> QED BY <2>1, <4>1
    <3> QED BY <3>2, <3>3
  <2>3. CASE ~captured
    BY <1>6, <2>1, <2>3
  <2> QED BY <2>2, <2>3
<1>8. captured => /\ MainPhase = "suspended_capture" /\ r.seq = record.last + 1
                  /\ regs'[main].live /\ regs'[main].last = record.last + 1
  <2> SUFFICES ASSUME captured
               PROVE  /\ MainPhase = "suspended_capture" /\ r.seq = record.last + 1
                      /\ regs'[main].live /\ regs'[main].last = record.last + 1
    OBVIOUS
  <2>1. MainPhase = "suspended_capture"
    BY <1>1 DEF Inv, Control, Steps
  <2>2. regs'[main] = [record EXCEPT !.last = Number(record), !.stop = Op.pending]
    BY <1>5 DEF Recorded
  <2>3. Number(record) = record.last + 1 /\ r.seq = record.last + 1 /\ record.live
    BY <1>2, <1>6
  <2> DEFINE n == Number(record)
             p == Op.pending
  <2>4. regs'[main] = [record EXCEPT !.last = n, !.stop = p] /\ n = record.last + 1
    BY <2>2, <2>3
  <2> HIDE DEF record, n, p, r
  <2> QED BY <1>4, <2>1, <2>3, <2>4 DEF Record
<1>9. ~captured => /\ worker.yields = "completed" => ~regs'[main].live
                   /\ regs'[main].live => regs'[main] = record
  <2>1. worker.yields = "completed" => regs'[main] = NoRecord
    BY <1>2, <1>5 DEF Recorded
  <2>2. ~captured /\ worker.yields # "completed" => regs'[main] = record
    BY <1>2, <1>5 DEF Recorded
  <2> QED BY <2>1, <2>2 DEF NoRecord
<1> WITNESS r
<1>10. UNCHANGED <<intents, ops, main>>
  BY <1>1
<1> HIDE DEF r, record
<1> QED BY <1>2, <1>3, <1>5, <1>6, <1>7, <1>8, <1>9, <1>10 DEF record

LEMMA ToldRecord ==
    ASSUME Inv, Numbered, Told, PolicyRecords PROVE Told'
<1>1. PICK r :
        /\ replies' = Append(replies, r) /\ r.op = main /\ main # 0 /\ regs[main].live
        /\ UNCHANGED <<intents, ops, main>>
        /\ \A c \in 1 .. MaxCommands : c # main => regs'[c] = regs[c]
        /\ r.kind = "captured" =>
              /\ r.seq = regs[main].last + 1 /\ MainPhase = "suspended_capture"
              /\ regs'[main].live /\ regs'[main].last = regs[main].last + 1
        /\ r.kind # "captured" =>
              r.seq = 0 /\ r.corr = 0 /\ (regs'[main].live => regs'[main] = regs[main])
        /\ r.kind = "completed" => ~regs'[main].live
        /\ r.corr \in 0 .. Len(intents)
        /\ r.corr # 0 => intents[r.corr].op = main /\ intents[r.corr].seq = r.seq
  BY PublishedReply
<1> DEFINE n == Len(replies) + 1
<1>0. /\ Len(ops) \in Nat /\ Len(intents) \in Nat /\ Len(replies) \in Nat
      /\ DOMAIN intents = 1 .. Len(intents) /\ DOMAIN replies = 1 .. Len(replies)
      /\ \A x \in DOMAIN intents : /\ intents[x].op \in Nat /\ intents[x].op > 0
                                   /\ intents[x].seq \in Nat /\ intents[x].after \in Nat
      /\ \A j \in DOMAIN replies : /\ replies[j].op \in Nat /\ replies[j].op > 0
                                   /\ replies[j].seq \in Nat /\ replies[j].corr \in Nat
      /\ Len(ops) <= MaxCommands /\ MaxCommands \in Nat
  BY PublicationFacts
<1>2. main = Len(ops) /\ main \in 1 .. Len(ops) /\ main \in 1 .. MaxCommands /\ regs[main].last \in Nat
  BY <1>1, CurrentRecord
<1>3. /\ Len(replies') = n /\ DOMAIN replies' = 1 .. n /\ replies'[n] = r
      /\ \A j \in 1 .. Len(replies) : replies'[j] = replies[j]
  <2>1. replies \in Seq(ReplyType)
    BY DEF Inv, Typed, PublicationTyped
  <2> QED BY <1>0, <1>1, <2>1
<1>4. \A j \in 1 .. n : j \in 1 .. Len(replies) \/ j = n
  BY <1>0
<1>5. \A i \in 1 .. Len(replies) : \A j \in 1 .. i - 1 : j \in 1 .. Len(replies)
  BY <1>0
<1>6. \A j \in 1 .. n - 1 : j \in 1 .. Len(replies)
  BY <1>0
<1>7. \A j \in 1 .. Len(replies) :
          /\ replies[j].op <= main
          /\ replies[j].op = main => replies[j].kind # "completed" /\ replies[j].seq <= regs[main].last
  <2>1. \A j \in DOMAIN replies : replies[j].kind = "completed" => ~regs[replies[j].op].live
    BY DEF Told, Counted
  <2>2. \A j \in DOMAIN replies : replies[j].op = main => replies[j].seq <= regs[main].last
    BY <1>1, <1>2 DEF Told, Counted
  <2>3. \A j \in DOMAIN replies : replies[j].op <= main
    BY <1>2 DEF Told, Counted
  <2> QED BY <1>0, <1>1, <2>1, <2>2, <2>3
<1>8. \A m \in 1 .. regs[main].last :
          \E j \in 1 .. Len(replies) : replies[j].op = main /\ replies[j].seq = m
  <2>1. \A c \in 1 .. Len(ops) : regs[c].live => \A m \in 1 .. regs[c].last :
            \E j \in DOMAIN replies : replies[j].op = c /\ replies[j].seq = m
    BY DEF Told, Counted
  <2>2. \A m \in 1 .. regs[main].last :
            \E j \in DOMAIN replies : replies[j].op = main /\ replies[j].seq = m
    BY <1>1, <1>2, <2>1, Zenon
  <2> QED BY <1>0, <2>2
<1> HIDE DEF n
<1>9. InOrder'
  <2>1. ASSUME NEW i \in 1 .. n, NEW j \in 1 .. i - 1
        PROVE  /\ replies'[j].op <= replies'[i].op
               /\ replies'[j].op = replies'[i].op => replies'[j].kind # "completed"
    <3>1. CASE i \in 1 .. Len(replies)
      <4>1. j \in 1 .. Len(replies)
        BY <1>5, <3>1
      <4>2. /\ replies[j].op <= replies[i].op
            /\ replies[j].op = replies[i].op => replies[j].kind # "completed"
        BY <1>0, <3>1 DEF Told, InOrder
      <4> QED BY <1>3, <3>1, <4>1, <4>2
    <3>2. CASE i = n
      <4>1. j \in 1 .. Len(replies)
        BY <1>6, <3>2
      <4> QED BY <1>1, <1>3, <1>7, <3>2, <4>1
    <3> QED BY <1>4, <3>1, <3>2
  <2>2. ASSUME NEW i \in 1 .. n, replies'[i].kind = "captured", NEW m \in 1 .. replies'[i].seq - 1
        PROVE  \E j \in 1 .. i - 1 : replies'[j].op = replies'[i].op /\ replies'[j].seq = m
    <3>1. CASE i \in 1 .. Len(replies)
      <4>1. replies'[i] = replies[i]
        BY <1>3, <3>1
      <4>2. PICK j \in 1 .. i - 1 : replies[j].op = replies[i].op /\ replies[j].seq = m
        BY <1>0, <2>2, <3>1, <4>1 DEF Told, InOrder
      <4>3. replies'[j] = replies[j]
        BY <1>3, <1>5, <3>1
      <4> QED BY <4>1, <4>2, <4>3
    <3>2. CASE i = n
      <4>1. m \in 1 .. regs[main].last
        BY <1>1, <1>2, <1>3, <2>2, <3>2
      <4>2. PICK j \in 1 .. Len(replies) : replies[j].op = main /\ replies[j].seq = m
        BY <1>8, <4>1
      <4>3. j \in 1 .. i - 1
        BY <1>0, <3>2 DEF n
      <4> QED BY <1>1, <1>3, <3>2, <4>2, <4>3
    <3> QED BY <1>4, <3>1, <3>2
  <2>3. ASSUME NEW i \in 1 .. n, replies'[i].corr # 0
        PROVE  LET intent == intents[replies'[i].corr]
               IN  /\ intent.op = replies'[i].op /\ intent.seq = replies'[i].seq
                   /\ \A j \in intent.after + 1 .. i - 1 : replies'[j].kind # "captured"
    <3> DEFINE intent == intents[replies'[i].corr]
    <3>1. CASE i \in 1 .. Len(replies)
      <4>1. replies'[i] = replies[i] /\ intent = intents[replies[i].corr]
        BY <1>3, <3>1
      <4>2. /\ intent.op = replies[i].op /\ intent.seq = replies[i].seq
            /\ \A j \in intent.after + 1 .. i - 1 : replies[j].kind # "captured"
        BY <1>0, <2>3, <3>1, <4>1 DEF Told, InOrder
      <4>3. intent.after \in Nat
        <5>1. replies[i].corr \in 1 .. Len(intents)
          BY <1>0, <2>3, <3>1, <4>1 DEF Told, Counted
        <5> QED BY <1>0, <4>1, <5>1
      <4> HIDE DEF intent
      <4>4. \A j \in intent.after + 1 .. i - 1 : j \in 1 .. Len(replies)
        BY <1>0, <3>1, <4>3
      <4> QED BY <1>3, <4>1, <4>2, <4>4 DEF intent
    <3>2. CASE i = n
      <4>1. /\ replies'[i] = r /\ r.corr \in 1 .. Len(intents) /\ intent = intents[r.corr]
            /\ r.kind = "captured" /\ r.seq = regs[main].last + 1
        BY <1>0, <1>1, <1>3, <2>3, <3>2
      <4>2. /\ intent.op = main /\ intent.seq = r.seq /\ intent.after \in Nat
            /\ \A j \in intent.after + 1 .. Len(replies) : replies[j].kind = "captured" =>
                  /\ intent.op <= replies[j].op
                  /\ intent.op = replies[j].op => intent.seq <= replies[j].seq
        BY <1>0, <1>1, <4>1 DEF Told, Expected
      <4> HIDE DEF intent
      <4>3. ASSUME NEW j \in intent.after + 1 .. i - 1 PROVE replies'[j].kind # "captured"
        <5>1. j \in 1 .. Len(replies) /\ j \in intent.after + 1 .. Len(replies)
          BY <1>0, <3>2, <4>2 DEF n
        <5>2. SUFFICES ASSUME replies[j].kind = "captured" PROVE FALSE
          BY <1>3, <5>1
        <5>3. main <= replies[j].op /\ replies[j].op <= main /\ replies[j].op \in Nat
          BY <1>0, <1>7, <4>2, <5>1, <5>2
        <5>4. replies[j].op = main
          BY <1>2, <5>3
        <5>5. r.seq <= replies[j].seq /\ replies[j].seq <= regs[main].last
          BY <1>7, <4>2, <5>1, <5>2, <5>4
        <5> QED BY <1>0, <1>2, <4>1, <5>1, <5>5
      <4> QED BY <1>1, <4>1, <4>2, <4>3 DEF intent
    <3> QED BY <1>4, <3>1, <3>2
  <2>4. \A i \in DOMAIN replies' : replies'[i].corr # 0 =>
            LET intent == intents'[replies'[i].corr]
            IN  /\ intent.op = replies'[i].op /\ intent.seq = replies'[i].seq
                /\ \A j \in intent.after + 1 .. i - 1 : replies'[j].kind # "captured"
    <3>1. intents' = intents
      BY <1>1
    <3> QED BY <1>3, <2>3, <3>1
  <2>5. \A i \in DOMAIN replies' : \A j \in 1 .. i - 1 :
            /\ replies'[j].op <= replies'[i].op
            /\ replies'[j].op = replies'[i].op => replies'[j].kind # "completed"
    BY <1>3, <2>1
  <2>6. \A i \in DOMAIN replies' : replies'[i].kind = "captured" =>
            \A m \in 1 .. replies'[i].seq - 1 :
                \E j \in 1 .. i - 1 : replies'[j].op = replies'[i].op /\ replies'[j].seq = m
    BY <1>3, <2>2
  <2> QED BY <2>4, <2>5, <2>6 DEF InOrder
<1>10. Counted'
  <2>1. ASSUME NEW j \in 1 .. n
        PROVE  /\ replies'[j].op <= Len(ops) /\ replies'[j].corr <= Len(intents)
               /\ replies'[j].kind = "completed" => ~regs'[replies'[j].op].live
    <3>1. CASE j \in 1 .. Len(replies)
      <4>1. /\ replies[j].op <= Len(ops) /\ replies[j].corr <= Len(intents)
            /\ replies[j].kind = "completed" => ~regs[replies[j].op].live
            /\ replies[j].op \in Nat /\ replies[j].op > 0
        BY <1>0, <3>1 DEF Told, Counted
      <4>2. replies[j].op \in 1 .. MaxCommands
        BY <1>0, <4>1
      <4>3. replies[j].kind = "completed" => replies[j].op # main
        BY <1>1, <4>1
      <4>4. replies[j].kind = "completed" => ~regs'[replies[j].op].live
        BY <1>1, <4>1, <4>2, <4>3
      <4> QED BY <1>3, <3>1, <4>1, <4>4
    <3>2. CASE j = n
      BY <1>0, <1>1, <1>2, <1>3, <3>2
    <3> QED BY <1>4, <3>1, <3>2
  <2>2. ASSUME NEW c \in 1 .. Len(ops), regs'[c].live
        PROVE  /\ \A m \in 1 .. regs'[c].last :
                     \E j \in 1 .. n : replies'[j].op = c /\ replies'[j].seq = m
               /\ \A j \in 1 .. n : replies'[j].op = c => replies'[j].seq <= regs'[c].last
    <3>0. c \in 1 .. MaxCommands /\ \A j \in 1 .. Len(replies) : j \in 1 .. n
      BY <1>0 DEF n
    <3>1. regs[c].live /\ \A m \in 1 .. regs[c].last :
                \E j \in 1 .. n : replies'[j].op = c /\ replies'[j].seq = m
      <4>1. regs[c].live
        BY <1>1, <2>2, <3>0
      <4> SUFFICES ASSUME NEW m \in 1 .. regs[c].last
                   PROVE  \E j \in 1 .. n : replies'[j].op = c /\ replies'[j].seq = m
        BY <4>1
      <4>2. PICK j \in 1 .. Len(replies) : replies[j].op = c /\ replies[j].seq = m
        BY <1>0, <4>1 DEF Told, Counted
      <4> QED BY <1>3, <3>0, <4>2
    <3>2. \A j \in 1 .. Len(replies) : replies'[j].op = c => replies'[j].seq <= regs[c].last
      BY <1>0, <1>3, <3>1 DEF Told, Counted
    <3>3. n \in 1 .. n /\ Len(replies) \in Nat
      BY <1>0 DEF n
    <3>4. \A j \in 1 .. Len(replies) : replies'[j].seq \in Nat
      BY <1>0, <1>3
    <3>5. CASE c # main
      <4>1. regs'[c] = regs[c]
        BY <1>1, <3>0, <3>5
      <4>2. \A j \in 1 .. n : replies'[j].op = c => j \in 1 .. Len(replies)
        BY <1>1, <1>3, <1>4, <3>5
      <4> QED BY <3>1, <3>2, <4>1, <4>2
    <3>6. CASE c = main /\ r.kind = "captured"
      <4>1. regs'[c].last = regs[c].last + 1 /\ r.seq = regs[c].last + 1 /\ regs[c].last \in Nat
        BY <1>1, <1>2, <3>6
      <4>2. \A m \in 1 .. regs'[c].last : m \in 1 .. regs[c].last \/ m = r.seq
        BY <4>1
      <4>3. replies'[n].op = c /\ replies'[n].seq = r.seq
        BY <1>1, <1>3, <3>6
      <4>4. \A m \in 1 .. regs'[c].last :
                \E j \in 1 .. n : replies'[j].op = c /\ replies'[j].seq = m
        BY <3>1, <3>3, <4>2, <4>3
      <4>5. ASSUME NEW j \in 1 .. n, replies'[j].op = c PROVE replies'[j].seq <= regs'[c].last
        <5>1. CASE j \in 1 .. Len(replies)
          BY <2>2, <3>2, <3>4, <4>1, <4>5, <5>1
        <5>2. CASE j = n
          BY <4>1, <4>3, <5>2
        <5> QED BY <1>4, <5>1, <5>2
      <4> QED BY <4>4, <4>5
    <3>7. CASE c = main /\ r.kind # "captured"
      <4>1. regs'[c] = regs[c] /\ r.seq = 0 /\ regs[c].last \in Nat
        BY <1>1, <1>2, <2>2, <3>7
      <4>2. \A j \in 1 .. n : replies'[j].op = c => replies'[j].seq <= regs[c].last
        BY <1>3, <1>4, <3>2, <4>1
      <4> QED BY <3>1, <4>1, <4>2
    <3> QED BY <3>5, <3>6, <3>7
  <2> QED BY <1>1, <1>3, <2>1, <2>2 DEF Counted
<1>11. Expected'
  <2> SUFFICES ASSUME NEW x \in DOMAIN intents
               PROVE  LET intent == intents[x]
                      IN  /\ intent.op <= Len(ops) + 1 /\ intent.after <= n
                          /\ intent.op > Len(ops) => intent.seq = 1 /\ MainEnded
                          /\ intent.op <= Len(ops) /\ regs'[intent.op].live =>
                                intent.seq <= regs'[intent.op].last + 1
                          /\ \A j \in intent.after + 1 .. n : replies'[j].kind = "captured" =>
                                /\ intent.op <= replies'[j].op
                                /\ intent.op = replies'[j].op => intent.seq <= replies'[j].seq
    <3>1. /\ MainEnded' <=> MainEnded
          /\ intents' = intents /\ Len(ops') = Len(ops) /\ Len(replies') = n
      BY <1>1, <1>3 DEF MainEnded
    <3> QED BY <3>1 DEF Expected
  <2> DEFINE intent == intents[x]
  <2>1. /\ intent.op <= Len(ops) + 1 /\ intent.after <= Len(replies)
        /\ intent.op > Len(ops) => intent.seq = 1 /\ MainEnded
        /\ intent.op <= Len(ops) /\ regs[intent.op].live => intent.seq <= regs[intent.op].last + 1
        /\ \A j \in intent.after + 1 .. Len(replies) : replies[j].kind = "captured" =>
              /\ intent.op <= replies[j].op
              /\ intent.op = replies[j].op => intent.seq <= replies[j].seq
    BY DEF Told, Expected
  <2>2. intent.op \in Nat /\ intent.op > 0 /\ intent.seq \in Nat /\ intent.after \in Nat
    BY <1>0
  <2> HIDE DEF intent
  <2>3. intent.after <= n
    BY <1>0, <2>1, <2>2 DEF n
  <2>4. intent.op <= Len(ops) /\ regs'[intent.op].live => intent.seq <= regs'[intent.op].last + 1
    <3> SUFFICES ASSUME intent.op <= Len(ops), regs'[intent.op].live
                 PROVE  intent.seq <= regs'[intent.op].last + 1
      OBVIOUS
    <3>1. intent.op \in 1 .. MaxCommands
      BY <1>0, <2>2
    <3>2. CASE intent.op # main
      BY <1>1, <2>1, <3>1, <3>2
    <3>3. CASE intent.op = main
      <4>1. intent.seq <= regs[main].last + 1
        BY <1>1, <2>1, <3>3
      <4>2. regs'[main].last \in {regs[main].last, regs[main].last + 1}
        BY <1>1, <3>3
      <4> QED BY <1>2, <2>2, <3>3, <4>1, <4>2
    <3> QED BY <3>2, <3>3
  <2>5. ASSUME NEW j \in intent.after + 1 .. n, replies'[j].kind = "captured"
        PROVE  /\ intent.op <= replies'[j].op
               /\ intent.op = replies'[j].op => intent.seq <= replies'[j].seq
    <3>1. CASE j = n
      <4>1. /\ replies'[j] = r /\ r.op = main /\ r.seq = regs[main].last + 1
            /\ MainPhase = "suspended_capture"
        BY <1>1, <1>3, <2>5, <3>1
      <4>2. ~MainEnded
        BY <1>1, <4>1 DEF MainEnded, MainPhase, TerminalPhases
      <4>3. intent.op <= main
        BY <1>2, <2>1, <2>2, <4>2
      <4>4. intent.op = main => intent.seq <= r.seq
        BY <1>1, <1>2, <2>1, <4>1, <4>3
      <4> QED BY <4>1, <4>3, <4>4
    <3>2. CASE j # n
      <4>1. j \in intent.after + 1 .. Len(replies) /\ j \in 1 .. Len(replies)
        BY <1>0, <2>2, <3>2 DEF n
      <4> QED BY <1>3, <2>1, <2>5, <4>1
    <3> QED BY <3>1, <3>2
  <2> QED BY <2>1, <2>3, <2>4, <2>5 DEF intent
<1> QED BY <1>9, <1>10, <1>11 DEF Told

LEMMA ToldNext == ASSUME Inv, Numbered, Told, [Next]_vars PROVE Told'
<1>1. CASE UNCHANGED vars
  BY <1>1 DEF vars, Told, InOrder, Counted, Expected, MainEnded
<1>2. CASE Next /\ ~PolicyRecords
  BY <1>2, NextKeeps, ToldBeside
<1> QED BY <1>1, <1>2, ToldRecord

LEMMA ToldInit == ASSUME Init PROVE Told
<1>1. /\ DOMAIN replies = {} /\ DOMAIN intents = {} /\ Len(ops) = 0
  BY DEF Init
<1> QED BY <1>1 DEF Told, InOrder, Counted, Expected

\* The replies of a command are numbered CAPTURE stops and user stops, then at
\* most one completion, and no command replies before an older one is over; a
\* correlation ticket is answered by the first CAPTURE reply after it was
\* issued, of its command and number (reply_publication.py).
THEOREM RepliesAreInOrder == Spec => []RepliesInOrder
<1>1. Init => Inv /\ Numbered /\ Told
  BY InitKeeps, ToldInit DEF Init, Numbered
<1>2. Inv /\ Numbered /\ Told /\ [Next]_vars => Inv' /\ Numbered' /\ Told'
  BY NextKeeps, NumbersNext, ToldNext
<1>3. ASSUME Inv, Told PROVE RepliesInOrder
  <2> SUFFICES ASSUME NEW i \in 1 .. Len(replies)
               PROVE  LET r == replies[i]
                          Earlier == {j \in 1 .. i - 1 : replies[j].op = r.op}
                          Captures(from) == {j \in from .. i - 1 : replies[j].kind = "captured"}
                      IN  /\ \A j \in 1 .. i - 1 : replies[j].op <= r.op
                          /\ \A j \in Earlier : replies[j].kind # "completed"
                          /\ r.kind = "captured" =>
                                \A n \in 1 .. r.seq - 1 : \E j \in Earlier : replies[j].seq = n
                          /\ r.corr # 0 =>
                                /\ intents[r.corr].op = r.op /\ intents[r.corr].seq = r.seq
                                /\ Captures(intents[r.corr].after + 1) = {}
    BY DEF RepliesInOrder
  <2>1. i \in DOMAIN replies
    BY <1>3, PublicationFacts
  <2>2. /\ \A j \in 1 .. i - 1 : /\ replies[j].op <= replies[i].op
                                 /\ replies[j].op = replies[i].op => replies[j].kind # "completed"
        /\ replies[i].kind = "captured" =>
              \A n \in 1 .. replies[i].seq - 1 :
                  \E j \in 1 .. i - 1 : replies[j].op = replies[i].op /\ replies[j].seq = n
        /\ replies[i].corr # 0 =>
              /\ intents[replies[i].corr].op = replies[i].op
              /\ intents[replies[i].corr].seq = replies[i].seq
              /\ \A j \in intents[replies[i].corr].after + 1 .. i - 1 :
                    replies[j].kind # "captured"
    BY <1>3, <2>1 DEF Told, InOrder
  <2> QED BY <2>2
<1> QED BY <1>1, <1>2, <1>3, PTL DEF Spec

=============================================================================
