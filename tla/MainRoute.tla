----------------------------- MODULE MainRoute -----------------------------
(* The life of MAIN commands: admission and withdrawal, the command write, *)
(* Continue, the classification of stops, the opening of a CAPTURE scope,  *)
(* resumes, the publication of replies with their stop numbers and         *)
(* correlation tickets, Stop, and the loss of the target.                  *)
(*                                                                         *)
(* A controller method is atomic where it holds the controller's lock; a   *)
(* plan on the worker interleaves with it at every transport command. The  *)
(* code of a command may stop anywhere in 1C, or end. A command enters and *)
(* is answered in one step: a Stop comes before it or after it.            *)
(* Abstracted: the statement and its values, locations, the namespace.     *)
(* Not here: CAPTURE cells and the parts of a writeback (their modules     *)
(* have them), Worker activation, reconciliation (nobody asks for one of a *)
(* MAIN ticket), and close().                                              *)
EXTENDS Integers, Sequences, SequencesExt

CONSTANTS
    MaxCommands,  \* bound: commands that a submission leaves behind
    MaxStops,     \* bound: times the kernel stops inside commands
    MaxTickets,   \* bound: tickets of the arbiter
    MaxIntents   \* bound: correlation tickets issued

ASSUME BoundsAssumption ==
    /\ MaxCommands \in Nat /\ MaxStops \in Nat
    /\ MaxTickets \in Nat /\ MaxIntents \in Nat

VARIABLES
    ops,       \* MainOperation by command id: phase, attempted, pending stop
    main,      \* main_operation: a command id, or 0
    scope,     \* capture_scope: its stop number (0: none), command, states
    stops,     \* _stop_sequence
    epoch,     \* the epoch of the arbiter's current route
    resume,    \* _resume_ticket, or 0
    planned,   \* _planned_capture_ticket: an index of intents, or 0
    intents,   \* the CaptureCorrelationTickets issued, with a ghost: see Issue
    regs,      \* RouteSettlementService._main, by command id
    tickets,   \* the arbiter's tickets, in order of submission
    queue,     \* indices of the queued ones
    active,    \* index of the active one, or 0
    worker,    \* its plan: the next step, what it yields, the registration read
    stopper,   \* a StopCoordinator.request_stop under way
    proof,     \* _confirmed_target_termination is set
    kernel,    \* the loop in 1C: where the target is, its command fields, its stops
    replies,   \* ghost: the replies published
    ran        \* ghost: the command ids the kernel ran, each with its code

commandVars == <<ops, main, scope, stops, epoch, resume>>
publicationVars == <<planned, intents, regs, replies>>
arbiterVars == <<tickets, queue, active, worker>>
stopVars == <<stopper, proof>>
kernelVars == <<kernel, ran>>
vars == <<commandVars, publicationVars, arbiterVars, stopVars, kernelVars>>

Phases == {"admitted", "running", "suspended_capture", "suspended_user", "completed",
           "unknown", "lost", "failed_before_dispatch"}
TerminalPhases == {"completed", "lost", "failed_before_dispatch"}
Stopped == {"service", "capture", "user", "other"}

NoScope == [seq |-> 0, op |-> 0, context |-> "closed", frame |-> "released"]
NoRecord == [prior |-> 0, last |-> 0, stop |-> 0, corr |-> 0, live |-> FALSE]
NoContext == [main |-> 0, scope |-> 0, seen |-> FALSE]
NoStopper == [step |-> "none", ticket |-> 0, context |-> NoContext]
IdleWorker == [step |-> "none", yields |-> "none", record |-> NoRecord]

Init ==
    /\ ops = <<>> /\ main = 0 /\ scope = NoScope /\ stops = 0 /\ epoch = 1 /\ resume = 0
    /\ planned = 0 /\ intents = <<>> /\ regs = [c \in 1 .. MaxCommands |-> NoRecord]
    /\ tickets = <<>> /\ queue = <<>> /\ active = 0 /\ worker = IdleWorker
    /\ stopper = NoStopper /\ proof = FALSE
    /\ kernel = [at |-> "service", current |-> 0, code |-> 0, id |-> 0, done |-> 0, stop |-> 0]
    /\ replies = <<>> /\ ran = {}

-----------------------------------------------------------------------------
(* What the controller and the arbiter read.                               *)

Idle == active = 0 /\ queue = <<>>
Closed == kernel.at = "gone"
Accepts == ~Closed /\ (active # 0 => ~tickets[active].stop)
MainEnded == main # 0 => ops[main].phase \in TerminalPhases
ResumeInFlight == resume # 0 /\ tickets[resume].phase # "settled"
CaptureReady == scope.seq # 0 /\ scope.context = "ready"
Captured == CaptureReady /\ main # 0 /\ ops[main].phase = "suspended_capture"

\* main_dispatch_evidence of a MAIN ticket: has Continue of its command been entered?
Evidence(t) ==
    IF ops[t.op].attempted THEN "yes"
    ELSE IF ops[t.op].phase = "failed_before_dispatch" \/ t.phase = "settled" THEN "no"
    ELSE "open"

NewTicket(kind, op, phase, outcome) ==
    [kind |-> kind, op |-> op, epoch |-> epoch, phase |-> phase, outcome |-> outcome,
     ever |-> FALSE, stop |-> FALSE, context |-> NoContext]

\* RdbgArbiter.submit and dispatch.
Submit(kind, op) ==
    /\ tickets' = Append(tickets, NewTicket(kind, op, "queued", "none"))
    /\ queue' = Append(queue, Len(tickets) + 1)
    /\ UNCHANGED <<active, worker>>

-----------------------------------------------------------------------------
(* Submissions.                                                            *)

MutantBaseline == 0

\* register_main's prior_capture_sequence.
Baseline == stops

NewOperation(phase) == [phase |-> phase, attempted |-> FALSE, pending |-> 0]

\* The preparation of a cell, validated under the lock that submits it.
MainAdmissible ==
    ~proof /\ MainEnded /\ scope = NoScope /\ Idle
    /\ Len(ops) < MaxCommands /\ Len(tickets) < MaxTickets

\* A command with its settlement record is created and registered.
NewCommand(phase) ==
    LET c == Len(ops) + 1
    IN  /\ ops' = Append(ops, NewOperation(phase))
        /\ main' = c
        /\ regs' = [regs EXCEPT ![c] =
                      [prior |-> Baseline, last |-> 0, stop |-> 0, corr |-> planned,
                       live |-> TRUE]]
        /\ resume' = 0

SubmitMain ==
    /\ MainAdmissible /\ Accepts
    /\ NewCommand("admitted")
    /\ planned' = 0
    /\ Submit("main", Len(ops) + 1)
    /\ UNCHANGED <<scope, stops, epoch, intents, replies, stopVars, kernelVars>>

\* The caller is interrupted after its receipt has adopted the ticket and
\* before the worker has it; the plan of the correlation ticket may be cleared.
MainWithdrawn ==
    /\ MainAdmissible /\ Accepts
    /\ NewCommand("failed_before_dispatch")
    /\ planned' \in {0, planned}
    /\ tickets' = Append(tickets, NewTicket("main", Len(ops) + 1, "settled", "cancelled"))
    /\ UNCHANGED <<scope, stops, epoch, intents, replies, queue, active, worker, stopVars,
                   kernelVars>>

\* The submission fails before a receipt has the ticket, or the arbiter is
\* closed: the command number is given back.
MainUnwound ==
    /\ MainAdmissible
    /\ main' = 0 /\ resume' = 0
    /\ UNCHANGED <<ops, scope, stops, epoch, publicationVars, arbiterVars, stopVars, kernelVars>>

\* _published_capture_successor: the paused stop is the one published last.
PublishedStop ==
    /\ regs[main].live /\ regs[main].last > 0
    /\ ops[main].pending = regs[main].stop

\* A CaptureCorrelationTicket; after is a ghost, the replies published so far.
Issue(op, seq) ==
    /\ Len(intents) < MaxIntents
    /\ intents' = Append(intents, [op |-> op, seq |-> seq, after |-> Len(replies)])

Rebind(op) ==
    /\ Issue(op, regs[op].last + 1)
    /\ regs' = [regs EXCEPT ![op].corr = Len(intents) + 1]

\* prepare_capture_ticket beside a paused command.
PrepareNextStop ==
    /\ Captured /\ scope.frame = "confirmed" /\ ~ResumeInFlight /\ Idle
    /\ PublishedStop
    /\ Rebind(main)
    /\ UNCHANGED <<commandVars, planned, replies, arbiterVars, stopVars, kernelVars>>

\* prepare_capture_ticket before a command.
PrepareNextCommand ==
    /\ MainEnded /\ Idle
    /\ Issue(Len(ops) + 1, 1)
    /\ planned' = Len(intents) + 1
    /\ UNCHANGED <<commandVars, regs, replies, arbiterVars, stopVars, kernelVars>>

\* submit_resume, alone or with an admitted continuation and its ticket.
SubmitResume ==
    /\ Captured /\ ~ResumeInFlight /\ Accepts /\ Len(tickets) < MaxTickets
    /\ \/ UNCHANGED <<intents, regs>>
       \/ Idle /\ scope.frame = "confirmed" /\ PublishedStop /\ Rebind(main)
    /\ Submit("resume", main)
    /\ resume' = Len(tickets) + 1
    /\ UNCHANGED <<ops, main, scope, stops, epoch, planned, replies, stopVars, kernelVars>>

\* submit_resume_debug_stop.
SubmitDebug ==
    /\ main # 0 /\ ops[main].phase = "suspended_user" /\ ops[main].pending # 0
    /\ scope = NoScope /\ Accepts /\ Len(tickets) < MaxTickets
    /\ Submit("debug", main)
    /\ UNCHANGED <<commandVars, publicationVars, stopVars, kernelVars>>

-----------------------------------------------------------------------------
(* The plan of the active ticket: t is the ticket and o its command.       *)

Active == tickets[active]
Op == ops[Active.op]
Yet(step) == active # 0 /\ Active.phase = "running" /\ worker.step = step
Step(step) == worker' = [worker EXCEPT !.step = step]
Becomes(phase) == ops' = [ops EXCEPT ![Active.op].phase = phase]

\* The plan raises and a command, a Continue or the policy is outstanding.
GoesUnknown ==
    /\ tickets' = [tickets EXCEPT ![active].phase = "unknown", ![active].ever = TRUE]
    /\ worker' = IdleWorker
    /\ UNCHANGED <<queue, active>>

\* The ticket is settled; what the plan raised is its result.
Settles(outcome) ==
    /\ tickets' = [tickets EXCEPT ![active].phase = "settled", ![active].outcome = outcome]
    /\ active' = 0
    /\ worker' = IdleWorker
    /\ UNCHANGED queue

\* The worker takes the head; a ticket of an older route is settled at once.
FirstStep == [main |-> "prepare", resume |-> "writeback", debug |-> "continue"]

Take ==
    /\ active = 0 /\ queue # <<>> /\ ~Closed
    /\ queue' = Tail(queue)
    /\ LET i == Head(queue)
       IN  IF tickets[i].epoch # epoch
           THEN /\ tickets' = [tickets EXCEPT ![i].phase = "settled", ![i].outcome = "error"]
                /\ UNCHANGED <<active, worker>>
           ELSE /\ tickets' = [tickets EXCEPT ![i].phase = "running"]
                /\ active' = i
                /\ Step(FirstStep[tickets[i].kind])
    /\ UNCHANGED <<commandVars, publicationVars, stopVars, kernelVars>>

Entered == tickets' = [tickets EXCEPT ![active].ever = TRUE]

\* submit_main's plan: what a failure leaves of the command.
AfterFailure(phase) == IF phase = "admitted" THEN "failed_before_dispatch" ELSE phase

FailsCommand ==
    IF Active.kind = "main" THEN Becomes(AfterFailure(Op.phase)) ELSE UNCHANGED ops

\* _transport_entered refuses a command because Stop was requested.
EntrySteps == {"prepare", "code", "id", "writeback", "continue", "read", "values", "open"}
Blocked ==
    /\ active # 0 /\ Active.phase = "running" /\ worker.step \in EntrySteps /\ Active.stop
    /\ worker.step = "continue" => Op.phase \notin TerminalPhases
    /\ IF Active.ever
       THEN GoesUnknown /\ UNCHANGED ops
       ELSE Settles("cancelled") /\ FailsCommand
    /\ \/ UNCHANGED scope
       \/ worker.step = "open" /\ kernel.id = Active.op /\ scope' = [scope EXCEPT !.frame = "confirmed"]
    /\ UNCHANGED <<main, stops, epoch, resume, publicationVars, stopVars, kernelVars>>

\* The Worker's pin and the installation of the breakpoints. A lost answer
\* raises OutcomeUnknown in the one and a transport error in the other.
Prepare ==
    /\ Yet("prepare") /\ ~Active.stop
    /\ \/ /\ tickets' \in {tickets, [tickets EXCEPT ![active].ever = TRUE]}
          /\ Step("code")
          /\ UNCHANGED <<ops, queue, active>>
       \/ Settles("error") /\ FailsCommand
       \/ GoesUnknown /\ (UNCHANGED ops \/ FailsCommand)
    /\ UNCHANGED <<main, scope, stops, epoch, resume, publicationVars, stopVars, kernelVars>>

\* modify of one command field: acknowledged, refused, or without an answer.
Write(step, next, field) ==
    LET written == [kernel EXCEPT ![field] = Active.op]
    IN  /\ Yet(step) /\ ~Active.stop
        /\ \/ Entered /\ Step(next) /\ kernel' = written /\ UNCHANGED <<ops, queue, active>>
           \/ Settles("error") /\ FailsCommand /\ UNCHANGED kernel
           \/ GoesUnknown /\ Becomes("unknown") /\ kernel' \in {written, kernel}
        /\ UNCHANGED <<main, scope, stops, epoch, resume, publicationVars, stopVars, ran>>

WriteCode == Write("code", "id", "code")
WriteId == Write("id", "continue", "id")

\* begin_writeback, flush and end_scope: done, a confirmed failure of a root
\* or of the end, or no answer. CaptureContinuation has their parts.
Writeback ==
    /\ Yet("writeback") /\ ~Active.stop
    /\ \/ Entered /\ Step("continue") /\ UNCHANGED <<queue, active>>
       \/ Settles("error")
       \/ GoesUnknown
    /\ UNCHANGED <<commandVars, publicationVars, stopVars, kernelVars>>

\* The loop in 1C, when it leaves its service breakpoint: it runs the command it
\* finds if its id is newer than the last one completed.
Released ==
    /\ IF kernel.at = "service" /\ kernel.id > kernel.done
       THEN /\ kernel' = [kernel EXCEPT !.at = "running", !.current = kernel.id]
            /\ ran' = ran \cup {<<kernel.id, kernel.code>>}
       ELSE kernel' = [kernel EXCEPT !.at = "running"] /\ UNCHANGED ran

MutantForgetEntry(o) == [o EXCEPT !.phase = "unknown", !.pending = 0]

\* MainOperation.continue_requested.
ContinueRequested(o) == [o EXCEPT !.phase = "unknown", !.attempted = TRUE, !.pending = 0]

\* Continue enters the transport and reaches the target, or is lost before it.
ContinueEnters ==
    /\ Yet("continue") /\ ~Active.stop /\ Op.phase \notin TerminalPhases
    /\ ops' = [ops EXCEPT ![Active.op] = ContinueRequested(@)]
    /\ Entered
    /\ \/ Released /\ Step("sent")
       \/ UNCHANGED kernelVars /\ Step("unsent")
    /\ UNCHANGED <<main, scope, stops, epoch, resume, queue, active, publicationVars, stopVars>>

\* A resume of a command that has ended meanwhile raises before the transport.
ContinueTooLate ==
    /\ Yet("continue") /\ Op.phase \in TerminalPhases
    /\ Settles("error")
    /\ UNCHANGED <<commandVars, publicationVars, stopVars, kernelVars>>

\* continue_acknowledged; a resume closes its scope and leaves its route.
ContinueAcknowledged ==
    /\ Yet("sent")
    /\ Becomes("running")
    /\ Step("await")
    /\ IF Active.kind = "resume"
       THEN scope' = NoScope /\ resume' = 0 /\ epoch' = epoch + 1
       ELSE UNCHANGED <<scope, resume, epoch>>
    /\ UNCHANGED <<main, stops, tickets, queue, active, publicationVars, stopVars, kernelVars>>

ContinueUnanswered ==
    /\ active # 0 /\ Active.phase = "running" /\ worker.step \in {"sent", "unsent"}
    /\ GoesUnknown
    /\ scope' = IF Active.kind = "resume"
                THEN [scope EXCEPT !.context = "closing", !.frame = "unverified"] ELSE scope
    /\ UNCHANGED <<ops, main, stops, epoch, resume, publicationVars, stopVars, kernelVars>>

\* await_stop fails in transport, or meets Stop after a poll interval.
AwaitEnds ==
    /\ Yet("await")
    /\ GoesUnknown
    /\ UNCHANGED <<commandVars, publicationVars, stopVars, kernelVars>>

-----------------------------------------------------------------------------
(* _route_stop: what the stop is, and what it yields.                      *)

Yields(kind) == worker' = [worker EXCEPT !.step = "policy", !.yields = kind]
MutantPausesNowhere(phase) ==
    ops' = [ops EXCEPT ![Active.op].phase = phase]

\* MainOperation.stopped.
Pauses(phase) == ops' = [ops EXCEPT ![Active.op].phase = phase, ![Active.op].pending = kernel.stop]

ServiceStop ==
    /\ Yet("await") /\ kernel.at = "service"
    /\ Step("read")
    /\ UNCHANGED <<commandVars, tickets, queue, active, publicationVars, stopVars, kernelVars>>

\* read_main_completion up to the id: a match completes the command, another
\* id or a failed read settles the ticket, a lost answer leaves it unknown.
ReadCompleted ==
    /\ Yet("read") /\ ~Active.stop
    /\ \/ kernel.done = Active.op /\ Step("values")
          /\ ops' = [ops EXCEPT ![Active.op].phase = "completed", ![Active.op].pending = 0]
          /\ UNCHANGED <<tickets, queue, active>>
       \/ Settles("error") /\ UNCHANGED ops
       \/ GoesUnknown /\ UNCHANGED ops
    /\ UNCHANGED <<main, scope, stops, epoch, resume, publicationVars, stopVars, kernelVars>>

\* Result, error and messages: a confirmed failure is a completion as well;
\* a lost answer leaves an evaluation outstanding.
ReadValues ==
    /\ Yet("values") /\ ~Active.stop
    /\ \/ Yields("completed") /\ UNCHANGED <<tickets, queue, active>>
       \/ GoesUnknown
    /\ UNCHANGED <<commandVars, publicationVars, stopVars, kernelVars>>

\* A stop at a user's or a Worker's breakpoint, and one nobody expects.
DebugStop ==
    /\ Yet("await")
    /\ \/ kernel.at = "user" /\ Pauses("suspended_user") /\ Yields("debug")
       \/ kernel.at = "other" /\ Pauses("unknown") /\ Yields("unrecognised")
    /\ UNCHANGED <<main, scope, stops, epoch, resume, tickets, queue, active, publicationVars,
                   stopVars, kernelVars>>

CaptureStop ==
    /\ Yet("await") /\ kernel.at = "capture"
    /\ Pauses("suspended_capture")
    /\ stops' = stops + 1 /\ epoch' = epoch + 1
    /\ scope' = [seq |-> stops + 1, op |-> Active.op, context |-> "opening",
                 frame |-> "unverified"]
    /\ Step("open")
    /\ UNCHANGED <<main, resume, tickets, queue, active, publicationVars, stopVars, kernelVars>>

Scoped(context, frame) == scope' = [scope EXCEPT !.context = context, !.frame = frame]

\* open_scope: ready; a confirmed failure, by the id of another command for one,
\* before or after the frame was confirmed; locals that did not come in time;
\* a command that fails in transport, or a poll that ends without its result.
OpenScope ==
    /\ Yet("open") /\ ~Active.stop
    /\ \E frame \in {"unverified"} \cup IF kernel.id = Active.op THEN {"confirmed"} ELSE {} :
          \/ /\ frame = "confirmed" /\ Scoped("ready", frame)
             /\ Yields("captured")
             /\ UNCHANGED <<tickets, queue, active>>
          \/ Scoped("setup_failed", frame) /\ Settles("error")
          \/ frame = "unverified" /\ UNCHANGED scope /\ Settles("error")
          \/ \E context \in {"opening", "setup_failed"} : Scoped(context, frame) /\ GoesUnknown
    /\ UNCHANGED <<ops, main, stops, epoch, resume, publicationVars, stopVars, kernelVars>>

-----------------------------------------------------------------------------
(* The finalizer: settle_main, its two locked sections around the policy.  *)

\* The public number of a CAPTURE stop, from one for each command.
Number(record) == scope.seq - record.prior

MutantMatchCommand(intent, op, seq) == intent.op = op

\* A correlation ticket names the stop it is answered by.
Match(intent, op, seq) == intent.op = op /\ intent.seq = seq

Answers(record, seq) ==
    IF record.corr # 0 /\ Match(intents[record.corr], Active.op, seq) THEN record.corr ELSE 0

\* MainReplyPolicy.publish: what a yield must be to become a reply.
Publishable(record) ==
    /\ record.live
    /\ CASE worker.yields = "captured" ->
              /\ Op.phase = "suspended_capture" /\ scope.op = Active.op
              /\ scope.context = "ready" /\ scope.frame = "confirmed"
              /\ Number(record) > 0
         [] worker.yields = "completed" -> Op.phase = "completed"
         [] worker.yields = "debug" -> Op.phase = "suspended_user" /\ Op.pending # 0
         [] OTHER -> FALSE

PolicyReads ==
    /\ Yet("policy")
    /\ IF Publishable(regs[Active.op])
       THEN /\ worker' = [worker EXCEPT !.step = "record", !.record = regs[Active.op]]
            /\ UNCHANGED <<tickets, queue, active>>
       ELSE GoesUnknown
    /\ UNCHANGED <<commandVars, publicationVars, stopVars, kernelVars>>

\* The registration is the one that was read, and the stop is the next one.
Recordable(record) ==
    worker.yields = "captured" => regs[Active.op] = record /\ Number(record) = record.last + 1

Reply(record) ==
    LET captured == worker.yields = "captured"
    IN  [op |-> Active.op, kind |-> worker.yields,
         seq |-> IF captured THEN Number(record) ELSE 0,
         corr |-> IF captured THEN Answers(record, Number(record)) ELSE 0]

Recorded(record) ==
    CASE worker.yields = "captured" -> [record EXCEPT !.last = Number(record), !.stop = Op.pending]
      [] worker.yields = "completed" -> IF regs[Active.op] = record THEN NoRecord
                                        ELSE regs[Active.op]
      [] OTHER -> regs[Active.op]

PolicyRecords ==
    /\ Yet("record")
    /\ LET record == worker.record
       IN  IF Recordable(record)
           THEN /\ replies' = Append(replies, Reply(record))
                /\ regs' = [regs EXCEPT ![Active.op] = Recorded(record)]
                /\ Settles("value")
           ELSE GoesUnknown /\ UNCHANGED <<replies, regs>>
    /\ UNCHANGED <<commandVars, planned, intents, stopVars, kernelVars>>

-----------------------------------------------------------------------------
(* Stop: the coordinator's snapshot, the arbiter's fence, the callback for *)
(* what it cancelled, the proof of the exit and its observer.              *)

\* StopCoordinator.request_stop: _stop_context is read before the request.
AskStop(i) ==
    /\ stopper.step = "none" /\ tickets[i].phase # "settled"
    /\ stopper' = [step |-> "asked", ticket |-> i,
                   context |-> [main |-> main, scope |-> scope.seq, seen |-> TRUE]]
    /\ UNCHANGED <<commandVars, publicationVars, arbiterVars, proof, kernelVars>>

\* The tickets with those of the queue in S cancelled.
Cancelling(S) ==
    [j \in 1 .. Len(tickets) |->
        IF j \in S THEN [tickets[j] EXCEPT !.phase = "settled", !.outcome = "cancelled"]
        ELSE tickets[j]]

Queued == {queue[k] : k \in 1 .. Len(queue)}

\* RdbgArbiter.request_stop; the first request that reaches the active ticket
\* starts its observer, with the context read before.
RequestStop ==
    /\ stopper.step = "asked"
    /\ LET i == stopper.ticket
       IN  \/ /\ tickets[i].phase = "settled"
              /\ stopper' = NoStopper
              /\ UNCHANGED <<tickets, queue>>
           \/ /\ tickets[i].phase = "queued"
              /\ tickets' = Cancelling({i})
              /\ \E k \in 1 .. Len(queue) : queue[k] = i /\ queue' = RemoveAt(queue, k)
              /\ stopper' = [stopper EXCEPT !.step = "cancelled"]
           \/ /\ i = active
              /\ IF tickets[i].stop
                 THEN UNCHANGED <<tickets, queue>>
                 ELSE /\ tickets' = [Cancelling(Queued) EXCEPT ![i].stop = TRUE,
                                                              ![i].context = stopper.context]
                      /\ queue' = <<>>
              /\ stopper' = NoStopper
    /\ UNCHANGED <<commandVars, publicationVars, active, worker, proof, kernelVars>>

\* _stop_cancelled_before_effect.
StopCancelled ==
    /\ stopper.step = "cancelled"
    /\ LET t == tickets[stopper.ticket]
       IN  ops' = IF /\ main # 0 /\ main = stopper.context.main
                     /\ t.kind = "main" /\ t.op = main /\ ops[main].phase = "admitted"
                  THEN [ops EXCEPT ![main].phase = "failed_before_dispatch"] ELSE ops
    /\ stopper' = NoStopper
    /\ UNCHANGED <<main, scope, stops, epoch, resume, publicationVars, arbiterVars, proof,
                   kernelVars>>

\* The termination attempt of the stopped unknown owner proves the exit; an
\* attempt that proves nothing changes nothing here. RdbgArbiter has both.
TargetTerminated ==
    /\ active # 0 /\ Active.phase = "unknown" /\ Active.stop
    /\ tickets' = [Cancelling(Queued) EXCEPT ![active].phase = "settled",
                                             ![active].outcome = "terminated"]
    /\ queue' = <<>> /\ active' = 0 /\ worker' = IdleWorker
    /\ kernel' = [kernel EXCEPT !.at = "gone", !.current = 0]
    /\ UNCHANGED <<commandVars, publicationVars, stopVars, ran>>

MutantKeepScope(context) == scope

\* scope.mark_lost(), of the scope that the context has.
Lost(context) ==
    IF scope.seq # 0 /\ scope.seq = context.scope
    THEN [scope EXCEPT !.context = "closed", !.frame = "lost"] ELSE scope

\* StopCoordinator._observe and _stop_confirmed_exit.
ConfirmedExit(i) ==
    /\ tickets[i].outcome = "terminated" /\ tickets[i].context.seen /\ ~proof
    /\ ops' = IF main # 0 /\ main = tickets[i].context.main /\ ~MainEnded
              THEN [ops EXCEPT ![main].phase = "lost", ![main].pending = 0] ELSE ops
    /\ scope' = Lost(tickets[i].context)
    /\ proof' = TRUE
    /\ UNCHANGED <<main, stops, epoch, resume, publicationVars, arbiterVars, stopper,
                   kernelVars>>

-----------------------------------------------------------------------------
(* The kernel's loop in 1C.                                                *)

\* A running command stops at a breakpoint or for another reason.
KernelStops ==
    /\ kernel.at = "running" /\ kernel.current # 0 /\ kernel.stop < MaxStops
    /\ \E place \in {"capture", "user", "other"} :
           kernel' = [kernel EXCEPT !.at = place, !.stop = @ + 1]
    /\ UNCHANGED <<commandVars, publicationVars, arbiterVars, stopVars, ran>>

\* The command ends, or there was none: the loop is at its breakpoint again.
KernelServes ==
    /\ kernel.at = "running"
    /\ kernel' = [kernel EXCEPT !.at = "service", !.current = 0,
                                !.done = IF kernel.current = 0 THEN @ ELSE kernel.id]
    /\ UNCHANGED <<commandVars, publicationVars, arbiterVars, stopVars, ran>>

Submission ==
    \/ SubmitMain \/ MainWithdrawn \/ MainUnwound
    \/ PrepareNextStop \/ PrepareNextCommand
    \/ SubmitResume \/ SubmitDebug

Plan ==
    \/ Take \/ Blocked \/ Prepare \/ WriteCode \/ WriteId \/ Writeback
    \/ ContinueEnters \/ ContinueTooLate \/ ContinueAcknowledged \/ ContinueUnanswered
    \/ AwaitEnds \/ ServiceStop \/ ReadCompleted \/ ReadValues
    \/ DebugStop \/ CaptureStop \/ OpenScope \/ PolicyReads \/ PolicyRecords

Stopping ==
    \/ \E i \in 1 .. Len(tickets) : AskStop(i) \/ ConfirmedExit(i)
    \/ RequestStop \/ StopCancelled \/ TargetTerminated

Next == Submission \/ Plan \/ Stopping \/ KernelStops \/ KernelServes

\* The observer is a thread that wakes when its ticket is settled.
Fairness == WF_vars(\E i \in 1 .. Len(tickets) : ConfirmedExit(i))

Spec == Init /\ [][Next]_vars /\ Fairness

-----------------------------------------------------------------------------
Indices == 0 .. MaxTickets
Context == [main : 0 .. MaxCommands, scope : 0 .. MaxStops, seen : BOOLEAN]
Record == [prior : 0 .. MaxStops, last : 0 .. MaxStops, stop : 0 .. MaxStops,
           corr : 0 .. MaxIntents, live : BOOLEAN]

\* The types; and what the controller may not mix: one unsettled ticket on the
\* worker, a scope that belongs to the current command, and a suspended phase
\* only with the stop that it names.
TypeOK ==
    /\ ops \in Seq([phase : Phases, attempted : BOOLEAN, pending : 0 .. MaxStops])
    /\ Len(ops) <= MaxCommands /\ main \in {0, Len(ops)}
    /\ scope.seq \in 0 .. stops /\ scope.op \in {0, main}
    /\ scope.context \in {"opening", "ready", "setup_failed", "closing", "closed"}
    /\ scope.frame \in {"unverified", "confirmed", "released", "lost"}
    /\ stops \in 0 .. MaxStops /\ epoch \in Nat /\ resume \in Indices
    /\ planned \in 0 .. Len(intents)
    /\ regs \in [1 .. MaxCommands -> Record]
    /\ active \in 0 .. Len(tickets) /\ worker.record \in Record
    /\ stopper.context \in Context /\ proof \in BOOLEAN
    /\ kernel.at \in Stopped \cup {"running", "gone"}
    /\ \A i \in 1 .. Len(tickets) :
          tickets[i].phase \in {"running", "unknown"} <=> i = active
    /\ main # 0 /\ ops[main].phase = "suspended_capture" => scope.op = main
    /\ \A c \in 1 .. Len(ops) :
          ops[c].phase \in {"suspended_capture", "suspended_user"} => ops[c].pending # 0

\* The replies of a command are numbered CAPTURE stops and user stops, then at
\* most one completion; no command replies before an older one is over. A
\* correlation ticket is answered by the first CAPTURE reply after it was
\* issued, of its command and number, and by no other (reply_publication.py).
RepliesInOrder ==
    \A i \in 1 .. Len(replies) :
        LET r == replies[i]
            Earlier == {j \in 1 .. i - 1 : replies[j].op = r.op}
            Captures(from) == {j \in from .. i - 1 : replies[j].kind = "captured"}
        IN  /\ \A j \in 1 .. i - 1 : replies[j].op <= r.op
            /\ \A j \in Earlier : replies[j].kind # "completed"
            /\ r.kind = "captured" =>
                  \A n \in 1 .. r.seq - 1 :
                      \E j \in Earlier : replies[j].seq = n
            /\ r.corr # 0 =>
                  /\ intents[r.corr].op = r.op /\ intents[r.corr].seq = r.seq
                  /\ Captures(intents[r.corr].after + 1) = {}

\* The kernel runs the current command, with its own code, while that is not
\* over; and what main_dispatch_evidence denies it never ran (controller.py).
OnlyAdmittedRuns ==
    /\ kernel.current # 0 =>
          /\ kernel.current = main
          /\ ops[main].phase \in {"unknown", "running", "suspended_capture", "suspended_user"}
    /\ \A pair \in ran : pair[1] = pair[2]
    /\ \A i \in 1 .. Len(tickets) :
          tickets[i].kind = "main" /\ Evidence(tickets[i]) = "no" =>
              \A pair \in ran : pair[1] # tickets[i].op

\* The policy and both sections of settle_main accept every yield of a
\* recognised stop: a reply is lost to no registration, number or rebinding.
PolicyAccepts ==
    /\ active # 0 /\ worker.step = "policy" /\ worker.yields # "unrecognised" =>
          Publishable(regs[Active.op])
    /\ active # 0 /\ worker.step = "record" => Recordable(worker.record)

\* Once the exit of the target has settled a ticket, the proof is published,
\* the command is over and no CAPTURE frame is offered (stop_coordinator.py).
LossIsPublished ==
    (\E i \in 1 .. Len(tickets) : tickets[i].outcome = "terminated")
        ~> (proof /\ MainEnded /\ ~CaptureReady)
=============================================================================
