---------------------------- MODULE AgentRuntime ---------------------------
(* The MCP agent service and the one 1C runtime it owns: startups that go  *)
(* through the operation registry, runtimes started under the service      *)
(* lock, the ownership file, closing, restarts that reconcile what a       *)
(* failed startup or an earlier process left, and the runs of code. The    *)
(* process may crash between any two steps; the 1C processes it started    *)
(* stay.                                                                   *)
(*                                                                         *)
(* The service lock is held from the start of a backend to its publication *)
(* by runtime.start and runtime.restart (variable api), and not by the     *)
(* lane while it starts one. Abstracted: one profile and one mode; every   *)
(* caller has selected the runtime. Backend number 0 is none.              *)
EXTENDS OperationRegistry

CONSTANTS
    MaxBackend,  \* bound: backends started
    MaxCrashes   \* bound: crashes of the service

ASSUME MaxBackendAssumption == MaxBackend \in Nat \ {0}
ASSUME MaxCrashesAssumption == MaxCrashes \in Nat

Backends == 1 .. MaxBackend

VARIABLES
    svc,      \* the service: _runtime, its closing flag, _startup_request,
              \* _orphaned_ownership, the cleanup a failed start left, _closed
    api,      \* backend an API call has started and not yet published
    owner,    \* runtime-owner.json
    of,       \* the backend whose runtime a run was submitted to
    process,  \* "up", "recovering" or "down"
    crashes,  \* counter of the bound
    alive,    \* the target: backends with live processes
    starter,  \* history: for each backend the startup that started it, or NoOp
    stray,    \* history: backends a crash left before an API call recorded them
    dispatched \* history: how often a run was dispatched to its backend

serviceVars == <<svc, api, owner, of>>
processVars == <<process, crashes>>
targetVars == <<alive, starter, stray, dispatched>>
vars == <<registryVars, serviceVars, processVars, targetVars>>

NewService == [runtime |-> 0, closing |-> FALSE, request |-> NoOp,
               orphan |-> 0, pending |-> 0, closed |-> FALSE]

Init ==
    /\ RegistryInit
    /\ svc = NewService /\ api = 0 /\ owner = 0
    /\ of = [o \in Runs |-> 0]
    /\ process = "up" /\ crashes = 0
    /\ alive = {} /\ starter = <<>> /\ stray = {}
    /\ dispatched = [o \in Runs |-> 0]

\* API calls hold the service lock. A closed service answers no new call, but the
\* flag is read before the lock: a call that has read it may run after close().
Call == process = "up" /\ api = 0

Spent == Len(starter) >= MaxBackend
Next1 == Len(starter) + 1
RequestSettled == svc.request \in {NoOp} \cup {o \in Startups : reg[o] \in {"completed", "failed"}}
Unknowns == {o \in Startups : reg[o] = "unknown"}

-----------------------------------------------------------------------------
(* The lane executes a startup.                                            *)

Bootstrapping(step) == process = "up" /\ lane.op \in Startups /\ lane.step = step
Outcome(outcome) == lane' = [lane EXCEPT !.step = "settle", !.outcome = outcome]
LaneOnly == UNCHANGED <<journal, reg, order, queue, told, refused>>

\* The cleanup an earlier start left comes first. A start that fails may leave
\* processes and the cleanup of them.
BootstrapStarts ==
    /\ Bootstrapping("execute") /\ api = 0
    /\ LET rest == alive \ {svc.pending}
           clean == [svc EXCEPT !.pending = 0]
       IN \/ /\ svc.pending # 0
             /\ Outcome("unknown")
             /\ UNCHANGED <<svc, alive, starter>>
          \/ /\ Outcome("failed")
             /\ svc' = clean /\ alive' = rest
             /\ UNCHANGED starter
          \/ /\ ~Spent
             /\ alive' = rest \cup {Next1} /\ starter' = Append(starter, lane.op)
             /\ \/ /\ lane' = [lane EXCEPT !.step = "publish", !.backend = Next1]
                   /\ svc' = clean
                \/ /\ Outcome("unknown")
                   /\ svc' = [svc EXCEPT !.pending = Next1]
    /\ LaneOnly
    /\ UNCHANGED <<api, owner, of, processVars, stray, dispatched>>

StillWanted == ~svc.closed /\ svc.request = lane.op

MutantBootstrapPublishes ==
    /\ Bootstrapping("publish") /\ api = 0 /\ StillWanted
    /\ svc' = [svc EXCEPT !.runtime = lane.backend, !.closing = FALSE]
    /\ Outcome("completed")
    /\ LaneOnly
    /\ UNCHANGED <<owner, api, of, processVars, targetVars>>

BootstrapPublishes ==
    /\ Bootstrapping("publish") /\ api = 0 /\ StillWanted
    /\ owner' = lane.backend
    /\ svc' = [svc EXCEPT !.runtime = lane.backend, !.closing = FALSE]
    /\ Outcome("completed")
    /\ LaneOnly
    /\ UNCHANGED <<api, of, processVars, targetVars>>

\* Its status, its publication or the service has failed it. A backend that
\* cannot be closed is kept as a runtime that is closing.
BootstrapFails ==
    /\ Bootstrapping("publish") /\ api = 0
    /\ \/ /\ alive' = alive \ {lane.backend}
          /\ Outcome("failed") \/ (~StillWanted /\ Outcome("unknown"))
          /\ UNCHANGED svc
       \/ /\ svc' = [svc EXCEPT !.runtime = lane.backend, !.closing = TRUE]
          /\ Outcome("unknown")
          /\ UNCHANGED alive
    /\ LaneOnly
    /\ UNCHANGED <<owner, api, of, processVars, starter, stray, dispatched>>

-----------------------------------------------------------------------------
(* The lane executes a run: code.run, capture.run_until or a hypothesis.   *)

\* A capture run that no longer knows the state of its runtime marks it as closing,
\* from the lane and without the service lock: only a close or a restart is left.
\* The runtime may have been replaced meanwhile.
Quarantined == [svc EXCEPT !.closing = @ \/ (svc.runtime # 0 /\ svc.runtime = of[lane.op])]

RunRecords ==
    /\ process = "up"
    /\ RecordProvenance
    /\ svc' = IF lane'.outcome = "unknown" THEN Quarantined ELSE svc
    /\ UNCHANGED <<api, owner, of, processVars, targetVars>>

\* It does not get as far as its dispatch.
RunFails ==
    /\ process = "up" /\ lane.op \in Runs
    /\ \/ lane.step = "execute" /\ Outcome("failed") /\ svc' = svc
       \/ lane.step = "recorded" /\ Outcome("unknown") /\ svc' = svc
       \/ /\ lane.step \in {"execute", "recorded"} /\ Outcome("unknown")
          /\ svc' = Quarantined
    /\ LaneOnly
    /\ UNCHANGED <<api, owner, of, processVars, targetVars>>

RunDispatches ==
    /\ process = "up" /\ lane.step = "recorded" /\ of[lane.op] \in alive
    /\ dispatched' = [dispatched EXCEPT ![lane.op] = @ + 1]
    /\ \/ (\E outcome \in Terminal : Outcome(outcome)) /\ svc' = svc
       \/ Outcome("unknown") /\ svc' = Quarantined
    /\ LaneOnly
    /\ UNCHANGED <<api, owner, of, processVars, alive, starter, stray>>

LaneStep ==
    \/ /\ process = "up"
       /\ TakeJob \/ Settle
       /\ UNCHANGED <<serviceVars, processVars, targetVars>>
    \/ BootstrapStarts \/ BootstrapPublishes \/ BootstrapFails
    \/ RunRecords \/ RunFails \/ RunDispatches

-----------------------------------------------------------------------------
(* API calls that start a runtime.                                         *)

\* runtime.ensure joins the startup request it finds, or submits one. It forgets
\* a request once there is a runtime.
EnsureReady ==
    /\ Call /\ svc.orphan = 0 /\ svc.runtime # 0 /\ ~svc.closing
    /\ svc' = [svc EXCEPT !.request = NoOp]
    /\ UNCHANGED <<registryVars, api, owner, of, processVars, targetVars>>

EnsureStarts(o) ==
    /\ Call /\ svc.orphan = 0 /\ svc.runtime = 0 /\ RequestSettled
    /\ o \in Startups
    /\ \/ /\ reg[o] \in Live
          /\ svc' = [svc EXCEPT !.request = o]
          /\ UNCHANGED registryVars
       \/ /\ \A p \in Startups : reg[p] \notin Live
          /\ \/ Submitted(o) /\ svc' = [svc EXCEPT !.request = o]
             \/ SubmissionRefused(o) /\ svc' = [svc EXCEPT !.request = NoOp]
             \/ /\ ExecutorRefuses(o)
                /\ svc' = [svc EXCEPT !.request = IF reg'[o] = "failed" THEN o ELSE NoOp]
    /\ UNCHANGED <<api, owner, of, processVars, targetVars>>

\* _start() up to the running backend, from what the call made of the service
\* and of the live processes before.
StartBackend(service, live) ==
    \/ svc' = service /\ alive' = live /\ UNCHANGED <<api, starter>>
    \/ /\ ~Spent
       /\ alive' = live \cup {Next1} /\ starter' = Append(starter, NoOp)
       /\ \/ api' = Next1 /\ svc' = service
          \/ svc' = [service EXCEPT !.pending = Next1] /\ UNCHANGED api

RuntimeStart ==
    /\ Call /\ svc.orphan = 0 /\ svc.runtime = 0 /\ RequestSettled
    /\ StartBackend([svc EXCEPT !.request = NoOp, !.pending = 0], alive \ {svc.pending})
    /\ UNCHANGED <<registryVars, owner, of, processVars, stray, dispatched>>

\* What an earlier process recorded is terminated first.
RestartOverOrphan ==
    /\ Call /\ svc.orphan # 0
    /\ owner' = 0
    /\ StartBackend([svc EXCEPT !.orphan = 0], alive \ {svc.orphan})
    /\ UNCHANGED <<registryVars, of, processVars, stray, dispatched>>

MutantRestartOverUnknown ==
    /\ Call /\ svc.orphan = 0 /\ svc.runtime = 0
    /\ svc.request \in Unknowns
    /\ Transition(svc.request, "failed")
    /\ StartBackend([svc EXCEPT !.pending = 0, !.request = NoOp], alive \ {svc.pending})
    /\ UNCHANGED <<order, queue, lane, owner, of, processVars, stray, dispatched>>

\* An unknown startup is abandoned once the factory says that its cleanup is
\* done: which it says only of a start that failed in this process.
RestartOverUnknown ==
    /\ Call /\ svc.orphan = 0 /\ svc.runtime = 0
    /\ svc.request \in Unknowns /\ svc.pending # 0
    /\ \/ /\ Transition(svc.request, "failed")
          /\ StartBackend([svc EXCEPT !.pending = 0, !.request = NoOp], alive \ {svc.pending})
       \/ /\ TransitionRefused(svc.request)
          /\ svc' = [svc EXCEPT !.pending = 0] /\ alive' = alive \ {svc.pending}
          /\ UNCHANGED <<api, starter>>
    /\ UNCHANGED <<order, queue, lane, owner, of, processVars, stray, dispatched>>

\* The started backend is recorded and published, or closed, or cannot be closed.
StartPublishes ==
    /\ process = "up" /\ api # 0
    /\ api' = 0
    /\ \/ /\ owner' = api /\ svc' = [svc EXCEPT !.runtime = api, !.closing = FALSE]
          /\ UNCHANGED alive
       \/ alive' = alive \ {api} /\ UNCHANGED <<owner, svc>>
       \/ /\ svc' = [svc EXCEPT !.runtime = api, !.closing = TRUE]
          /\ UNCHANGED <<owner, alive>>
    /\ UNCHANGED <<registryVars, of, processVars, starter, stray, dispatched>>

SubmitRun(o) ==
    /\ Call /\ svc.runtime # 0 /\ ~svc.closing /\ o \in Runs
    /\ Submitted(o) \/ SubmissionRefused(o) \/ ExecutorRefuses(o)
    /\ of' = [of EXCEPT ![o] = svc.runtime]
    /\ UNCHANGED <<svc, api, owner, processVars, targetVars>>

-----------------------------------------------------------------------------
(* API calls that close it, and the end of the service.                    *)

RunsOf(b) == {o \in Runs : of[o] = b}
Closed == [svc EXCEPT !.runtime = 0, !.closing = FALSE]

\* The journal refuses the abort of the generation, or the backend stays open.
CloseFails(service) ==
    /\ MarkAborted(RunsOf(svc.runtime)) \/ MarkAbortedRefused(RunsOf(svc.runtime))
    /\ svc' = [service EXCEPT !.closing = TRUE]
    /\ UNCHANGED <<owner, api, alive, starter>>

\* The generation is aborted in the journal before the backend is closed.
RuntimeClose(service) ==
    /\ svc.runtime # 0
    /\ \/ /\ MarkAborted(RunsOf(svc.runtime))
          /\ owner' = 0 /\ alive' = alive \ {svc.runtime}
          /\ svc' = [service EXCEPT !.runtime = 0, !.closing = FALSE]
          /\ UNCHANGED <<api, starter>>
       \/ CloseFails(service)
    /\ UNCHANGED <<order, queue, lane, of, processVars, stray, dispatched>>

RestartOverRuntime ==
    /\ Call /\ svc.orphan = 0 /\ svc.runtime # 0
    /\ \/ /\ MarkAborted(RunsOf(svc.runtime))
          /\ owner' = 0
          /\ StartBackend(Closed, alive \ {svc.runtime})
       \/ CloseFails(svc)
    /\ UNCHANGED <<order, queue, lane, of, processVars, stray, dispatched>>

\* Without a runtime it is the pending cleanup, and then the startup is abandoned,
\* which is an error unless it is known to be unknown.
CloseUnknown(service) ==
    /\ svc.runtime = 0 /\ svc.pending # 0
    /\ alive' = alive \ {svc.pending}
    /\ IF svc.request \in Unknowns
       THEN \/ /\ Transition(svc.request, "failed")
               /\ svc' = [service EXCEPT !.pending = 0, !.request = NoOp]
            \/ /\ TransitionRefused(svc.request)
               /\ svc' = [svc EXCEPT !.pending = 0]
       ELSE /\ svc' = [(IF svc.request = NoOp THEN service ELSE svc) EXCEPT !.pending = 0]
            /\ UNCHANGED <<journal, reg, told, refused>>
    /\ UNCHANGED <<order, queue, lane, api, owner, of, processVars, starter, stray, dispatched>>

Close == Call /\ (RuntimeClose(svc) \/ CloseUnknown(svc))

\* The service closes what it owns, unless the pending cleanup fails.
ServiceCloses ==
    LET closed == [svc EXCEPT !.closed = TRUE]
    IN /\ Call /\ ~svc.closed
       /\ \/ svc.pending = 0 /\ RuntimeClose(closed)
          \/ CloseUnknown(closed)
          \/ /\ svc.runtime = 0 /\ svc.pending = 0
             /\ svc' = closed
             /\ UNCHANGED <<registryVars, api, owner, of, processVars, targetVars>>

-----------------------------------------------------------------------------
(* Crash and recovery.                                                     *)

Unrecorded == {b \in alive : b # owner /\ starter[b] = NoOp}

Crash ==
    /\ process # "down" /\ crashes < MaxCrashes
    /\ RegistryLost
    /\ svc' = NewService /\ api' = 0
    /\ process' = "down" /\ crashes' = crashes + 1
    /\ stray' = stray \cup Unrecorded
    /\ UNCHANGED <<owner, of, alive, starter, dispatched>>

Boot ==
    /\ process = "down"
    /\ Rehydrated
    /\ svc' = [svc EXCEPT !.orphan = owner]
    /\ process' = "recovering"
    /\ UNCHANGED <<api, owner, of, crashes, targetVars>>

Recover ==
    /\ process = "recovering"
    /\ RecoverNext
    /\ UNCHANGED <<serviceVars, processVars, targetVars>>

Open ==
    /\ process = "recovering" /\ Unsettled = <<>>
    /\ process' = "up"
    /\ svc' = [svc EXCEPT !.request = RecoverableStartup]
    /\ UNCHANGED <<registryVars, api, owner, of, crashes, targetVars>>

Restart == RestartOverOrphan \/ RestartOverUnknown \/ RestartOverRuntime

Next ==
    \/ LaneStep
    \/ EnsureReady \/ RuntimeStart \/ Restart \/ StartPublishes
    \/ \E o \in Ops : EnsureStarts(o) \/ SubmitRun(o)
    \/ Close \/ ServiceCloses
    \/ Crash \/ Boot \/ Recover \/ Open

Spec == Init /\ [][Next]_vars

\* The executor's thread, the call that holds the lock and a new process are
\* scheduled; clients call what they like, and crashes need not happen.
FairSpec ==
    /\ Spec
    /\ WF_vars(LaneStep)
    /\ WF_vars(StartPublishes)
    /\ WF_vars(Boot) /\ WF_vars(Recover) /\ WF_vars(Open)

\* A client that keeps asking for an explicit restart or a close.
RestartingSpec == FairSpec /\ WF_vars(Restart) /\ WF_vars(Close)

-----------------------------------------------------------------------------
(* Properties.                                                             *)

\* Every field has its type, and memory never runs ahead of the journal except
\* for a submission that was refused.
TypeOK ==
    /\ \A i \in DOMAIN journal :
          /\ journal[i].op \in Ops
          /\ journal[i].event \in {"submitted", "started", "provenance"} \cup Terminal
    /\ reg \in [Ops -> {"none"} \cup Live \cup Terminal]
    /\ \A o \in Ops : process # "down" /\ reg[o] # OnDisk(o) => o \in refused /\ reg[o] # "completed"
    /\ lane.step \in {"idle", "execute", "recorded", "publish", "settle"}
    /\ svc.runtime \in Backends \cup {0} /\ svc.request \in Startups \cup {NoOp}
    /\ owner \in Backends \cup {0} /\ api \in Backends \cup {0} /\ alive \subseteq Backends

\* An answer outlives the process: an operation shown as completed or failed is
\* shown so ever after, by this process and the next. One shown as unknown stays
\* unknown, but for a startup that an explicit restart or close abandons; a late
\* outcome does not revive it.
AnswersLast ==
    process = "up" =>
        \A o \in Ops : Journalled(o, "submitted") =>
            told[o] \subseteq {reg[o]} \cup (IF o \in Startups /\ reg[o] = "failed"
                                            THEN {"unknown"} ELSE {})

\* Nothing reaches a backend twice, and nothing reaches it that the journal
\* would not show after a crash as started, with the identity of its execution.
DispatchIsJournalled ==
    \A o \in Runs : dispatched[o] > 0 =>
        /\ dispatched[o] = 1
        /\ Journalled(o, "submitted") /\ Journalled(o, "started") /\ Journalled(o, "provenance")

\* One runtime at a time, across startups in the lane, starts under the lock,
\* failed cleanups, crashes and restarts. The one gap is a backend of
\* runtime.start or runtime.restart that a crash finds before it is recorded.
OneRuntime == Cardinality(alive \ stray) <= 1

\* A live backend that nobody holds is one that the next process finds: it is in
\* the ownership file, or the startup that started it is not settled for good.
RuntimeAccounted ==
    \A b \in alive \ stray :
        \/ b \in {svc.runtime, svc.pending, svc.orphan, lane.backend, api, owner}
        \/ starter[b] # NoOp /\ OnDisk(starter[b]) \in Live \cup {"unknown"}

\* Both: one runtime, and somebody who holds it (service.py).
RuntimeOwned == OneRuntime /\ RuntimeAccounted

\* A run that still looks queued or running belongs to the runtime there is:
\* closing or replacing a runtime leaves no run of it to wait for.
AbortCoversGeneration ==
    process = "up" =>
        \A o \in Runs : reg[o] \in Live => svc.runtime # 0 /\ of[o] = svc.runtime

\* Every accepted operation whose records were written ends, also when the
\* process crashes with it queued or running.
AcceptedEnds ==
    \A o \in Ops :
        Journalled(o, "submitted") ~> (o \in refused \/ (process = "up" /\ reg[o] \in Terminal))

\* An explicit restart, or a close, that is asked for again and again gets the
\* service past a startup of unknown outcome: abandon_unknown_startup is there to
\* "durably abandon recovered startup ownership after explicit restart".
RestartUnwedges ==
    \A o \in Startups :
        (process = "up" /\ ~svc.closed /\ svc.request = o /\ reg[o] = "unknown")
            ~> (svc.closed \/ svc.request # o)

=============================================================================
