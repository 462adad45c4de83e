------------------------- MODULE WorkerGenerations -------------------------
(* Worker generations: the host's ledger of generations, pins and          *)
(* registration counts, the roots staged, prepared, swapped and discarded  *)
(* in the 1C target, the breakpoint slots that follow the generations, the *)
(* published snapshot, and the clients that load modules, run notebook     *)
(* methods, set breakpoints and release generations.                       *)
(*                                                                         *)
(* Plans run one at a time on the arbiter's worker; a step here is one     *)
(* remote command with the local code up to the next. Client threads and   *)
(* the commands of MAIN and CAPTURE come in between. Whatever a command    *)
(* did, its reply may be lost.                                             *)
(* Abstracted: artifacts are [module, content]; a breakpoint is the        *)
(* registration whose source it is in. Registrations have one batch. The   *)
(* fences are fixed numbers and no product code tears the ledger down, so  *)
(* neither moves here; quarantine holds and claimed reservations outlive   *)
(* only a BROKEN universe, which refuses everything.                       *)
EXTENDS Integers, FiniteSets

CONSTANTS
    Units,    \* common modules that clients load: [module, content]
    Methods,  \* methods that notebook cells define
    Worker,   \* the module of the notebook's methods
    Marks,    \* registrations in whose source a user sets breakpoints
    Callers,  \* client threads
    MaxGen    \* bound: generations prepared

NotebookModule(methods) ==
    IF methods = {} THEN {} ELSE {[module |-> Worker, content |-> methods]}
Regs == Units \cup UNION {NotebookModule(s) : s \in SUBSET Methods}

ASSUME UnitAssumption == \A u \in Units : u.module # Worker
ASSUME MethodAssumption == Units \cap Methods = {}
ASSUME MarkAssumption == Marks \subseteq Regs
ASSUME MaxGenAssumption == MaxGen \in Nat \ {0}

Gens == 1 .. MaxGen
Owners == {"main", "cell"}

VARIABLES
    host,     \* WorkerUniverseRegistry
    target,   \* ServerWorkerUniverseRegistry: registrations it has evidence of
    spots,    \* the confirmed breakpoint workspace and the logical catalog
    pub,      \* the adapter: published snapshot, base artifacts, notebook
    svc,      \* the module service: confirmed units, revision, owned handle
    plan,     \* the promotion under way
    calls,    \* what each client thread has prepared and not yet been answered
    main,     \* the MAIN command: "none", "running", "captured", "lost"
    cleanup,  \* leases whose release the arbiter still owes
    remote,   \* the target: its root, a prepared root, its breakpoints
    seen      \* history: lost replies, acknowledged units and methods

vars == <<host, target, spots, pub, svc, plan, calls, main, cleanup, remote, seen>>

NoPlan == [op |-> "none", who |-> "", step |-> "idle", marks |-> {}, before |-> {}]
NoCall == [op |-> "none", asked |-> {}, graph |-> {}, rev |-> 0, gen |-> 0, strict |-> TRUE]

Init ==
    /\ host = [state |-> "empty", next |-> 1, pending |-> 0, active |-> 0,
               records |-> {}, retained |-> {}, regs |-> [g \in Gens |-> {}],
               refs |-> [r \in Regs |-> 0], lease |-> [o \in Owners |-> 0]]
    /\ target = [registered |-> {}, instantiated |-> {}, failed |-> {}]
    /\ spots = [slots |-> {}, unknown |-> FALSE, views |-> {}, marks |-> {}, removed |-> {}]
    /\ pub = [gen |-> 0, rev |-> 0, base |-> {}, methods |-> {}]
    /\ svc = [units |-> {}, rev |-> 0, owned |-> 0]
    /\ plan = NoPlan
    /\ calls = [c \in Callers |-> NoCall]
    /\ main = "none"
    /\ cleanup = {}
    /\ remote = [root |-> 0, prepared |-> 0, slots |-> {}]
    /\ seen = [lost |-> FALSE, acked |-> {}]

-----------------------------------------------------------------------------
(* The host's ledger: what each operation makes of it.                     *)

Pinned(h) == {h.lease[o] : o \in Owners} \ {0}

\* One reference to each registration of a manifest, taken or given back.
Count(refs, regs, delta) ==
    [r \in Regs |-> IF r \in regs THEN refs[r] + delta ELSE refs[r]]

MutantCollected(h) ==
    [h EXCEPT !.records = {g \in @ : g = h.active \/ g \in h.retained}]

\* Generations that are neither active nor retained nor pinned are forgotten.
Collected(h) ==
    [h EXCEPT !.records = {g \in @ : g = h.active \/ g \in h.retained \/ g \in Pinned(h)}]

Available(h) == h.state \in {"empty", "ready"}

Prepare(h, regs) ==
    [h EXCEPT !.state = "preparing", !.pending = h.next, !.next = @ + 1,
              !.regs[h.next] = regs]

Discard(h) ==
    [h EXCEPT !.state = IF h.active = 0 THEN "empty" ELSE "ready", !.pending = 0]

MutantConfirm(h) ==
    Collected([h EXCEPT
        !.state = "ready", !.pending = 0, !.active = h.pending,
        !.records = @ \cup {h.pending}, !.retained = @ \cup {h.pending},
        !.refs = Count(@, h.regs[h.pending], 1)])

\* The candidate becomes active and retained. A generation that was active
\* and already released gives its references back.
Confirm(h) ==
    LET refs == IF h.active # 0 /\ h.active \notin h.retained
                THEN Count(h.refs, h.regs[h.active], -1) ELSE h.refs
    IN Collected([h EXCEPT
           !.state = "ready", !.pending = 0, !.active = h.pending,
           !.records = @ \cup {h.pending}, !.retained = @ \cup {h.pending},
           !.refs = Count(refs, h.regs[h.pending], 1)])

PinActive(h, o) ==
    [h EXCEPT !.lease[o] = h.active, !.refs = Count(@, h.regs[h.active], 1)]

CanRelease(h, g) == h.state # "broken" /\ g \in h.records /\ g \in h.retained

\* The active generation keeps its references until it is superseded.
ReleaseHandle(h, g) ==
    Collected([h EXCEPT
        !.retained = @ \ {g},
        !.refs = IF g = h.active THEN @ ELSE Count(@, h.regs[g], -1)])

ReleasePin(h, o) ==
    Collected([h EXCEPT !.lease[o] = 0, !.refs = Count(@, h.regs[h.lease[o]], -1)])

MutantBroken(h) == Discard(h)

\* What is unknown is neither confirmed nor discarded: nothing goes on.
Broken(h) == [h EXCEPT !.state = "broken", !.pending = 0]

-----------------------------------------------------------------------------
(* The logical breakpoints and their slots.                                *)

\* The slots of breakpoints in these generations: one per registration.
SlotsOf(h, marks, gens) == marks \cap UNION {h.regs[g] : g \in gens}

\* A unit replaces the one of its module.
Upsert(graph, unit) == {u \in graph : u.module # unit.module} \cup {unit}

-----------------------------------------------------------------------------
(* Client threads. Their plans begin later, on the arbiter's worker.       *)

Boundary == main \in {"none", "captured"}
Idle == plan.op = "none" /\ cleanup = {} /\ Boundary

\* A load packages the confirmed units with its own.
CallLoad(c, unit, strict) ==
    /\ calls[c].op = "none" /\ Idle
    /\ calls' = [calls EXCEPT ![c] =
           [op |-> "load", asked |-> {unit}, graph |-> Upsert(svc.units, unit),
            rev |-> svc.rev, gen |-> 0, strict |-> strict]]
    /\ UNCHANGED <<host, target, spots, pub, svc, plan, main, cleanup, remote, seen>>

\* A cell that defines a method is prebuilt on the published methods. It may
\* also be prepared during a plan, but reads what it would read before it.
CallCell(c, method) ==
    /\ calls[c].op = "none" /\ Idle
    /\ calls' = [calls EXCEPT ![c] =
           [op |-> "cell", asked |-> {method}, graph |-> pub.methods \cup {method},
            rev |-> pub.rev, gen |-> 0, strict |-> TRUE]]
    /\ UNCHANGED <<host, target, spots, pub, svc, plan, main, cleanup, remote, seen>>

CallRelease(c) ==
    /\ calls[c].op = "none" /\ Idle
    /\ svc.owned # 0 /\ pub.gen = svc.owned
    /\ calls' = [calls EXCEPT ![c] =
           [op |-> "release", asked |-> {}, graph |-> {},
            rev |-> svc.rev, gen |-> svc.owned, strict |-> TRUE]]
    /\ UNCHANGED <<host, target, spots, pub, svc, plan, main, cleanup, remote, seen>>

MutantCurrent(call) ==
    CASE call.op = "load" -> call.rev = svc.rev /\ pub.gen = host.active
      [] call.op = "cell" -> TRUE
      [] OTHER -> call.rev = svc.rev /\ svc.owned = call.gen /\ pub.gen = call.gen

\* What a plan checks again of the inventory its client prepared from.
Current(call) ==
    CASE call.op = "load" -> call.rev = svc.rev /\ pub.gen = host.active
      [] call.op = "cell" -> call.rev = pub.rev
      [] OTHER -> call.rev = svc.rev /\ svc.owned = call.gen /\ pub.gen = call.gen

\* The client is answered; the promotion, if there is one, is over.
Answer(c) ==
    /\ plan' = NoPlan
    /\ calls' = [calls EXCEPT ![c] = NoCall]

Rejected(c) ==
    /\ Idle /\ calls[c].op # "none"
    /\ ~(Current(calls[c]) /\ Available(host))
    /\ Answer(c)
    /\ UNCHANGED <<host, target, spots, pub, svc, main, cleanup, remote, seen>>

CandidateRegs(call) ==
    IF call.op = "load" THEN call.graph \cup NotebookModule(pub.methods)
    ELSE pub.base \cup NotebookModule(call.graph)

BeginPromotion(c) ==
    /\ Idle /\ calls[c].op \in {"load", "cell"}
    /\ Current(calls[c]) /\ Available(host) /\ host.next <= MaxGen
    /\ ~spots.unknown
    /\ host' = Prepare(host, CandidateRegs(calls[c]))
    /\ plan' = [op |-> calls[c].op, who |-> c, step |-> "stage",
                marks |-> spots.marks, before |-> spots.slots]
    /\ UNCHANGED <<target, spots, pub, svc, calls, main, cleanup, remote, seen>>

\* The workspace is unknown already: the candidate is retained as unknown.
PromotionOverUnknown(c) ==
    /\ Idle /\ calls[c].op \in {"load", "cell"}
    /\ Current(calls[c]) /\ Available(host) /\ host.next <= MaxGen
    /\ spots.unknown
    /\ host' = Broken(Prepare(host, CandidateRegs(calls[c])))
    /\ Answer(c)
    /\ UNCHANGED <<target, spots, pub, svc, main, cleanup, remote, seen>>

-----------------------------------------------------------------------------
(* A promotion: stage, prepare the root, install the slots, swap, give up  *)
(* the previous generation, publish.                                       *)

At(step) == plan.op # "none" /\ plan.step = step
GoTo(step) == plan' = [plan EXCEPT !.step = step]
Strict == calls[plan.who].strict
CandRegs == host.regs[host.pending]
KeptMarks == spots.marks \cap CandRegs

\* What workspace.release() leaves once h is the ledger.
SlotsFor(h) == SlotsOf(h, spots.marks, h.records)
Released(h) == [spots EXCEPT !.slots = SlotsFor(h), !.views = h.records]

MutantPromotedSlots == SlotsOf(host, KeptMarks, spots.views)

\* The slots a promotion installs before its swap.
PromotedSlots == SlotsOf(host, KeptMarks, spots.views \cup {host.pending})

\* What the command of the current step makes of the target.
Effect ==
    CASE plan.step = "root" -> [remote EXCEPT !.prepared = host.pending]
      [] plan.step = "slots" -> [remote EXCEPT !.slots = PromotedSlots]
      [] plan.step = "swap" -> [remote EXCEPT !.root = host.pending, !.prepared = 0]
      [] plan.step = "restore" -> [remote EXCEPT !.slots = plan.before]
      [] plan.step = "discard" -> [remote EXCEPT !.prepared = 0]
      [] plan.step = "own" -> [remote EXCEPT !.slots = SlotsFor(ReleaseHandle(host, pub.gen))]
      [] OTHER -> remote

\* Registrations the target already has are not staged again.
Stage ==
    /\ At("stage")
    /\ target' = [target EXCEPT !.registered = @ \cup CandRegs]
    /\ GoTo("root")
    /\ UNCHANGED <<host, spots, pub, svc, calls, main, cleanup, remote, seen>>

\* One of the batch fails; what was connected before it stays connected.
StageFails ==
    /\ At("stage")
    /\ \E connected \in SUBSET (CandRegs \ target.registered) :
          /\ connected # CandRegs \ target.registered
          /\ target' = [target EXCEPT !.registered = @ \cup connected]
    /\ host' = Discard(host)
    /\ Answer(plan.who)
    /\ UNCHANGED <<spots, pub, svc, main, cleanup, remote, seen>>

PrepareRoot ==
    /\ At("root")
    /\ remote' = Effect
    /\ target' = [target EXCEPT !.instantiated = @ \cup CandRegs, !.failed = @ \ CandRegs]
    /\ GoTo("slots")
    /\ UNCHANGED <<host, spots, pub, svc, calls, main, cleanup, seen>>

\* A module that does not compile is kept out of the privacy snapshot.
RootFails ==
    /\ At("root")
    /\ \E bad \in {{}} \cup {{r} : r \in CandRegs \ target.instantiated} :
          target' = [target EXCEPT !.failed = @ \cup bad]
    /\ host' = Discard(host)
    /\ Answer(plan.who)
    /\ UNCHANGED <<spots, pub, svc, main, cleanup, remote, seen>>

Conflict ==
    /\ At("slots") /\ Strict /\ KeptMarks # spots.marks
    /\ GoTo("discard")
    /\ UNCHANGED <<host, target, spots, pub, svc, calls, main, cleanup, remote, seen>>

InstallSlots ==
    /\ At("slots") /\ (Strict => KeptMarks = spots.marks)
    /\ remote' = Effect
    /\ spots' = [spots EXCEPT !.slots = PromotedSlots]
    /\ plan' = [plan EXCEPT !.step = "swap", !.marks = KeptMarks]
    /\ UNCHANGED <<host, target, pub, svc, calls, main, cleanup, seen>>

Lessee == IF main = "captured" THEN "cell" ELSE "main"

\* The receipt confirms the candidate, the catalog follows, a cell pins it.
Swap ==
    /\ At("swap")
    /\ remote' = Effect
    /\ host' = IF plan.op = "cell" THEN PinActive(Confirm(host), Lessee) ELSE Confirm(host)
    /\ spots' = [spots EXCEPT !.views = @ \cup {host.pending}, !.marks = plan.marks,
                              !.removed = @ \cup (spots.marks \ plan.marks)]
    /\ GoTo("own")
    /\ UNCHANGED <<target, pub, svc, calls, main, cleanup, seen>>

SwapFails ==
    /\ At("swap")
    /\ GoTo("restore")
    /\ UNCHANGED <<host, target, spots, pub, svc, calls, main, cleanup, remote, seen>>

MutantRestoreSlots ==
    /\ At("restore")
    /\ plan' = [plan EXCEPT !.step = "discard", !.marks = spots.marks]
    /\ UNCHANGED <<host, target, spots, pub, svc, calls, main, cleanup, remote, seen>>

RestoreSlots ==
    /\ At("restore")
    /\ remote' = Effect
    /\ spots' = [spots EXCEPT !.slots = plan.before]
    /\ plan' = [plan EXCEPT !.step = "discard", !.marks = spots.marks]
    /\ UNCHANGED <<host, target, pub, svc, calls, main, cleanup, seen>>

DiscardRoot ==
    /\ At("discard")
    /\ remote' = Effect
    /\ host' = Discard(host)
    /\ Answer(plan.who)
    /\ UNCHANGED <<target, spots, pub, svc, main, cleanup, seen>>

\* The promoted generation becomes the snapshot; a load updates the service,
\* a cell goes on to its statement, or owes the release of its lease.
Publish ==
    LET call == calls[plan.who]
    IN /\ pub' = [gen |-> host.active, rev |-> pub.rev + 1,
                  base |-> IF call.op = "load" THEN call.graph ELSE pub.base,
                  methods |-> IF call.op = "load" THEN pub.methods ELSE call.graph]
       /\ svc' = IF call.op = "load"
                 THEN [units |-> call.graph, rev |-> svc.rev + 1, owned |-> host.active]
                 ELSE svc
       /\ seen' = [seen EXCEPT !.acked =
              {a \in @ : \A u \in call.asked \cap Units :
                            a \in Units => a.module # u.module} \cup call.asked]
       /\ plan' = NoPlan
       /\ IF call.op = "load"
          THEN /\ calls' = [calls EXCEPT ![plan.who] = NoCall]
               /\ UNCHANGED <<main, cleanup>>
          ELSE \/ /\ cleanup' = cleanup \cup {Lessee}
                  /\ calls' = [calls EXCEPT ![plan.who] = NoCall]
                  /\ UNCHANGED main
               \/ /\ main = "none" /\ main' = "running"
                  /\ calls' = [c \in Callers |-> NoCall]
                  /\ UNCHANGED cleanup

PublishFirst ==
    /\ At("own") /\ pub.gen = 0
    /\ Publish
    /\ UNCHANGED <<host, target, spots, remote>>

PublishNext ==
    /\ At("own") /\ pub.gen # 0 /\ CanRelease(host, pub.gen)
    /\ remote' = Effect
    /\ host' = ReleaseHandle(host, pub.gen)
    /\ spots' = Released(ReleaseHandle(host, pub.gen))
    /\ Publish
    /\ UNCHANGED target

\* The previous generation is gone or was released: the promotion is unknown.
OwnershipRefused ==
    /\ At("own") /\ pub.gen # 0 /\ ~CanRelease(host, pub.gen)
    /\ host' = Broken(host)
    /\ Answer(plan.who)
    /\ UNCHANGED <<target, spots, pub, svc, main, cleanup, remote, seen>>

\* Whether the current step sends a command at all.
Sends ==
    CASE plan.step = "stage" -> ~(CandRegs \subseteq target.registered)
      [] plan.step = "slots" -> (Strict => KeptMarks = spots.marks) /\ Effect # remote
      [] plan.step = "own" ->
            /\ pub.gen # 0 /\ CanRelease(host, pub.gen)
            /\ Effect # remote
      [] plan.step = "restore" -> Effect # remote
      [] OTHER -> TRUE

\* The command took effect or not; its reply is lost or says nothing known.
LoseReply ==
    /\ plan.op # "none" /\ Sends
    /\ remote' \in {remote, Effect}
    /\ host' = Broken(host)
    /\ spots' = [spots EXCEPT !.unknown = TRUE]
    /\ seen' = [seen EXCEPT !.lost = TRUE]
    /\ Answer(plan.who)
    /\ UNCHANGED <<target, pub, svc, main, cleanup>>

-----------------------------------------------------------------------------
(* The other plans: each sends one command or none.                        *)

\* The active generation keeps its slots, so nothing is installed.
ReleaseGeneration(c) ==
    /\ Idle /\ calls[c].op = "release"
    /\ Current(calls[c]) /\ Available(host)
    /\ CanRelease(host, calls[c].gen) /\ ~spots.unknown
    /\ host' = ReleaseHandle(host, calls[c].gen)
    /\ spots' = Released(ReleaseHandle(host, calls[c].gen))
    /\ svc' = [svc EXCEPT !.owned = 0, !.rev = @ + 1]
    /\ Answer(c)
    /\ UNCHANGED <<target, pub, main, cleanup, remote, seen>>

ReleaseOverUnknown(c) ==
    /\ Idle /\ calls[c].op = "release"
    /\ spots.unknown
    /\ Answer(c)
    /\ UNCHANGED <<host, target, spots, pub, svc, main, cleanup, remote, seen>>

\* The release the arbiter owes after a settlement. One that fails stays owed.
CleanUp(o) ==
    /\ plan.op = "none" /\ o \in cleanup
    /\ Available(host) /\ ~spots.unknown
    /\ host' = ReleasePin(host, o)
    /\ spots' = Released(ReleasePin(host, o))
    /\ remote' = [remote EXCEPT !.slots = SlotsFor(ReleasePin(host, o))]
    /\ cleanup' = cleanup \ {o}
    /\ UNCHANGED <<target, pub, svc, plan, calls, main, seen>>

\* A replacement of the workspace gets no reply.
InstallLost(slots) ==
    /\ slots # spots.slots
    /\ remote' \in {remote, [remote EXCEPT !.slots = slots]}
    /\ spots' = [spots EXCEPT !.unknown = TRUE]
    /\ seen' = [seen EXCEPT !.lost = TRUE]
    /\ UNCHANGED <<host, target, pub, svc, plan, calls, main, cleanup>>

CleanUpLost(o) ==
    /\ plan.op = "none" /\ o \in cleanup
    /\ Available(host) /\ ~spots.unknown
    /\ InstallLost(SlotsFor(ReleasePin(host, o)))

Remarked(marks) == SlotsOf(host, marks, spots.views)

SetMarks(marks, removed) ==
    /\ spots' = [spots EXCEPT !.marks = marks, !.removed = removed,
                              !.slots = Remarked(marks)]
    /\ remote' = [remote EXCEPT !.slots = Remarked(marks)]
    /\ UNCHANGED <<host, target, pub, svc, plan, calls, main, cleanup, seen>>

\* A removed breakpoint cannot be set again.
AddMark(r) ==
    /\ Idle /\ ~spots.unknown /\ r \notin spots.marks \cup spots.removed
    /\ \/ SetMarks(spots.marks \cup {r}, spots.removed)
       \/ InstallLost(Remarked(spots.marks \cup {r}))

RemoveMark(r) ==
    /\ Idle /\ ~spots.unknown /\ r \in spots.marks
    /\ \/ SetMarks(spots.marks \ {r}, spots.removed \cup {r})
       \/ InstallLost(Remarked(spots.marks \ {r}))

-----------------------------------------------------------------------------
(* Commands. A change of the route makes every prepared call stale.        *)

NewRoute == calls' = [c \in Callers |-> NoCall]

\* A command pins the published generation, if there is one.
PinPublished(h, o) == IF pub.gen = 0 THEN h ELSE PinActive(h, o)

MainStarts ==
    /\ Idle /\ main = "none"
    /\ pub.gen # 0 => Available(host) /\ pub.gen = host.active
    /\ host' = PinPublished(host, "main")
    /\ main' = "running"
    /\ NewRoute
    /\ UNCHANGED <<target, spots, pub, svc, plan, cleanup, remote, seen>>

MainStops ==
    /\ main = "running"
    /\ main' = "captured"
    /\ UNCHANGED <<host, target, spots, pub, svc, plan, calls, cleanup, remote, seen>>

MainResumes ==
    /\ Idle /\ main = "captured"
    /\ main' = "running"
    /\ NewRoute
    /\ UNCHANGED <<host, target, spots, pub, svc, plan, cleanup, remote, seen>>

MainEnds ==
    /\ main = "running"
    /\ main' = "none"
    /\ cleanup' = IF host.lease["main"] = 0 THEN cleanup ELSE cleanup \cup {"main"}
    /\ UNCHANGED <<host, target, spots, pub, svc, plan, calls, remote, seen>>

\* The outcome of the command is unknown, and so is what its lease protects.
MainLost ==
    /\ main = "running"
    /\ main' = "lost"
    /\ host' = IF host.lease["main"] = 0 THEN host ELSE Broken(host)
    /\ seen' = [seen EXCEPT !.lost = TRUE]
    /\ UNCHANGED <<target, spots, pub, svc, plan, calls, cleanup, remote>>

\* A cell of the CAPTURE stop, from its pin to the settlement that owes it.
CaptureCell ==
    /\ Idle /\ main = "captured" /\ pub.gen # 0
    /\ Available(host) /\ pub.gen = host.active
    /\ host' = PinPublished(host, "cell")
    /\ cleanup' = cleanup \cup {"cell"}
    /\ UNCHANGED <<target, spots, pub, svc, plan, calls, main, remote, seen>>

Next ==
    \/ \E c \in Callers :
          \/ \E unit \in Units, strict \in BOOLEAN : CallLoad(c, unit, strict)
          \/ \E method \in Methods : CallCell(c, method)
          \/ CallRelease(c) \/ Rejected(c)
          \/ BeginPromotion(c) \/ PromotionOverUnknown(c)
          \/ ReleaseGeneration(c) \/ ReleaseOverUnknown(c)
    \/ Stage \/ StageFails \/ PrepareRoot \/ RootFails
    \/ Conflict \/ InstallSlots \/ Swap \/ SwapFails \/ RestoreSlots \/ DiscardRoot
    \/ PublishFirst \/ PublishNext \/ OwnershipRefused \/ LoseReply
    \/ \E o \in Owners : CleanUp(o) \/ CleanUpLost(o)
    \/ \E r \in Marks : AddMark(r) \/ RemoveMark(r)
    \/ MainStarts \/ MainStops \/ MainResumes \/ MainEnds \/ MainLost \/ CaptureCell

Spec == Init /\ [][Next]_vars

-----------------------------------------------------------------------------
(* Properties.                                                             *)

\* Every field has its type.
TypeOK ==
    /\ host \in [state : {"empty", "preparing", "ready", "broken"},
                 next : 1 .. MaxGen + 1, pending : Gens \cup {0}, active : Gens \cup {0},
                 records : SUBSET Gens, retained : SUBSET Gens,
                 regs : [Gens -> SUBSET Regs], refs : [Regs -> Nat],
                 lease : [Owners -> Gens \cup {0}]]
    /\ target \in [registered : SUBSET Regs, instantiated : SUBSET Regs, failed : SUBSET Regs]
    /\ spots \in [slots : SUBSET Marks, unknown : BOOLEAN, views : SUBSET Gens,
                  marks : SUBSET Marks, removed : SUBSET Marks]
    /\ pub \in [gen : Gens \cup {0}, rev : Nat, base : SUBSET Units, methods : SUBSET Methods]
    /\ svc \in [units : SUBSET Units, rev : Nat, owned : Gens \cup {0}]
    /\ plan \in [op : {"none", "load", "cell"}, who : Callers \cup {""},
                 step : {"idle", "stage", "root", "slots", "swap", "restore", "discard", "own"},
                 marks : SUBSET Marks, before : SUBSET Marks]
    /\ main \in {"none", "running", "captured", "lost"}
    /\ cleanup \subseteq Owners
    /\ remote \in [root : Gens \cup {0}, prepared : Gens \cup {0}, slots : SUBSET Marks]
    /\ seen \in [lost : BOOLEAN, acked : SUBSET (Units \cup Methods)]

Quiet == plan.op = "none" /\ host.state # "broken"

\* A registration is counted once for each generation that holds it for
\* being active or retained, and once for each lease: prepare, confirm,
\* pin and both releases keep _registration_refcounts exact.
RefcountsExact ==
    host.state # "broken" =>
        \A r \in Regs :
            host.refs[r] =
                Cardinality({g \in host.records :
                    r \in host.regs[g] /\ (g = host.active \/ g \in host.retained)})
                + Cardinality({o \in Owners :
                    host.lease[o] # 0 /\ r \in host.regs[host.lease[o]]})

\* A generation that a paused command still holds is never forgotten: its
\* record, its debug view and its registrations are there for diagnostics
\* and for its breakpoints, whatever was promoted and released meanwhile.
PinnedStaysLive ==
    \A o \in Owners : host.lease[o] # 0 =>
        /\ host.lease[o] \in host.records \cap spots.views
        /\ host.regs[host.lease[o]] \subseteq target.registered

\* The target runs the root that the host believes active, at every point of
\* a promotion that is not broken; no known failure leaves a prepared root
\* behind in it; and every registration a root has instantiated is one that
\* type probes recognise: a compilation failure does not hide it for good.
TargetAgrees ==
    /\ host.state # "broken" => remote.root = host.active
    /\ Quiet => remote.prepared = 0 /\ host.pending = 0
    /\ host.state = "ready" => target.instantiated \subseteq target.registered \ target.failed

\* No acknowledged load or cell is lost: when no promotion is under way, the
\* published generation is the active one, and it holds each unit in the
\* version last acknowledged and each acknowledged method, however the
\* threads that loaded and defined them overlapped.
LoadsCompose ==
    Quiet =>
        LET units == seen.acked \cap Units
            methods == seen.acked \cap Methods
        IN /\ pub.gen = host.active
           /\ svc.units = units /\ pub.methods = methods
           /\ pub.gen # 0 => host.regs[pub.gen] = units \cup NotebookModule(methods)

\* When no promotion is under way, the debugger holds exactly the slots of
\* the logical breakpoints in the generations that are still live.
SlotsFollowGenerations ==
    Quiet /\ ~spots.unknown =>
        /\ spots.views = host.records
        /\ spots.slots = SlotsOf(host, spots.marks, host.records)
        /\ remote.slots = spots.slots

\* No root is active before the breakpoints kept for it are installed.
SlotsBeforeRoot ==
    host.state # "broken" /\ ~spots.unknown /\ remote.root # 0 =>
        SlotsOf(host, IF plan.op = "none" THEN spots.marks ELSE spots.marks \cap plan.marks,
                {remote.root}) \subseteq remote.slots

\* Both: the debugger's slots, between promotions and in the middle of one.
SlotsMatch == SlotsFollowGenerations /\ SlotsBeforeRoot

\* The universe breaks only when the outcome of some command was lost.
BrokenOnlyByLoss == host.state = "broken" => seen.lost
=============================================================================
