--------------------- MODULE CaptureContinuationProofs ---------------------
(***************************************************************************)
(* Proofs about CaptureContinuation, for every set of roots and points and *)
(* every number of cells, attempts and resumes: types, that no effect on   *)
(* the target is repeated, that Continue carries every change, that the    *)
(* evidence is not better than the truth and that a rollback is clean.     *)
(***************************************************************************)
EXTENDS CaptureContinuation, QueueLemmas

USE DEF scopeVars, publicVars, admissionVars, ticketVars, truthVars, boundVars, vars

-----------------------------------------------------------------------------
(* Types.                                                                  *)

LedgerType == [begun : BOOLEAN, roots : Seq(Roots), phase : [Roots -> RootPhases]]
WorkerType == [phase : {"running", "unknown"}, ever : BOOLEAN, stop : BOOLEAN,
               step : {"none", "admit", "run", "done", "rearm", "ledger", "flush", "export",
                       "modify", "end", "continue", "acknowledge", "close", "await"}]
Outcomes == {"none", "live", "value", "error"}
ContinueStates == {"unattempted", "planned", "acknowledged", "outcome_unknown"}
Frozen == {<<>>} \cup {<<f>> : f \in Evidences}

\* No variable is named twice.
OneSpelling(roots) ==
    \A i, j \in 1 .. Len(roots) : Casefold[roots[i]] = Casefold[roots[j]] => i = j

ScopeTyped ==
    /\ main \in {"suspended_capture", "unknown", "running", "lost"}
    /\ context \in {"ready", "closing", "closed"}
    /\ frame \in {"confirmed", "unverified", "released", "lost"}
    /\ dirty \in Seq(Roots) /\ OneSpelling(dirty)
    /\ ledger \in LedgerType

ArbiterTyped ==
    /\ resuming \in BOOLEAN /\ evaluating \in BOOLEAN /\ registry \in PointSets
    /\ queue \in Seq({"cell", "resume", "restore"})
    /\ active \in {"none", "cell", "resume", "restore"}
    /\ worker \in WorkerType /\ cell \in RootLists

AttemptsTyped ==
    /\ admission \in 0 .. Len(attempts) /\ attempts \in Seq(Attempts)
    /\ rollback \in [attempt : 0 .. Len(attempts),
                     restore : {"none", "waiting", "value", "error", "unknown"}]
    /\ job \in [attempt : 0 .. Len(attempts), roots : RootLists,
                points : PointSets \cup {NoPoints}]
    /\ continues \in Seq(0 .. Len(attempts))

TruthTyped ==
    /\ version \in [Variables -> Nat] /\ exported \in [Variables -> Nat]
    /\ written \in [Variables -> Nat] /\ sent \in [Variables -> Nat]
    /\ cells \in 0 .. MaxCells /\ resumes \in 0 .. MaxResumes

Typed == ScopeTyped /\ ArbiterTyped /\ AttemptsTyped /\ TruthTyped

LEMMA TypedIsTypeOK == Typed <=> TypeOK
BY DEF Typed, TypeOK, ScopeTyped, ArbiterTyped, AttemptsTyped, TruthTyped, OneSpelling,
       LedgerType, WorkerType

-----------------------------------------------------------------------------
(* Lists of roots.                                                         *)

\* A list of dirty roots has at most two members, of two variables.
LEMMA ListFacts ==
    ASSUME NEW l \in RootLists
    PROVE  /\ l \in Seq(Roots) /\ Len(l) \in 0 .. 2
           /\ Len(l) = 0 <=> l = <<>>
           /\ Len(l) = 2 => Casefold[l[1]] # Casefold[l[2]]
<1>1. CASE l = <<>>
  BY <1>1
<1>2. CASE \E r \in Roots : l = <<r>>
  BY <1>2
<1>3. CASE l \in Roots \X Roots /\ Casefold[l[1]] # Casefold[l[2]]
  <2>1. PICK a, b \in Roots : l = <<a, b>>
    BY <1>3
  <2> QED BY <1>3, <2>1
<1> QED BY <1>1, <1>2, <1>3 DEF RootLists

\* What a sequence of roots names, by position.
LEMMA NamedIs ==
    ASSUME NEW roots \in Seq(Roots)
    PROVE  /\ Len(roots) \in Nat /\ ToSet(roots) = {roots[i] : i \in 1 .. Len(roots)}
           /\ ToSet(roots) \subseteq Roots
           /\ \A i \in 1 .. Len(roots) : roots[i] \in Roots
           /\ Named(roots) = {Casefold[roots[i]] : i \in 1 .. Len(roots)}
           /\ Named(roots) \subseteq Variables
<1>1. DOMAIN roots = 1 .. Len(roots) /\ Len(roots) \in Nat /\ roots \in [1 .. Len(roots) -> Roots]
  OBVIOUS
<1>2. ToSet(roots) = {roots[i] : i \in 1 .. Len(roots)}
  BY <1>1 DEF ToSet
<1> QED BY <1>1, <1>2 DEF Named, Variables

\* One more root.
LEMMA AddedFacts ==
    ASSUME NEW known \in Seq(Roots), OneSpelling(known), NEW r \in Roots
    PROVE  /\ Added(known, r) \in Seq(Roots) /\ OneSpelling(Added(known, r))
           /\ Named(Added(known, r)) = Named(known) \cup {Casefold[r]}
<1>1. CASE Casefold[r] \in Named(known)
  BY <1>1 DEF Added
<1>2. CASE Casefold[r] \notin Named(known)
  <2> DEFINE more == Append(known, r)
  <2>1. /\ more \in Seq(Roots) /\ Len(known) \in Nat /\ Len(more) = Len(known) + 1
        /\ \A i \in 1 .. Len(known) : more[i] = known[i]
        /\ more[Len(known) + 1] = r
    OBVIOUS
  <2>2. \A i \in 1 .. Len(known) : Casefold[known[i]] # Casefold[r]
    BY <1>2, NamedIs
  <2>3. Added(known, r) = more
    BY <1>2 DEF Added
  <2> HIDE DEF more
  <2>4. OneSpelling(more)
    <3> SUFFICES ASSUME NEW i \in 1 .. Len(more), NEW j \in 1 .. Len(more),
                        Casefold[more[i]] = Casefold[more[j]]
                 PROVE  i = j
      BY DEF OneSpelling
    <3>1. i \in 1 .. Len(known) \/ i = Len(known) + 1
      BY <2>1
    <3>2. j \in 1 .. Len(known) \/ j = Len(known) + 1
      BY <2>1
    <3> QED BY <2>1, <2>2, <3>1, <3>2 DEF OneSpelling
  <2>5. Named(more) = Named(known) \cup {Casefold[r]}
    <3>1. Named(more) = {Casefold[more[i]] : i \in 1 .. Len(more)}
      BY <2>1, NamedIs
    <3>2. Named(known) = {Casefold[known[i]] : i \in 1 .. Len(known)}
      BY NamedIs
    <3>3. 1 .. Len(more) = 1 .. Len(known) \cup {Len(known) + 1}
      BY <2>1
    <3> QED BY <2>1, <3>1, <3>2, <3>3
  <2> QED BY <2>1, <2>3, <2>4, <2>5
<1> QED BY <1>1, <1>2

LEMMA AdmitFacts ==
    ASSUME NEW known \in Seq(Roots), OneSpelling(known), NEW roots \in RootLists
    PROVE  /\ Admit(known, roots) \in Seq(Roots) /\ OneSpelling(Admit(known, roots))
           /\ Named(Admit(known, roots)) = Named(known) \cup Named(roots)
<1>1. /\ roots \in Seq(Roots) /\ Len(roots) \in 0 .. 2 /\ (Len(roots) = 0 <=> roots = <<>>)
      /\ \A i \in 1 .. Len(roots) : roots[i] \in Roots
      /\ Named(roots) = {Casefold[roots[i]] : i \in 1 .. Len(roots)}
  BY ListFacts, NamedIs
<1>2. CASE roots = <<>>
  BY <1>1, <1>2 DEF Admit
<1>3. CASE Len(roots) = 1
  <2>1. Admit(known, roots) = Added(known, roots[1]) /\ Named(roots) = {Casefold[roots[1]]}
    BY <1>1, <1>3 DEF Admit
  <2>2. roots[1] \in Roots
    BY <1>1, <1>3
  <2> QED BY <2>1, <2>2, AddedFacts
<1>4. CASE Len(roots) = 2
  <2> DEFINE one == Added(known, roots[1])
  <2>1. /\ Admit(known, roots) = Added(one, roots[2])
        /\ Named(roots) = {Casefold[roots[1]], Casefold[roots[2]]}
    BY <1>1, <1>4 DEF Admit
  <2>0. roots[1] \in Roots /\ roots[2] \in Roots
    BY <1>1, <1>4
  <2>2. one \in Seq(Roots) /\ OneSpelling(one) /\ Named(one) = Named(known) \cup {Casefold[roots[1]]}
    BY <2>0, AddedFacts
  <2> HIDE DEF one
  <2>3. Added(one, roots[2]) \in Seq(Roots) /\ OneSpelling(Added(one, roots[2]))
        /\ Named(Added(one, roots[2])) = Named(one) \cup {Casefold[roots[2]]}
    BY <2>0, <2>2, AddedFacts
  <2> QED BY <2>1, <2>2, <2>3
<1> QED BY <1>1, <1>2, <1>3, <1>4

\* The root that a flush works on is one of the ledger that is not written yet.
LEMMA NextRootFacts ==
    ASSUME ScopeTyped, Unwritten # {}
    PROVE  /\ \E n \in 1 .. Len(ledger.roots) : NextRoot = ledger.roots[n]
           /\ NextRoot \in Roots /\ NextVariable \in Variables
           /\ NextVariable = Casefold[NextRoot]
           /\ ledger.phase[NextRoot] # "succeeded"
<1>1. ledger.roots \in Seq(Roots) /\ Len(ledger.roots) \in Nat
      /\ \A i \in 1 .. Len(ledger.roots) : ledger.roots[i] \in Roots
  BY NamedIs DEF ScopeTyped, LedgerType
<1>2. Unwritten \in SUBSET Nat
  BY <1>1 DEF Unwritten
<1>3. PICK n \in Unwritten : NextRoot = ledger.roots[n]
  BY <1>2, LeastMember DEF NextRoot
<1>4. n \in 1 .. Len(ledger.roots) /\ ledger.phase[NextRoot] # "succeeded"
  BY <1>3 DEF Unwritten
<1> QED BY <1>1, <1>3, <1>4 DEF NextVariable, Variables

-----------------------------------------------------------------------------
(* Attempts.                                                               *)

\* Replacing one attempt.
LEMMA ExceptAttempt ==
    ASSUME attempts \in Seq(Attempts), NEW a \in 1 .. Len(attempts), NEW new \in Attempts,
           attempts' = [attempts EXCEPT ![a] = new]
    PROVE  /\ attempts' \in Seq(Attempts) /\ Len(attempts') = Len(attempts)
           /\ \A b \in 1 .. Len(attempts) : b # a => attempts'[b] = attempts[b]
           /\ attempts'[a] = new
OBVIOUS

\* What a step does to the attempts it does not make: their plan stays, and so does the
\* evidence that was frozen.
Kept(b) ==
    /\ attempts'[b].roots = attempts[b].roots /\ attempts'[b].points = attempts[b].points
    /\ attempts'[b].original = attempts[b].original
    /\ attempts[b].consumed => attempts'[b].consumed
    /\ attempts'[b] \in Attempts

AttemptsKept ==
    /\ attempts' \in Seq(Attempts) /\ Len(attempts') = Len(attempts) /\ Len(attempts) \in Nat
    /\ \A b \in 1 .. Len(attempts) : Kept(b)

\* What a ticket's outcome, and its Continue, leave of the evidence.
SameEvidence(b) ==
    /\ attempts'[b].frozen = attempts[b].frozen /\ attempts'[b].consumed = attempts[b].consumed

LEMMA TicketOutcomeFacts ==
    ASSUME attempts \in Seq(Attempts), NEW a \in 0 .. Len(attempts), NEW o \in Outcomes,
           TicketOutcome(a, o)
    PROVE  /\ AttemptsKept
           /\ \A b \in 1 .. Len(attempts) :
                 /\ SameEvidence(b)
                 /\ attempts'[b].continueState = attempts[b].continueState
                 /\ b # a => attempts'[b] = attempts[b]
           /\ a # 0 => attempts'[a].ticket = o
<1>1. Len(attempts) \in Nat /\ \A b \in 1 .. Len(attempts) : attempts[b] \in Attempts
  OBVIOUS
<1>2. CASE a = 0
  BY <1>1, <1>2 DEF TicketOutcome, AttemptsKept, Kept, SameEvidence
<1>3. CASE a # 0
  <2> DEFINE new == [attempts[a] EXCEPT !.ticket = o]
  <2>1. a \in 1 .. Len(attempts) /\ attempts[a] \in Attempts
    BY <1>1, <1>3
  <2>2. /\ new \in Attempts /\ new.ticket = o
        /\ new.roots = attempts[a].roots /\ new.points = attempts[a].points
        /\ new.original = attempts[a].original /\ new.consumed = attempts[a].consumed
        /\ new.continueState = attempts[a].continueState /\ new.frozen = attempts[a].frozen
    BY <2>1 DEF Attempts, Outcomes
  <2>3. attempts' = [attempts EXCEPT ![a] = new]
    BY <1>3 DEF TicketOutcome
  <2> HIDE DEF new
  <2>4. /\ attempts' \in Seq(Attempts) /\ Len(attempts') = Len(attempts)
        /\ \A b \in 1 .. Len(attempts) : b # a => attempts'[b] = attempts[b]
        /\ attempts'[a] = new
    BY <2>1, <2>2, <2>3, ExceptAttempt
  <2> QED BY <1>1, <2>1, <2>2, <2>4 DEF AttemptsKept, Kept, SameEvidence
<1> QED BY <1>2, <1>3

LEMMA ContinueStateFacts ==
    ASSUME attempts \in Seq(Attempts), job.attempt \in 0 .. Len(attempts),
           NEW s \in ContinueStates, ContinueState(s)
    PROVE  /\ AttemptsKept
           /\ \A b \in 1 .. Len(attempts) :
                 /\ SameEvidence(b) /\ attempts'[b].ticket = attempts[b].ticket
                 /\ b # job.attempt => attempts'[b] = attempts[b]
           /\ job.attempt # 0 => attempts'[job.attempt].continueState = s
<1>1. Len(attempts) \in Nat /\ \A b \in 1 .. Len(attempts) : attempts[b] \in Attempts
  OBVIOUS
<1>2. CASE job.attempt = 0
  BY <1>1, <1>2 DEF ContinueState, AttemptsKept, Kept, SameEvidence
<1>3. CASE job.attempt # 0
  <2> DEFINE a == job.attempt
             new == [attempts[a] EXCEPT !.continueState = s]
  <2>1. a \in 1 .. Len(attempts) /\ attempts[a] \in Attempts
    BY <1>1, <1>3
  <2>2. /\ new \in Attempts /\ new.ticket = attempts[a].ticket
        /\ new.roots = attempts[a].roots /\ new.points = attempts[a].points
        /\ new.original = attempts[a].original /\ new.consumed = attempts[a].consumed
        /\ new.continueState = s /\ new.frozen = attempts[a].frozen
    BY <2>1 DEF Attempts, ContinueStates
  <2>3. attempts' = [attempts EXCEPT ![a] = new]
    BY <1>3 DEF ContinueState
  <2> HIDE DEF new
  <2>4. /\ attempts' \in Seq(Attempts) /\ Len(attempts') = Len(attempts)
        /\ \A b \in 1 .. Len(attempts) : b # a => attempts'[b] = attempts[b]
        /\ attempts'[a] = new
    BY <2>1, <2>2, <2>3, ExceptAttempt
  <2> QED BY <1>1, <2>1, <2>2, <2>4 DEF AttemptsKept, Kept, SameEvidence
<1> QED BY <1>2, <1>3

-----------------------------------------------------------------------------
(* The resume plan: what its steps do to the arbiter and to the attempts.  *)

Planning == active = "resume" /\ worker.phase = "running"

FlushStep ==
    \/ ExportEnters \/ ExportRaises \/ ExportReturns \/ ExportFails
    \/ ModifyEnters \/ ModifyRefused \/ ModifyReturns \/ ModifyFails \/ ModifyLost
    \/ FlushEnds
ReleaseStep ==
    \/ ScopeEnds \/ ScopeEndFails
    \/ ContinueEnters \/ ContinueRefused \/ ContinueAcknowledged \/ ContinueLost
    \/ ScopeCloses
    \/ \E outcome \in {"value", "error"} : ResumeReturns(outcome)
PlanStep ==
    ResumeAdmitsRoots \/ Rearmed \/ RearmFails \/ LedgerBegins \/ FlushStep \/ ReleaseStep

\* It goes on, or it ends with an unknown outcome, or its ticket settles.
Goes == active' = active /\ job' = job /\ worker' \in WorkerType
Settles ==
    /\ active' = "none" /\ worker' = IdleWorker /\ job' = NoJob
    /\ \E outcome \in {"value", "error"} : TicketOutcome(job.attempt, outcome)
PlanMoves ==
    /\ Planning /\ UNCHANGED <<publicVars, admission, rollback, queue, cell, version, boundVars>>
    /\ \/ Goes /\ (attempts' = attempts \/ \E s \in ContinueStates : ContinueState(s))
       \/ Settles

LEMMA IdleIsWorker == IdleWorker \in WorkerType
BY DEF IdleWorker, WorkerType

LEMMA FailsSettles == ASSUME Planning, Fails PROVE Settles
BY DEF Planning, Fails, WorkerFreed, Settles

LEMMA UnknownGoes ==
    ASSUME worker \in WorkerType, Unknown
    PROVE  Goes /\ attempts' = attempts /\ worker'.phase = "unknown"
BY DEF Unknown, Goes, WorkerType

LEMMA RefusedMoves ==
    ASSUME worker \in WorkerType, Planning, Refused
    PROVE  (Goes /\ attempts' = attempts /\ worker'.phase = "unknown") \/ Settles
BY FailsSettles, UnknownGoes DEF Refused

LEMMA StepGoes ==
    ASSUME worker \in WorkerType,
           NEW step \in {"rearm", "ledger", "flush", "export", "modify", "end", "continue",
                         "acknowledge", "close", "await"},
           Goto(step) \/ EnterTransport(step)
    PROVE  worker' \in WorkerType /\ worker'.step = step /\ worker'.phase = worker.phase
BY DEF Goto, EnterTransport, WorkerType

LEMMA Stays ==
    ASSUME worker \in WorkerType, Unknown \/ Refused \/ Fails
    PROVE  worker'.step \in {worker.step, "none"}
<1>1. CASE Unknown
  BY <1>1 DEF Unknown, WorkerType
<1>2. CASE Fails
  BY <1>2 DEF Fails, WorkerFreed, IdleWorker
<1> QED BY <1>1, <1>2 DEF Refused

\* Where each step of the plan leads.
LEMMA PlanSteps ==
    ASSUME worker \in WorkerType, PlanStep
    PROVE  \/ worker'.step \in {worker.step, "none"}
           \/ ResumeAdmitsRoots /\ worker'.step \in {"ledger", "rearm"}
           \/ (Rearmed \/ LedgerBegins \/ FlushStep) /\ worker'.step \in {"ledger", "flush", "export", "modify"}
           \/ FlushEnds /\ worker'.step = "end"
           \/ ScopeEnds /\ worker'.step = "continue"
           \/ ContinueEnters /\ worker'.step = "acknowledge"
           \/ ContinueAcknowledged /\ worker'.step = "close"
           \/ ScopeCloses /\ worker'.step = "await"
<1>1. CASE ResumeAdmitsRoots
  <2>1. Goto("ledger") \/ Goto("rearm")
    BY <1>1 DEF ResumeAdmitsRoots
  <2> QED BY <1>1, <2>1, StepGoes
<1>2. CASE Rearmed
  BY <1>2, StepGoes DEF Rearmed
<1>3. CASE RearmFails
  BY <1>3, Stays DEF RearmFails
<1>4. CASE LedgerBegins
  BY <1>4, Stays, StepGoes DEF LedgerBegins
<1>5. CASE FlushStep
  <2>1. \/ Fails \/ Unknown \/ Refused
        \/ \E step \in {"flush", "export", "modify"} : Goto(step) \/ EnterTransport(step)
        \/ FlushEnds /\ Goto("end")
    BY <1>5 DEF FlushStep, ExportEnters, ExportRaises, ExportReturns, ExportFails, ModifyEnters,
                ModifyRefused, ModifyReturns, ModifyFails, ModifyLost, FlushEnds
  <2> QED BY <1>5, <2>1, Stays, StepGoes
<1>6. CASE ScopeEnds
  BY <1>6, StepGoes DEF ScopeEnds
<1>7. CASE ContinueEnters
  BY <1>7, StepGoes DEF ContinueEnters
<1>8. CASE ContinueAcknowledged
  BY <1>8, StepGoes DEF ContinueAcknowledged
<1>9. CASE ScopeCloses
  BY <1>9, StepGoes DEF ScopeCloses
<1>10. CASE ScopeEndFails \/ ContinueRefused
  BY <1>10, Stays DEF ScopeEndFails, ContinueRefused
<1>11. CASE ContinueLost
  BY <1>11 DEF ContinueLost, WorkerType
<1>12. CASE \E outcome \in {"value", "error"} : ResumeReturns(outcome)
  BY <1>12 DEF ResumeReturns, WorkerFreed, IdleWorker
<1> QED BY <1>1, <1>2, <1>3, <1>4, <1>5, <1>6, <1>7, <1>8, <1>9, <1>10, <1>11, <1>12
        DEF PlanStep, ReleaseStep

LEMMA PlanStepMoves == ASSUME Typed, PlanStep PROVE PlanMoves
<1>0. worker \in WorkerType
  BY DEF Typed, ArbiterTyped
<1>1. CASE ResumeAdmitsRoots
  BY <1>0, <1>1, StepGoes DEF ResumeAdmitsRoots, At, Planning, planFrame, PlanMoves, Goes
<1>2. CASE Rearmed
  BY <1>0, <1>2, StepGoes DEF Rearmed, RearmFrame, At, Planning, planFrame, PlanMoves, Goes
<1>3. CASE RearmFails
  BY <1>0, <1>3, RefusedMoves, UnknownGoes DEF RearmFails, RearmFrame, At, Planning, planFrame, PlanMoves
<1>4. CASE LedgerBegins
  BY <1>0, <1>4, StepGoes, FailsSettles DEF LedgerBegins, At, Planning, planFrame, PlanMoves, Goes
<1>5. CASE FlushStep
  <2>0. Planning /\ FlushFrame
    BY <1>5 DEF FlushStep, ExportEnters, ExportRaises, ExportReturns, ExportFails, ModifyEnters,
                ModifyRefused, ModifyReturns, ModifyFails, ModifyLost, FlushEnds, AtRoot, At, Planning
  <2>1. \/ UNCHANGED <<active, job, attempts>> /\ \E step \in {"export", "modify", "flush", "end"} :
              Goto(step) \/ EnterTransport(step)
        \/ Fails \/ Unknown \/ Refused
    BY <1>5 DEF FlushStep, ExportEnters, ExportRaises, ExportReturns, ExportFails, ModifyEnters,
                ModifyRefused, ModifyReturns, ModifyFails, ModifyLost, FlushEnds
  <2> QED BY <1>0, <2>0, <2>1, StepGoes, FailsSettles, UnknownGoes, RefusedMoves
          DEF FlushFrame, planFrame, PlanMoves, Goes
<1>6. CASE ReleaseStep
  <2>0. Planning /\ UNCHANGED <<publicVars, admission, rollback, queue, cell, version, boundVars>>
    BY <1>6 DEF ReleaseStep, ScopeEnds, ScopeEndFails, ContinueEnters, ContinueRefused,
                ContinueAcknowledged, ContinueLost, ScopeCloses, ResumeReturns, ReleaseFrame, At, Planning
  <2>1. CASE ScopeEnds \/ ContinueEnters \/ ContinueAcknowledged \/ ScopeCloses
    <3>1. /\ active' = active /\ job' = job
          /\ \E step \in {"continue", "acknowledge", "close", "await"} :
                Goto(step) \/ EnterTransport(step)
          /\ attempts' = attempts \/ \E s \in ContinueStates : ContinueState(s)
      BY <2>1 DEF ScopeEnds, ContinueEnters, ContinueAcknowledged, ScopeCloses, ContinueStates
    <3> QED BY <1>0, <2>0, <3>1, StepGoes DEF PlanMoves, Goes
  <2>2. CASE ContinueLost
    <3>1. /\ active' = active /\ job' = job /\ worker' = [worker EXCEPT !.phase = "unknown"]
          /\ \E s \in ContinueStates : ContinueState(s)
      BY <2>2 DEF ContinueLost, ContinueStates
    <3> QED BY <1>0, <2>0, <3>1 DEF PlanMoves, Goes, WorkerType
  <2>3. CASE ScopeEndFails \/ ContinueRefused
    BY <1>0, <2>0, <2>3, RefusedMoves, UnknownGoes DEF ScopeEndFails, ContinueRefused, PlanMoves
  <2>4. CASE \E outcome \in {"value", "error"} : ResumeReturns(outcome)
    BY <2>0, <2>4 DEF ResumeReturns, WorkerFreed, Planning, Settles, PlanMoves
  <2> QED BY <1>6, <2>1, <2>2, <2>3, <2>4 DEF ReleaseStep
<1> QED BY <1>1, <1>2, <1>3, <1>4, <1>5, <1>6 DEF PlanStep

LEMMA NoJobIsTyped == <<>> \in RootLists /\ NoJob.attempt = 0 /\ NoJob.roots = <<>>
                      /\ NoJob.points = NoPoints /\ NoJob = [attempt |-> 0, roots |-> <<>>, points |-> NoPoints]
BY DEF NoJob, RootLists

\* What the plan keeps of the attempts.
LEMMA PlanAttempts ==
    ASSUME Typed, PlanMoves
    PROVE  /\ AttemptsKept
           /\ \A b \in 1 .. Len(attempts) :
                 /\ SameEvidence(b)
                 /\ b # job.attempt => attempts'[b] = attempts[b]
           /\ Goes => \A b \in 1 .. Len(attempts) : attempts'[b].ticket = attempts[b].ticket
<1>0. attempts \in Seq(Attempts) /\ job.attempt \in 0 .. Len(attempts)
      /\ active = "resume"
  BY DEF Typed, AttemptsTyped, PlanMoves, Planning
<1>1. CASE attempts' = attempts
  BY <1>0, <1>1 DEF AttemptsKept, Kept, SameEvidence
<1>2. CASE \E s \in ContinueStates : ContinueState(s)
  BY <1>0, <1>2, ContinueStateFacts
<1>3. CASE Settles
  BY <1>0, <1>3, TicketOutcomeFacts DEF Settles, Outcomes, Goes
<1> QED BY <1>1, <1>2, <1>3 DEF PlanMoves

-----------------------------------------------------------------------------
(* The inductive invariant.                                                *)

Waiting(kind) == kind \in ToSet(queue)

\* A kind of ticket waits once; a restore belongs to the rollback that waits for it, a resume
\* and a cell exclude each other, and a cell that may still run is the active evaluation.
Mailbox ==
    /\ Distinct(queue)
    /\ Waiting("restore") => active # "restore" /\ rollback.restore = "waiting"
    /\ active = "restore" /\ worker.phase = "running" => rollback.restore = "waiting"
    /\ Waiting("resume") => active # "resume"
    /\ Waiting("cell") => ~ResumeInFlight /\ evaluating
    /\ active = "cell" /\ worker.phase = "unknown" => worker.step = "run"
    /\ active = "cell" /\ worker.step # "done" => ~Waiting("cell") /\ evaluating

\* The job is that of the resume in flight, whose attempt waits for it.
Jobs ==
    /\ ~ResumeInFlight => job = NoJob
    /\ job.attempt # 0 => attempts[job.attempt].ticket = "live"
    /\ active = "resume" /\ worker.step = "rearm" => job.points # NoPoints

\* While a rollback may end, its attempt is the admitted one, no other resume is made,
\* and what it restored stays.
Rolling ==
    /\ rollback.attempt = 0 <=> rollback.restore = "none"
    /\ rollback.attempt # 0 /\ admission = rollback.attempt =>
          /\ attempts[admission].consumed /\ ~ResumeInFlight
          /\ rollback.restore = "value" => registry = attempts[admission].original

\* The steps after the ledger began; those after the flush; those after Continue.
Releasing == {"end", "continue", "acknowledge", "close", "await"}
Flushing == {"flush", "export", "modify"} \cup Releasing
Continued == {"acknowledge", "close", "await"}

\* The ledger is that of the registered roots, and no cell runs beside it.
Ledgers ==
    /\ IF ledger.begun THEN ledger.roots = dirty ELSE ledger = NoLedger
    /\ active = "resume" /\ worker.step \in Flushing => ledger.begun
    /\ active = "cell" /\ worker.step = "run" =>
          ~ledger.begun /\ Named(cell) \subseteq Named(dirty)

\* What the phase of a root says of its variable.
BeforeSent == {"unattempted", "export_pending", "exported", "export_failed"}
PhaseHolds(r) ==
    LET phase == ledger.phase[r]
        v == Casefold[r]
    IN  /\ phase \in {"exported", "modify_sent"} => exported[v] = version[v]
        /\ phase = "succeeded" => written[v] = version[v]
        /\ phase \in BeforeSent => sent[v] = 0

Writes ==
    /\ \A i \in 1 .. Len(dirty) : PhaseHolds(dirty[i])
    /\ \A v \in Variables : sent[v] # 0 => sent[v] = 1 /\ ledger.begun /\ v \in Named(dirty)
    /\ \A v \in Variables : version[v] # written[v] => v \in Named(dirty)

\* Every root is written, from the end of the flush to Continue and ever after.
Flushed == ledger.begun /\ \A i \in 1 .. Len(dirty) : ledger.phase[dirty[i]] = "succeeded"
Continues ==
    /\ active = "resume" /\ worker.step \in Releasing => Flushed
    /\ active = "resume" /\ worker.step \in Continued => continues = <<job.attempt>>
    /\ continues # <<>> =>
          /\ Flushed /\ Len(continues) = 1 /\ main # "suspended_capture"
          /\ ~Waiting("resume") /\ (active = "resume" => worker.step \in Continued)
    /\ main \in {"unknown", "running"} => continues # <<>>
    /\ main = "lost" => context = "closed" /\ ~ResumeInFlight

\* The state of an attempt's Continue is behind the truth only while it is answered.
ContinueTold ==
    \A a \in 1 .. Len(attempts) :
        /\ attempts[a].continueState = "acknowledged" => a \in ToSet(continues)
        /\ a \in ToSet(continues) =>
              \/ attempts[a].continueState \in {"acknowledged", "outcome_unknown"}
              \/ Planning /\ worker.step = "acknowledge" /\ job.attempt = a

Inv == Typed /\ Mailbox /\ Jobs /\ Rolling /\ Ledgers /\ Writes /\ Continues /\ ContinueTold

-----------------------------------------------------------------------------
(* Every step keeps the types.                                             *)

LEMMA SetPhaseFacts ==
    ASSUME ScopeTyped, NEW p \in RootPhases, Unwritten # {}, SetPhase(p)
    PROVE  /\ ledger' \in LedgerType /\ ledger'.begun = ledger.begun
           /\ ledger'.roots = ledger.roots /\ ledger'.phase[NextRoot] = p
           /\ \A r \in Roots : r # NextRoot => ledger'.phase[r] = ledger.phase[r]
<1>1. NextRoot \in Roots /\ ledger \in LedgerType
  BY NextRootFacts DEF ScopeTyped
<1>2. ledger' = [ledger EXCEPT !.phase = [ledger.phase EXCEPT ![NextRoot] = p]]
  BY <1>1 DEF SetPhase, LedgerType
<1>3. [ledger.phase EXCEPT ![NextRoot] = p] \in [Roots -> RootPhases]
  BY <1>1 DEF LedgerType
<1> QED BY <1>1, <1>2, <1>3 DEF LedgerType

LEMMA NoLedgerIsTyped ==
    /\ NoLedger \in LedgerType /\ ~NoLedger.begun
    /\ NoLedger.phase \in [Roots -> RootPhases]
    /\ \A r \in Roots : NoLedger.phase[r] = "unattempted"
<1>1. <<>> \in Seq(Roots) /\ [r \in Roots |-> "unattempted"] \in [Roots -> RootPhases]
  BY DEF RootPhases
<1> QED BY <1>1 DEF NoLedger, LedgerType

LEMMA FlushTypes == ASSUME Typed, FlushStep PROVE ScopeTyped' /\ TruthTyped'
<1>0. ScopeTyped /\ TruthTyped
  BY DEF Typed
<1>1. UNCHANGED <<main, context, frame, dirty, version, cells, resumes>>
  BY DEF FlushStep, ExportEnters, ExportRaises, ExportReturns, ExportFails, ModifyEnters,
         ModifyRefused, ModifyReturns, ModifyFails, ModifyLost, FlushEnds, FlushFrame, planFrame
<1>2. ledger' = ledger \/ (Unwritten # {} /\ \E p \in RootPhases : SetPhase(p))
  BY DEF FlushStep, ExportEnters, ExportRaises, ExportReturns, ExportFails, ModifyEnters,
         ModifyRefused, ModifyReturns, ModifyFails, ModifyLost, FlushEnds, AtRoot, RootPhases
<1>3. ledger' \in LedgerType
  BY <1>0, <1>2, SetPhaseFacts DEF ScopeTyped
<1>4. ScopeTyped'
  BY <1>0, <1>1, <1>3 DEF ScopeTyped
<1>5. /\ exported' = exported \/ exported' = [exported EXCEPT ![NextVariable] = version[NextVariable]]
      /\ written' = written \/ written' = [written EXCEPT ![NextVariable] = exported[NextVariable]]
      /\ sent' = sent \/ sent' = [sent EXCEPT ![NextVariable] = @ + 1]
  BY DEF FlushStep, ExportEnters, ExportRaises, ExportReturns, ExportFails, ModifyEnters,
         ModifyRefused, ModifyReturns, ModifyFails, ModifyLost, FlushEnds
<1>6. exported' \in [Variables -> Nat]
  BY <1>0, <1>5 DEF TruthTyped
<1>7. written' \in [Variables -> Nat]
  BY <1>0, <1>5 DEF TruthTyped
<1>8. sent' \in [Variables -> Nat]
  BY <1>0, <1>5 DEF TruthTyped
<1> QED BY <1>0, <1>1, <1>4, <1>6, <1>7, <1>8 DEF TruthTyped

LEMMA PlanTypes == ASSUME Typed, Jobs, PlanStep PROVE Typed'
<1>0. ScopeTyped /\ ArbiterTyped /\ AttemptsTyped /\ TruthTyped /\ PlanMoves
  BY PlanStepMoves DEF Typed
<1>1. ScopeTyped' /\ TruthTyped'
  <2>1. CASE ResumeAdmitsRoots
    <3>1. UNCHANGED <<main, context, frame, ledger, version, exported, written, sent, cells, resumes>>
          /\ (dirty' = dirty \/ dirty' = Admit(dirty, job.roots))
      BY <2>1 DEF ResumeAdmitsRoots, planFrame
    <3>2. dirty' \in Seq(Roots) /\ OneSpelling(dirty')
      BY <1>0, <3>1, AdmitFacts DEF ScopeTyped, AttemptsTyped
    <3> QED BY <1>0, <3>1, <3>2 DEF ScopeTyped, TruthTyped
  <2>2. CASE Rearmed \/ RearmFails
    BY <1>0, <2>2 DEF Rearmed, RearmFails, RearmFrame, planFrame, ScopeTyped, TruthTyped
  <2>3. CASE LedgerBegins
    <3>1. /\ UNCHANGED <<main, context, frame, dirty, version, exported, written, sent, cells, resumes>>
          /\ ledger' = ledger \/ ledger' = [begun |-> TRUE, roots |-> dirty, phase |-> NoLedger.phase]
      BY <2>3 DEF LedgerBegins, planFrame
    <3>2. ledger' \in LedgerType
      <4>1. \A p \in [Roots -> RootPhases] :
               [begun |-> TRUE, roots |-> dirty, phase |-> p] \in LedgerType
        BY <1>0 DEF ScopeTyped, LedgerType
      <4> QED BY <1>0, <3>1, <4>1, NoLedgerIsTyped DEF ScopeTyped
    <3> QED BY <1>0, <3>1, <3>2 DEF ScopeTyped, TruthTyped
  <2>4. CASE FlushStep
    BY <2>4, FlushTypes
  <2>5. CASE ReleaseStep
    <3>1. UNCHANGED <<dirty, ledger, version, exported, written, sent, cells, resumes>>
      BY <2>5 DEF ReleaseStep, ScopeEnds, ScopeEndFails, ContinueEnters, ContinueRefused,
                  ContinueAcknowledged, ContinueLost, ScopeCloses, ResumeReturns, ReleaseFrame
    <3>2. /\ main' = main \/ main' \in {"unknown", "running"}
          /\ context' = context \/ context' \in {"closing", "closed"}
          /\ frame' = frame \/ frame' \in {"unverified", "released"}
      BY <2>5 DEF ReleaseStep, ScopeEnds, ScopeEndFails, ContinueEnters, ContinueRefused,
                  ContinueAcknowledged, ContinueLost, ScopeCloses, ResumeReturns
    <3> QED BY <1>0, <3>1, <3>2 DEF ScopeTyped, TruthTyped
  <2> QED BY <2>1, <2>2, <2>3, <2>4, <2>5 DEF PlanStep
<1>2. ArbiterTyped'
  <2>1. registry' \in PointSets
    <3>1. registry' = registry \/ (registry' = job.points /\ active = "resume" /\ worker.step = "rearm")
      BY DEF PlanStep, ResumeAdmitsRoots, Rearmed, RearmFails, RearmFrame, LedgerBegins, FlushStep,
             ExportEnters, ExportRaises, ExportReturns, ExportFails, ModifyEnters, ModifyRefused,
             ModifyReturns, ModifyFails, ModifyLost, FlushEnds, FlushFrame, ReleaseStep, ScopeEnds,
             ScopeEndFails, ContinueEnters, ContinueRefused, ContinueAcknowledged, ContinueLost,
             ScopeCloses, ResumeReturns, ReleaseFrame, At
    <3> QED BY <1>0, <3>1 DEF Jobs, ArbiterTyped, AttemptsTyped
  <2>2. active' \in {"none", "cell", "resume", "restore"} /\ worker' \in WorkerType
    BY <1>0, IdleIsWorker DEF PlanMoves, Goes, Settles, ArbiterTyped
  <2> QED BY <1>0, <2>1, <2>2 DEF PlanMoves, ArbiterTyped
<1>3. AttemptsTyped'
  <2>1. AttemptsKept
    BY <1>0, PlanAttempts DEF Typed
  <2>2. continues' = continues \/ continues' = Append(continues, job.attempt)
    BY DEF PlanStep, ResumeAdmitsRoots, Rearmed, RearmFails, RearmFrame, LedgerBegins, FlushStep,
           ExportEnters, ExportRaises, ExportReturns, ExportFails, ModifyEnters, ModifyRefused,
           ModifyReturns, ModifyFails, ModifyLost, FlushEnds, FlushFrame, ReleaseStep, ScopeEnds,
           ScopeEndFails, ContinueEnters, ContinueRefused, ContinueAcknowledged, ContinueLost,
           ScopeCloses, ResumeReturns
  <2>3. /\ job' \in [attempt : 0 .. Len(attempts), roots : RootLists, points : PointSets \cup {NoPoints}]
        /\ admission' = admission /\ rollback' = rollback
    <3>1. NoJob \in [attempt : 0 .. Len(attempts), roots : RootLists, points : PointSets \cup {NoPoints}]
      BY <2>1, NoJobIsTyped DEF AttemptsKept
    <3>2. job' = job \/ job' = NoJob
      BY <1>0 DEF PlanMoves, Goes, Settles
    <3> QED BY <1>0, <3>1, <3>2 DEF PlanMoves, AttemptsTyped
  <2>4. continues' \in Seq(0 .. Len(attempts))
    <3> DEFINE S == 0 .. Len(attempts)
    <3>1. continues \in Seq(S) /\ job.attempt \in S
      BY <1>0 DEF AttemptsTyped
    <3> HIDE DEF S
    <3>2. continues' \in Seq(S)
      BY <2>2, <3>1
    <3> QED BY <3>2 DEF S
  <2> QED BY <1>0, <2>1, <2>3, <2>4 DEF AttemptsTyped, AttemptsKept
<1> QED BY <1>1, <1>2, <1>3 DEF Typed

\* The evidence that is frozen is evidence.
LEMMA RootStatusesFacts ==
    ASSUME Typed, NEW a \in 1 .. Len(attempts)
    PROVE  RootStatuses(a) \in Evidences
<1>0. attempts[a] \in Attempts /\ ledger.phase \in [Roots -> RootPhases]
  BY DEF Typed, AttemptsTyped, ScopeTyped, LedgerType
<1>1. CASE attempts[a].frozen # <<>>
  <2>1. attempts[a].frozen \in {<<>>} \cup {<<f>> : f \in Evidences}
    BY <1>0 DEF Attempts
  <2>2. PICK f \in Evidences : attempts[a].frozen = <<f>>
    BY <1>1, <2>1
  <2> QED BY <1>1, <2>2 DEF RootStatuses
<1>2. CASE attempts[a].frozen = <<>>
  <2> DEFINE S == ToSet(attempts[a].roots)
  <2>1. S \in SUBSET Roots
    BY <1>0, ListFacts, NamedIs DEF Attempts
  <2>2. \A p \in RootPhases : Status(p) \in Statuses
    BY DEF RootPhases, Status, Statuses
  <2> HIDE DEF S
  <2>3. [r \in S |-> Status(ledger.phase[r])] \in [S -> Statuses]
    BY <1>0, <2>1, <2>2
  <2>4. RootStatuses(a) = [r \in S |-> Status(ledger.phase[r])]
    BY <1>2 DEF RootStatuses, S
  <2> QED BY <2>1, <2>3, <2>4 DEF Evidences
<1> QED BY <1>1, <1>2

\* Closing an attempt, freezing its evidence, or both.
Closes(a) ==
    /\ attempts'[a].consumed = attempts[a].consumed
    /\ attempts'[a].continueState = attempts[a].continueState
    /\ attempts'[a].ticket = attempts[a].ticket
    /\ attempts'[a].frozen \in {attempts[a].frozen, <<RootStatuses(a)>>}
CloseStep == Commit \/ Quarantine \/ RollbackUnused \/ RollbackEnds

LEMMA CloseFacts ==
    ASSUME Typed, Rolling, CloseStep
    PROVE  /\ admission \in 1 .. Len(attempts) /\ AttemptsKept /\ Closes(admission)
           /\ \A b \in 1 .. Len(attempts) : b # admission => attempts'[b] = attempts[b]
           /\ admission' \in {0, admission}
           /\ rollback' \in {rollback, NoRollback} /\ job' = job /\ continues' = continues
           /\ RollbackEnds \/ ledger' = ledger
           /\ Commit \/ RollbackEnds => attempts'[admission].frozen = <<RootStatuses(admission)>>
<1>0. /\ attempts \in Seq(Attempts) /\ admission \in 0 .. Len(attempts) /\ Len(attempts) \in Nat
      /\ rollback \in [attempt : 0 .. Len(attempts),
                       restore : {"none", "waiting", "value", "error", "unknown"}]
  BY DEF Typed, AttemptsTyped
<1>1. /\ admission' \in {0, admission} /\ job' = job /\ continues' = continues
      /\ rollback' \in {rollback, NoRollback} /\ (RollbackEnds \/ ledger' = ledger)
  BY DEF CloseStep, Commit, Quarantine, RollbackUnused, RollbackEnds
<1>2. admission \in 1 .. Len(attempts)
  <2>1. admission # 0 \/ (rollback.restore = "value" /\ admission = rollback.attempt)
    BY DEF CloseStep, Commit, Quarantine, RollbackUnused, RollbackEnds
  <2>2. rollback.restore = "value" => rollback.attempt # 0
    BY DEF Rolling
  <2> QED BY <1>0, <2>1, <2>2
<1> DEFINE old == attempts[admission]
           told == <<RootStatuses(admission)>>
           new == [old EXCEPT !.closed = TRUE]
           both == [old EXCEPT !.closed = TRUE, !.frozen = told]
           kept == [old EXCEPT !.frozen = told]
<1>3. old \in Attempts
  BY <1>0, <1>2
<1>4. told \in Frozen
  BY <1>2, RootStatusesFacts DEF Frozen
<1>5. \/ attempts' = [attempts EXCEPT ![admission] = new] /\ ~Commit /\ ~RollbackEnds
      \/ attempts' = [attempts EXCEPT ![admission] = both]
      \/ attempts' = [attempts EXCEPT ![admission] = kept]
  BY DEF CloseStep, Commit, Quarantine, RollbackUnused, RollbackEnds, Update, NoRollback
<1> HIDE DEF told
<1>6. \A x \in {new, both, kept} :
         /\ x \in Attempts /\ x.roots = old.roots /\ x.points = old.points
         /\ x.original = old.original /\ x.consumed = old.consumed
         /\ x.continueState = old.continueState /\ x.ticket = old.ticket
         /\ x.frozen \in {old.frozen, told}
  BY <1>3, <1>4 DEF Attempts, Frozen
<1>7. both.frozen = told /\ kept.frozen = told
  BY <1>3 DEF Attempts
<1> HIDE DEF new, both, kept
<1>8. ASSUME NEW x \in {new, both, kept}, attempts' = [attempts EXCEPT ![admission] = x]
      PROVE  /\ AttemptsKept /\ Closes(admission)
             /\ \A b \in 1 .. Len(attempts) : b # admission => attempts'[b] = attempts[b]
             /\ attempts'[admission] = x
  <2>1. /\ x \in Attempts /\ x.roots = old.roots /\ x.points = old.points
        /\ x.original = old.original /\ x.consumed = old.consumed
        /\ x.continueState = old.continueState /\ x.ticket = old.ticket
        /\ x.frozen \in {old.frozen, told}
    BY <1>6, <1>8
  <2>2. /\ attempts' \in Seq(Attempts) /\ Len(attempts') = Len(attempts)
        /\ \A b \in 1 .. Len(attempts) : b # admission => attempts'[b] = attempts[b]
        /\ attempts'[admission] = x
    BY <1>0, <1>2, <1>8, <2>1, ExceptAttempt
  <2>3. AttemptsKept
    BY <1>0, <1>2, <2>1, <2>2 DEF AttemptsKept, Kept
  <2>4. Closes(admission)
    BY <2>1, <2>2 DEF Closes, told
  <2> QED BY <2>2, <2>3, <2>4
<1>9. AttemptsKept /\ Closes(admission)
      /\ \A b \in 1 .. Len(attempts) : b # admission => attempts'[b] = attempts[b]
  BY <1>5, <1>8
<1>10. Commit \/ RollbackEnds => attempts'[admission].frozen = <<RootStatuses(admission)>>
  <2>1. CASE Commit \/ RollbackEnds
    <3>1. attempts'[admission] = both \/ attempts'[admission] = kept
      BY <1>5, <1>8, <2>1
    <3> QED BY <1>7, <3>1 DEF told
  <2> QED BY <2>1
<1> QED BY <1>1, <1>2, <1>9, <1>10

\* A new attempt.
LEMMA BeginFacts ==
    ASSUME Typed, NEW roots \in RootLists, NEW points \in PointSets, BeginAdmission(roots, points)
    PROVE  /\ attempts' \in Seq(Attempts) /\ Len(attempts) \in Nat
           /\ Len(attempts') = Len(attempts) + 1 /\ admission' = Len(attempts')
           /\ \A b \in 1 .. Len(attempts) : attempts'[b] = attempts[b]
           /\ attempts'[admission'].continueState = "unattempted"
<1> DEFINE new == [roots |-> roots, points |-> points, original |-> registry,
                   consumed |-> FALSE, closed |-> FALSE, continueState |-> "unattempted",
                   ticket |-> "none", frozen |-> <<>>]
<1>1. new \in Attempts /\ new.continueState = "unattempted"
  BY DEF Typed, ArbiterTyped, Attempts
<1>2. attempts' = Append(attempts, new) /\ admission' = Len(attempts) + 1
  BY DEF BeginAdmission
<1>3. attempts \in Seq(Attempts)
  BY DEF Typed, AttemptsTyped
<1> HIDE DEF new
<1> QED BY <1>1, <1>2, <1>3

\* The attempt that a resume consumes.
LEMMA ResumeAttemptFacts ==
    ASSUME Typed, ResumeAttempt
    PROVE  /\ admission \in 1 .. Len(attempts) /\ AttemptsKept
           /\ attempts'[admission].ticket = "live"
           /\ attempts'[admission].continueState = attempts[admission].continueState
           /\ attempts'[admission].frozen = attempts[admission].frozen
           /\ \A b \in 1 .. Len(attempts) : b # admission => attempts'[b] = attempts[b]
           /\ Resume(admission, attempts[admission].roots, attempts[admission].points)
           /\ attempts[admission].roots \in RootLists /\ attempts[admission].points \in PointSets
<1>0. /\ attempts \in Seq(Attempts) /\ Len(attempts) \in Nat /\ admission \in 1 .. Len(attempts)
  BY DEF Typed, AttemptsTyped, ResumeAttempt
<1> DEFINE old == attempts[admission]
           new == [old EXCEPT !.consumed = TRUE, !.ticket = "live"]
<1>1. old \in Attempts
  BY <1>0
<1>2. /\ new \in Attempts /\ new.roots = old.roots /\ new.points = old.points
      /\ new.original = old.original /\ new.consumed = TRUE /\ new.ticket = "live"
      /\ new.continueState = old.continueState /\ new.frozen = old.frozen
      /\ old.roots \in RootLists /\ old.points \in PointSets
  BY <1>1 DEF Attempts
<1>3. attempts' = [attempts EXCEPT ![admission] = new]
  BY DEF ResumeAttempt
<1> HIDE DEF new
<1>4. /\ attempts' \in Seq(Attempts) /\ Len(attempts') = Len(attempts)
      /\ \A b \in 1 .. Len(attempts) : b # admission => attempts'[b] = attempts[b]
      /\ attempts'[admission] = new
  BY <1>0, <1>2, <1>3, ExceptAttempt
<1>5. AttemptsKept
  BY <1>0, <1>2, <1>4 DEF AttemptsKept, Kept
<1>6. Resume(admission, old.roots, old.points)
  BY DEF ResumeAttempt
<1> QED BY <1>0, <1>2, <1>4, <1>5, <1>6

\* A step that leaves the attempts and the jobs alone.
LEMMA SameAttempts ==
    ASSUME AttemptsTyped, UNCHANGED <<admission, attempts, job, continues>>,
           rollback' \in [attempt : 0 .. Len(attempts),
                          restore : {"none", "waiting", "value", "error", "unknown"}]
    PROVE  AttemptsTyped'
BY DEF AttemptsTyped

\* A step that keeps the attempts in place.
LEMMA KeptAttempts ==
    ASSUME AttemptsTyped, AttemptsKept, admission' \in {0, admission},
           rollback' \in {rollback, NoRollback}, continues' = continues,
           \/ job' = job \/ job' = NoJob
           \/ \E a \in 0 .. Len(attempts), roots \in RootLists, points \in PointSets \cup {NoPoints} :
                 job' = [attempt |-> a, roots |-> roots, points |-> points]
    PROVE  AttemptsTyped'
<1>1. job' \in [attempt : 0 .. Len(attempts), roots : RootLists, points : PointSets \cup {NoPoints}]
  <2>1. NoJob \in [attempt : 0 .. Len(attempts), roots : RootLists, points : PointSets \cup {NoPoints}]
    BY NoJobIsTyped DEF AttemptsKept
  <2> QED BY <2>1 DEF AttemptsTyped
<1>2. admission' \in 0 .. Len(attempts)
  BY DEF AttemptsTyped, AttemptsKept
<1>3. rollback' \in [attempt : 0 .. Len(attempts),
                     restore : {"none", "waiting", "value", "error", "unknown"}]
  BY DEF AttemptsTyped, AttemptsKept, NoRollback
<1> QED BY <1>1, <1>2, <1>3 DEF AttemptsTyped, AttemptsKept

LEMMA CellTypes == ASSUME Typed, CellStep PROVE Typed'
<1>0. ScopeTyped /\ ArbiterTyped /\ AttemptsTyped /\ TruthTyped
  BY DEF Typed
<1>1. CASE \E roots \in RootLists : SubmitCell(roots)
  <2>1. PICK roots \in RootLists : SubmitCell(roots)
    BY <1>1
  <2>2. UNCHANGED <<main, scopeVars, resuming, registry, admissionVars, active, worker, job, truthVars, resumes>>
        /\ evaluating' = TRUE /\ queue' = Append(queue, "cell") /\ cell' = roots
        /\ cells < MaxCells /\ cells' = cells + 1
    BY <2>1 DEF SubmitCell
  <2>3. queue' \in Seq({"cell", "resume", "restore"})
    BY <1>0, <2>2 DEF ArbiterTyped
  <2>4. ArbiterTyped'
    BY <1>0, <2>1, <2>2, <2>3 DEF ArbiterTyped
  <2>5. cells' \in 0 .. MaxCells
    BY <1>0, <2>2, BoundsAssumption DEF TruthTyped
  <2>6. ScopeTyped'
    BY <1>0, <2>2, <2>4, <2>5 DEF ScopeTyped
  <2>7. AttemptsTyped'
    BY <1>0, <2>2, <2>4, <2>5 DEF AttemptsTyped
  <2>8. TruthTyped'
    BY <1>0, <2>2, <2>4, <2>5 DEF TruthTyped
  <2> QED BY <2>4, <2>6, <2>7, <2>8 DEF Typed
<1>2. CASE CellAdmitsRoots
  <2>1. /\ dirty' = Admit(dirty, cell) /\ worker' = [worker EXCEPT !.step = "run"]
        /\ UNCHANGED <<main, context, frame, ledger, publicVars, registry, admissionVars, queue,
                       active, ticketVars, truthVars, boundVars>>
    BY <1>2 DEF CellAdmitsRoots
  <2>2. dirty' \in Seq(Roots) /\ OneSpelling(dirty')
    BY <1>0, <2>1, AdmitFacts DEF ScopeTyped, ArbiterTyped
  <2>3. worker' \in WorkerType
    BY <1>0, <2>1 DEF ArbiterTyped, WorkerType
  <2>4. ScopeTyped'
    BY <1>0, <2>1, <2>2, <2>3 DEF ScopeTyped
  <2>5. ArbiterTyped'
    BY <1>0, <2>1, <2>2, <2>3 DEF ArbiterTyped
  <2>6. AttemptsTyped'
    BY <1>0, <2>1, <2>2, <2>3 DEF AttemptsTyped
  <2>7. TruthTyped'
    BY <1>0, <2>1, <2>2, <2>3 DEF TruthTyped
  <2> QED BY <2>4, <2>5, <2>6, <2>7 DEF Typed
<1>3. CASE \E changed \in SUBSET Named(cell) : CellRuns(changed)
  <2>1. PICK changed : CellRuns(changed)
    BY <1>3
  <2>2. /\ version' = [v \in Variables |-> IF v \in changed THEN version[v] + 1 ELSE version[v]]
        /\ UNCHANGED <<main, scopeVars, resuming, registry, admissionVars, queue, active,
                       ticketVars, exported, written, sent, continues, boundVars>>
        /\ evaluating' \in {evaluating, FALSE}
        /\ \/ worker' = [worker EXCEPT !.step = "done", !.ever = TRUE]
           \/ worker' = [worker EXCEPT !.phase = "unknown", !.ever = TRUE]
    BY <2>1 DEF CellRuns
  <2>3. version' \in [Variables -> Nat]
    BY <1>0, <2>2 DEF TruthTyped
  <2>4. worker' \in WorkerType
    BY <1>0, <2>2 DEF ArbiterTyped, WorkerType
  <2>5. ArbiterTyped'
    BY <1>0, <2>2, <2>4 DEF ArbiterTyped
  <2>6. TruthTyped'
    BY <1>0, <2>2, <2>3 DEF TruthTyped
  <2>7. ScopeTyped'
    BY <1>0, <2>2, <2>5, <2>6 DEF ScopeTyped
  <2>8. AttemptsTyped'
    BY <1>0, <2>2, <2>5, <2>6 DEF AttemptsTyped
  <2> QED BY <2>5, <2>6, <2>7, <2>8 DEF Typed
<1>4. CASE CellRefused \/ CellReconciled \/ ObserveCellSettled
  <2>1. /\ UNCHANGED <<main, scopeVars, resuming, registry, admissionVars, queue, active,
                       ticketVars, truthVars, boundVars>>
        /\ evaluating' = FALSE
        /\ \/ worker' = worker \/ worker' = [worker EXCEPT !.step = "done"]
           \/ worker' = [worker EXCEPT !.phase = "running", !.step = "done"]
    BY <1>4 DEF CellRefused, CellReconciled, ObserveCellSettled
  <2>2. worker' \in WorkerType
    BY <1>0, <2>1 DEF ArbiterTyped, WorkerType
  <2>3. ScopeTyped'
    BY <1>0, <2>1, <2>2 DEF ScopeTyped
  <2>4. ArbiterTyped'
    BY <1>0, <2>1, <2>2 DEF ArbiterTyped
  <2>5. AttemptsTyped'
    BY <1>0, <2>1, <2>2 DEF AttemptsTyped
  <2>6. TruthTyped'
    BY <1>0, <2>1, <2>2 DEF TruthTyped
  <2> QED BY <2>3, <2>4, <2>5, <2>6 DEF Typed
<1>5. CASE CellDropped \/ CellSettles
  <2>1. /\ UNCHANGED <<main, scopeVars, publicVars, registry, admissionVars, queue, truthVars, boundVars>>
        /\ active' = "none" /\ worker' = IdleWorker /\ job' = job /\ cell' \in {<<>>, cell}
    BY <1>5 DEF CellDropped, CellSettles, WorkerFreed
  <2>2. ScopeTyped'
    BY <1>0, <2>1, NoJobIsTyped, IdleIsWorker DEF ScopeTyped
  <2>3. ArbiterTyped'
    BY <1>0, <2>1, NoJobIsTyped, IdleIsWorker DEF ArbiterTyped
  <2>4. AttemptsTyped'
    BY <1>0, <2>1, NoJobIsTyped, IdleIsWorker DEF AttemptsTyped
  <2>5. TruthTyped'
    BY <1>0, <2>1, NoJobIsTyped, IdleIsWorker DEF TruthTyped
  <2> QED BY <2>2, <2>3, <2>4, <2>5 DEF Typed
<1> QED BY <1>1, <1>2, <1>3, <1>4, <1>5 DEF CellStep

LEMMA AttemptTypes == ASSUME Typed, Mailbox, Rolling, AttemptStep PROVE Typed'
<1>0. ScopeTyped /\ ArbiterTyped /\ AttemptsTyped /\ TruthTyped
  BY DEF Typed
<1>1. CASE \E roots \in RootLists, points \in PointSets : BeginAdmission(roots, points)
  <2>1. PICK roots \in RootLists, points \in PointSets : BeginAdmission(roots, points)
    BY <1>1
  <2>2. UNCHANGED <<main, scopeVars, publicVars, registry, rollback, queue, active, worker,
                    ticketVars, truthVars, boundVars>>
    BY <2>1 DEF BeginAdmission
  <2>3. /\ attempts' \in Seq(Attempts) /\ Len(attempts) \in Nat
        /\ Len(attempts') = Len(attempts) + 1 /\ admission' = Len(attempts')
    BY <2>1, BeginFacts
  <2>4. 0 .. Len(attempts) \subseteq 0 .. Len(attempts') /\ Len(attempts') \in 0 .. Len(attempts')
    BY <2>3
  <2>5. continues \in Seq(0 .. Len(attempts'))
    <3> DEFINE S == 0 .. Len(attempts)
               T == 0 .. Len(attempts')
    <3>1. continues \in Seq(S) /\ S \subseteq T
      BY <1>0, <2>4 DEF AttemptsTyped
    <3> HIDE DEF S, T
    <3>2. continues \in Seq(T)
      BY <3>1
    <3> QED BY <3>2 DEF T
  <2>6. AttemptsTyped'
    BY <1>0, <2>2, <2>3, <2>4, <2>5 DEF AttemptsTyped
  <2>7. ScopeTyped'
    BY <1>0, <2>2, <2>6 DEF ScopeTyped
  <2>8. ArbiterTyped'
    BY <1>0, <2>2, <2>6 DEF ArbiterTyped
  <2>9. TruthTyped'
    BY <1>0, <2>2, <2>6 DEF TruthTyped
  <2> QED BY <2>6, <2>7, <2>8, <2>9 DEF Typed
<1>2. CASE CloseStep
  <2>1. /\ UNCHANGED <<main, context, frame, dirty, evaluating, registry, queue, active, worker,
                       ticketVars, truthVars, boundVars>>
        /\ ledger' \in {ledger, NoLedger} /\ resuming' \in {resuming, FALSE}
    BY <1>2 DEF CloseStep, Commit, Quarantine, RollbackUnused, RollbackEnds
  <2>2. AttemptsTyped'
    BY <1>0, <1>2, <2>1, CloseFacts, KeptAttempts
  <2>3. ScopeTyped'
    BY <1>0, <2>1, NoLedgerIsTyped DEF ScopeTyped
  <2>4. ArbiterTyped'
    BY <1>0, <2>1, <2>2, <2>3 DEF ArbiterTyped
  <2>5. TruthTyped'
    BY <1>0, <2>1, <2>2, <2>3 DEF TruthTyped
  <2> QED BY <2>2, <2>3, <2>4, <2>5 DEF Typed
<1>3. CASE RollbackBegins
  <2>1. /\ UNCHANGED <<main, scopeVars, publicVars, registry, admission, attempts, active,
                       worker, ticketVars, truthVars, boundVars>>
        /\ queue' \in {queue, Append(queue, "restore")}
        /\ \E restore \in {"waiting", "value"} : rollback' = [attempt |-> admission, restore |-> restore]
    BY <1>3 DEF RollbackBegins
  <2>2. queue' \in Seq({"cell", "resume", "restore"})
    BY <1>0, <2>1 DEF ArbiterTyped
  <2>3. AttemptsTyped'
    BY <1>0, <2>1 DEF AttemptsTyped
  <2>4. ScopeTyped'
    BY <1>0, <2>1, <2>2, <2>3 DEF ScopeTyped
  <2>5. ArbiterTyped'
    BY <1>0, <2>1, <2>2, <2>3 DEF ArbiterTyped
  <2>6. TruthTyped'
    BY <1>0, <2>1, <2>2, <2>3 DEF TruthTyped
  <2> QED BY <2>3, <2>4, <2>5, <2>6 DEF Typed
<1>4. CASE RollbackRaises
  <2>1. /\ UNCHANGED <<main, scopeVars, publicVars, registry, admission, attempts, queue, active,
                       worker, ticketVars, truthVars, boundVars>>
        /\ rollback' = NoRollback
    BY <1>4 DEF RollbackRaises
  <2>2. AttemptsTyped'
    BY <1>0, <2>1 DEF AttemptsTyped, NoRollback
  <2>3. ScopeTyped'
    BY <1>0, <2>1, <2>2 DEF ScopeTyped
  <2>4. ArbiterTyped'
    BY <1>0, <2>1, <2>2 DEF ArbiterTyped
  <2>5. TruthTyped'
    BY <1>0, <2>1, <2>2 DEF TruthTyped
  <2> QED BY <2>2, <2>3, <2>4, <2>5 DEF Typed
<1>5. CASE RestoreInstalled \/ RestoreDropped \/ RestoreLost
  <2>1. /\ UNCHANGED <<main, scopeVars, publicVars, admission, attempts, queue, truthVars, boundVars>>
        /\ active' \in {"none", active} /\ job' = job /\ cell' = cell
        /\ worker' = IdleWorker \/ worker' = [worker EXCEPT !.phase = "unknown", !.ever = TRUE]
        /\ \E r \in {"value", "error", "unknown"} : rollback' = [rollback EXCEPT !.restore = r]
        /\ registry' \in {registry, attempts[rollback.attempt].original}
        /\ active = "restore" /\ worker.phase = "running"
    BY <1>5 DEF RestoreInstalled, RestoreDropped, RestoreLost, RestoreRunning, WorkerFreed
  <2>2. attempts[rollback.attempt].original \in PointSets
    <3>1. rollback.attempt \in 1 .. Len(attempts)
      BY <1>0, <2>1 DEF Mailbox, Rolling, AttemptsTyped
    <3>2. attempts[rollback.attempt] \in Attempts
      BY <1>0, <3>1 DEF AttemptsTyped
    <3> QED BY <3>2 DEF Attempts
  <2>3. worker' \in WorkerType
    BY <1>0, <2>1, IdleIsWorker DEF ArbiterTyped, WorkerType
  <2>4. AttemptsTyped'
    BY <1>0, <2>1 DEF AttemptsTyped
  <2>5. ScopeTyped'
    BY <1>0, <2>1, <2>2, <2>3, <2>4 DEF ScopeTyped
  <2>6. ArbiterTyped'
    BY <1>0, <2>1, <2>2, <2>3, <2>4 DEF ArbiterTyped
  <2>7. TruthTyped'
    BY <1>0, <2>1, <2>2, <2>3, <2>4 DEF TruthTyped
  <2> QED BY <2>4, <2>5, <2>6, <2>7 DEF Typed
<1> QED BY <1>1, <1>2, <1>3, <1>4, <1>5 DEF AttemptStep, CloseStep

LEMMA ResumeTypes ==
    ASSUME Typed, NEW a \in 0 .. Len(attempts), NEW roots \in RootLists,
           NEW points \in PointSets \cup {NoPoints}, Resume(a, roots, points),
           admission' = admission, AttemptsKept
    PROVE  Typed'
<1>0. ScopeTyped /\ ArbiterTyped /\ AttemptsTyped /\ TruthTyped
  BY DEF Typed
<1>1. /\ UNCHANGED <<main, scopeVars, evaluating, registry, rollback, active, worker, cell,
                     truthVars, cells>>
      /\ resuming' = TRUE /\ queue' = Append(queue, "resume") /\ resumes < MaxResumes
      /\ resumes' = resumes + 1 /\ job' = [attempt |-> a, roots |-> roots, points |-> points]
  BY DEF Resume
<1>2. queue' \in Seq({"cell", "resume", "restore"})
  BY <1>0, <1>1 DEF ArbiterTyped
<1>3. AttemptsTyped'
  BY <1>0, <1>1, KeptAttempts
<1>4. resumes' \in 0 .. MaxResumes
  BY <1>0, <1>1, BoundsAssumption DEF TruthTyped
<1>5. ScopeTyped'
  BY <1>0, <1>1, <1>2, <1>3, <1>4 DEF ScopeTyped
<1>6. ArbiterTyped'
  BY <1>0, <1>1, <1>2, <1>3, <1>4 DEF ArbiterTyped
<1>7. TruthTyped'
  BY <1>0, <1>1, <1>2, <1>3, <1>4 DEF TruthTyped
<1> QED BY <1>3, <1>5, <1>6, <1>7 DEF Typed

\* A resume is submitted for the admitted attempt, or for none.
SubmitStep ==
    \/ \E roots \in RootLists, points \in PointSets \cup {NoPoints} : ResumeDirectly(roots, points)
    \/ ResumeAttempt

\* What both submissions share.
LEMMA SubmitFacts ==
    ASSUME Typed, SubmitStep
    PROVE  \E a \in 0 .. Len(attempts), roots \in RootLists, points \in PointSets \cup {NoPoints} :
              /\ Resume(a, roots, points) /\ a = admission /\ AttemptsKept /\ admission' = admission
              /\ \A b \in 1 .. Len(attempts) : b # a => attempts'[b] = attempts[b]
              /\ a # 0 => /\ attempts'[a].ticket = "live"
                          /\ attempts'[a].continueState = attempts[a].continueState
                          /\ attempts'[a].frozen = attempts[a].frozen /\ ~attempts[a].consumed
<1>0. admission \in 0 .. Len(attempts) /\ attempts \in Seq(Attempts) /\ Len(attempts) \in Nat
      /\ \A b \in 1 .. Len(attempts) : attempts[b] \in Attempts
  BY DEF Typed, AttemptsTyped
<1>1. ASSUME NEW roots \in RootLists, NEW points \in PointSets \cup {NoPoints}, ResumeDirectly(roots, points)
      PROVE  Resume(0, roots, points) /\ admission = 0 /\ AttemptsKept /\ admission' = admission
             /\ attempts' = attempts
  BY <1>0, <1>1 DEF ResumeDirectly, AttemptsKept, Kept
<1>2. CASE ResumeAttempt
  <2>1. admission' = admission /\ ~attempts[admission].consumed
    BY <1>2 DEF ResumeAttempt
  <2> QED BY <1>2, <2>1, ResumeAttemptFacts
<1>3. CASE \E roots \in RootLists, points \in PointSets \cup {NoPoints} : ResumeDirectly(roots, points)
  BY <1>0, <1>1, <1>3
<1> QED BY <1>2, <1>3 DEF SubmitStep

LEMMA SubmitTypes == ASSUME Typed, SubmitStep PROVE Typed'
BY SubmitFacts, ResumeTypes

LEMMA HeadFacts ==
    ASSUME NEW S, NEW q \in Seq(S), q # <<>>
    PROVE  Head(q) \in S /\ Tail(q) \in Seq(S)
BY HeadTailProperties

\* What a step of the arbiter does to the attempts.
LEMMA CancelFacts ==
    ASSUME Typed, StopQueued("cell") \/ StopQueued("resume") \/ StopActive \/ TargetLost
    PROVE  \E a \in {0, job.attempt} :
              /\ a \in 0 .. Len(attempts) /\ TicketOutcome(a, "error") /\ AttemptsKept
              /\ a = 0 => attempts' = attempts
<1>1. job.attempt \in 0 .. Len(attempts) /\ Len(attempts) \in Nat /\ attempts \in Seq(Attempts)
  BY DEF Typed, AttemptsTyped
<1>2. PICK a \in {0, job.attempt} : TicketOutcome(a, "error")
  BY Zenon DEF StopQueued, StopActive, TargetLost, Cancelled
<1>3. a \in 0 .. Len(attempts) /\ "error" \in Outcomes
  BY <1>1 DEF Outcomes
<1>4. AttemptsKept
  BY <1>1, <1>2, <1>3, TicketOutcomeFacts
<1>5. a = 0 => attempts' = attempts
  BY <1>2 DEF TicketOutcome
<1> QED BY <1>2, <1>3, <1>4, <1>5

LEMMA ArbiterTypes == ASSUME Typed, ArbiterStep PROVE Typed'
<1>0. ScopeTyped /\ ArbiterTyped /\ AttemptsTyped /\ TruthTyped
  BY DEF Typed
<1>1. CASE TakeTicket
  <2>1. Head(queue) \in {"cell", "resume", "restore"} /\ Tail(queue) \in Seq({"cell", "resume", "restore"})
    BY <1>0, <1>1, HeadFacts DEF TakeTicket, ArbiterTyped
  <2>2. worker' \in WorkerType
    BY <1>1 DEF TakeTicket, IdleWorker, WorkerType
  <2>3. ScopeTyped'
    BY <1>0, <1>1, <2>1, <2>2 DEF TakeTicket, ScopeTyped
  <2>4. ArbiterTyped'
    BY <1>0, <1>1, <2>1, <2>2 DEF TakeTicket, ArbiterTyped
  <2>5. AttemptsTyped'
    BY <1>0, <1>1, <2>1, <2>2 DEF TakeTicket, AttemptsTyped
  <2>6. TruthTyped'
    BY <1>0, <1>1, <2>1, <2>2 DEF TakeTicket, TruthTyped
  <2> QED BY <2>3, <2>4, <2>5, <2>6 DEF Typed
<1>2. CASE StopQueued("cell") \/ StopQueued("resume") \/ StopActive \/ TargetLost
  <2>1. /\ UNCHANGED <<dirty, ledger, publicVars, registry, admission, rollback, truthVars, boundVars>>
        /\ job' \in {job, NoJob} /\ cell' \in {cell, <<>>} /\ active' \in {active, "none"}
        /\ worker' = IdleWorker \/ worker' = worker \/ worker' = [worker EXCEPT !.stop = TRUE]
        /\ \/ UNCHANGED <<main, context, frame>>
           \/ main' = "lost" /\ context' = "closed" /\ frame' = "lost"
        /\ queue' = <<>> \/ \E i \in 1 .. Len(queue) : queue' = RemoveAt(queue, i)
    BY <1>2 DEF StopQueued, StopActive, TargetLost, Cancelled
  <2>2. queue' \in Seq({"cell", "resume", "restore"})
    <3>1. ASSUME NEW i \in 1 .. Len(queue), queue' = RemoveAt(queue, i)
          PROVE  queue' \in Seq({"cell", "resume", "restore"})
      <4>1. i \in DOMAIN queue /\ queue \in Seq({"cell", "resume", "restore"})
        BY <1>0 DEF ArbiterTyped
      <4> QED BY <3>1, <4>1, RemoveAtType
    <3>2. CASE queue' = <<>>
      BY <3>2
    <3> QED BY <2>1, <3>1, <3>2, Zenon
  <2>3. worker' \in WorkerType
    BY <1>0, <2>1, IdleIsWorker DEF ArbiterTyped, WorkerType
  <2>4. AttemptsTyped'
    BY <1>0, <1>2, <2>1, CancelFacts, KeptAttempts
  <2>5. ArbiterTyped'
    BY <1>0, <2>1, <2>2, <2>3, NoJobIsTyped DEF ArbiterTyped
  <2>6. ScopeTyped'
    BY <1>0, <2>1, <2>4, <2>5 DEF ScopeTyped
  <2>7. TruthTyped'
    BY <1>0, <2>1, <2>4, <2>5 DEF TruthTyped
  <2> QED BY <2>4, <2>5, <2>6, <2>7 DEF Typed
<1> QED BY <1>1, <1>2 DEF ArbiterStep

LEMMA NextSteps ==
    ASSUME Next PROVE CellStep \/ AttemptStep \/ SubmitStep \/ PlanStep \/ ArbiterStep
BY DEF Next, ResumeStep, SubmitStep, PlanStep, FlushStep, ReleaseStep

LEMMA NextTypes == ASSUME Inv, Next PROVE Typed'
BY NextSteps, CellTypes, AttemptTypes, SubmitTypes, PlanTypes, ArbiterTypes DEF Inv

-----------------------------------------------------------------------------
(* The mailbox, the job and the rollback.                                  *)

LEMMA AppendTicket ==
    ASSUME Typed, Mailbox, NEW kind \in {"cell", "resume", "restore"}, ~Waiting(kind),
           queue' = Append(queue, kind)
    PROVE  Distinct(queue)' /\ ToSet(queue)' = ToSet(queue) \cup {kind}
BY AppendDistinct DEF Typed, ArbiterTyped, Mailbox, Waiting

LEMMA NextMailbox == ASSUME Inv, Typed', Next PROVE Mailbox'
<1>0. Typed /\ Mailbox /\ Rolling
  BY DEF Inv
<1>1. CASE PlanStep
  <2>1. /\ active = "resume" /\ active' \in {"none", "resume"} /\ queue' = queue
        /\ rollback' = rollback /\ evaluating' = evaluating
    BY <1>0, <1>1, PlanStepMoves DEF PlanMoves, Planning, Goes, Settles
  <2> QED BY <1>0, <2>1 DEF Mailbox, Waiting, ResumeInFlight
<1>2. CASE SubmitStep
  <2>1. PICK a, roots, points : Resume(a, roots, points)
    BY <1>0, <1>2, SubmitFacts
  <2>2. /\ queue' = Append(queue, "resume") /\ ~ResumeInFlight /\ ~evaluating
        /\ UNCHANGED <<evaluating, rollback, active, worker>>
    BY <2>1 DEF Resume
  <2>3. Distinct(queue)' /\ ToSet(queue)' = ToSet(queue) \cup {"resume"}
    BY <1>0, <2>2, AppendTicket DEF ResumeInFlight, Waiting
  <2> QED BY <1>0, <2>2, <2>3 DEF Mailbox, Waiting, ResumeInFlight
<1>3. CASE CellStep
  <2>1. CASE \E roots \in RootLists : SubmitCell(roots)
    <3>1. /\ queue' = Append(queue, "cell") /\ ~ResumeInFlight /\ ~evaluating /\ evaluating'
          /\ UNCHANGED <<rollback, active, worker>>
      BY <2>1 DEF SubmitCell
    <3>2. Distinct(queue)' /\ ToSet(queue)' = ToSet(queue) \cup {"cell"}
      BY <1>0, <3>1, AppendTicket DEF Mailbox, Waiting
    <3> QED BY <1>0, <3>1, <3>2 DEF Mailbox, Waiting, ResumeInFlight
  <2>2. CASE CellAdmitsRoots \/ CellRefused \/ CellReconciled
             \/ \E changed \in SUBSET Named(cell) : CellRuns(changed)
    <3>0. worker \in WorkerType
      BY <1>0 DEF Typed, ArbiterTyped
    <3>1. active = "cell" /\ UNCHANGED <<queue, active, rollback>> /\ worker.step # "done"
      BY <1>0, <2>2 DEF CellAdmitsRoots, CellRefused, CellReconciled, CellRuns, Mailbox
    <3>2. \/ evaluating' = evaluating /\ worker'.step = "run"
          \/ worker'.step = "done" /\ worker'.phase = "running"
      <4>1. CASE CellAdmitsRoots
        <5>1. worker'.step = "run" /\ evaluating' = evaluating
          BY <3>0, <4>1 DEF CellAdmitsRoots, WorkerType
        <5> QED BY <5>1
      <4>2. CASE CellRefused
        <5>1. worker.phase = "running"
          BY <1>0, <3>0, <4>2 DEF CellRefused, Mailbox, WorkerType
        <5> QED BY <3>0, <4>2, <5>1 DEF CellRefused, WorkerType
      <4>3. CASE CellReconciled
        BY <3>0, <4>3 DEF CellReconciled, WorkerType
      <4>4. CASE \E changed \in SUBSET Named(cell) : CellRuns(changed)
        BY <3>0, <4>4 DEF CellRuns, WorkerType
      <4> QED BY <2>2, <4>1, <4>2, <4>3, <4>4
    <3> QED BY <1>0, <3>1, <3>2 DEF Mailbox, Waiting, ResumeInFlight
  <2>3. CASE CellDropped \/ CellSettles
    <3>1. active = "cell" /\ active' = "none" /\ UNCHANGED <<queue, rollback, evaluating>>
      BY <2>3 DEF CellDropped, CellSettles, WorkerFreed
    <3> QED BY <1>0, <3>1 DEF Mailbox, Waiting, ResumeInFlight
  <2>4. CASE ObserveCellSettled
    BY <1>0, <2>4 DEF ObserveCellSettled, Mailbox, Waiting, ResumeInFlight
  <2> QED BY <1>3, <2>1, <2>2, <2>3, <2>4 DEF CellStep
<1>4. CASE AttemptStep
  <2>1. CASE CloseStep \/ RollbackRaises
             \/ \E roots \in RootLists, points \in PointSets : BeginAdmission(roots, points)
    <3>1. /\ UNCHANGED <<queue, active, worker, evaluating>>
          /\ rollback' = rollback \/ rollback.restore # "waiting"
      BY <2>1 DEF CloseStep, Commit, Quarantine, RollbackUnused, RollbackEnds, RollbackRaises, BeginAdmission
    <3> QED BY <1>0, <3>1 DEF Mailbox, Waiting, ResumeInFlight
  <2>2. CASE RollbackBegins
    <3>1. /\ queue = <<>> /\ active = "none" /\ UNCHANGED <<active, worker, evaluating>>
          /\ queue' = queue \/ (queue' = Append(queue, "restore") /\ rollback'.restore = "waiting")
      BY <2>2 DEF RollbackBegins, RollbackAllowed, PendingOperations
    <3>2. \A kind : ~Waiting(kind)
      BY <3>1 DEF Waiting, ToSet
    <3>3. CASE queue' = queue
      BY <1>0, <3>1, <3>2, <3>3 DEF Mailbox, Waiting, ResumeInFlight
    <3>4. CASE queue' = Append(queue, "restore") /\ rollback'.restore = "waiting"
      <4>1. Distinct(queue)' /\ ToSet(queue)' = ToSet(queue) \cup {"restore"}
        BY <1>0, <3>2, <3>4, AppendTicket
      <4> QED BY <1>0, <3>1, <3>2, <3>4, <4>1 DEF Mailbox, Waiting, ResumeInFlight
    <3> QED BY <3>1, <3>3, <3>4
  <2>3. CASE RestoreInstalled \/ RestoreDropped \/ RestoreLost
    <3>1. /\ active = "restore" /\ UNCHANGED <<queue, evaluating>>
          /\ active' = "none" \/ (active' = active /\ worker'.phase = "unknown")
      BY <1>0, <2>3 DEF RestoreInstalled, RestoreDropped, RestoreLost, RestoreRunning, WorkerFreed,
                        Typed, ArbiterTyped, WorkerType
    <3> QED BY <1>0, <3>1 DEF Mailbox, Waiting, ResumeInFlight
  <2> QED BY <1>4, <2>1, <2>2, <2>3 DEF AttemptStep, CloseStep
<1>5. CASE ArbiterStep
  <2>1. CASE TakeTicket
    <3>1. /\ active = "none" /\ queue # <<>> /\ active' = Head(queue) /\ queue' = Tail(queue)
          /\ UNCHANGED <<rollback, evaluating>> /\ worker'.phase = "running"
      BY <2>1 DEF TakeTicket, IdleWorker
    <3>2. /\ ToSet(queue)' = ToSet(queue) \ {Head(queue)} /\ Distinct(queue)'
          /\ Head(queue) \in ToSet(queue)
      BY <1>0, <3>1, TailDistinct DEF Typed, ArbiterTyped, Mailbox
    <3> QED BY <1>0, <3>1, <3>2 DEF Mailbox, Waiting, ResumeInFlight
  <2>2. CASE StopQueued("cell") \/ StopQueued("resume")
    <3>1. PICK i \in 1 .. Len(queue) : queue' = RemoveAt(queue, i)
      BY <2>2 DEF StopQueued
    <3>2. UNCHANGED <<rollback, active, worker, evaluating>>
      BY <2>2 DEF StopQueued
    <3>3. i \in DOMAIN queue /\ queue \in Seq({"cell", "resume", "restore"})
      BY <1>0 DEF Typed, ArbiterTyped
    <3>4. ToSet(queue)' \subseteq ToSet(queue) /\ Distinct(queue)'
      BY <1>0, <3>1, <3>3, RemoveAtDistinct DEF Mailbox
    <3> QED BY <1>0, <3>2, <3>4 DEF Mailbox, Waiting, ResumeInFlight
  <2>3. CASE StopActive \/ TargetLost
    <3>1. /\ queue' = <<>> /\ UNCHANGED <<rollback, evaluating>>
          /\ active' = "none" \/ (active' = active /\ worker'.phase = worker.phase /\ worker'.step = worker.step)
      BY <1>0, <2>3 DEF StopActive, TargetLost, Typed, ArbiterTyped, WorkerType
    <3>2. Distinct(<<>>) /\ \A kind : kind \notin ToSet(<<>>)
      BY DEF Distinct, ToSet
    <3> QED BY <1>0, <3>1, <3>2 DEF Mailbox, Waiting, ResumeInFlight
  <2> QED BY <1>5, <2>1, <2>2, <2>3 DEF ArbiterStep
<1> QED BY <1>1, <1>2, <1>3, <1>4, <1>5, NextSteps

LEMMA NextJobs == ASSUME Inv, Typed', Mailbox', Next PROVE Jobs'
<1>0. Typed /\ Mailbox /\ Jobs /\ attempts \in Seq(Attempts) /\ Len(attempts) \in Nat
      /\ job.attempt \in 0 .. Len(attempts)
  BY DEF Inv, Typed, AttemptsTyped
<1>1. CASE PlanStep
  <2>1. PlanMoves
    BY <1>0, <1>1, PlanStepMoves
  <2>2. CASE Settles
    <3>1. ~ResumeInFlight'
      BY <1>0, <2>1, <2>2 DEF Settles, PlanMoves, Planning, Mailbox, Waiting, ResumeInFlight
    <3> QED BY <2>2, <3>1, NoJobIsTyped DEF Jobs, Settles, ResumeInFlight
  <2>3. CASE Goes
    <3>1. active' = "resume" /\ job' = job
      BY <2>1, <2>3 DEF Goes, PlanMoves, Planning
    <3>2. \A b \in 1 .. Len(attempts) : attempts'[b].ticket = attempts[b].ticket
      BY <1>0, <2>1, <2>3, PlanAttempts
    <3>3. worker'.step = "rearm" => job.points # NoPoints
      <4>1. CASE ResumeAdmitsRoots
        <5>1. worker' = [worker EXCEPT !.step = IF job.points = NoPoints THEN "ledger" ELSE "rearm"]
          BY <4>1 DEF ResumeAdmitsRoots, Goto
        <5>2. worker'.step = IF job.points = NoPoints THEN "ledger" ELSE "rearm"
          BY <1>0, <5>1 DEF Typed, ArbiterTyped, WorkerType
        <5> QED BY <5>2
      <4>2. CASE ~ResumeAdmitsRoots
        <5>1. worker'.step # "rearm" \/ worker'.step = worker.step
          BY <1>0, <1>1, <4>2, PlanSteps DEF Typed, ArbiterTyped, ResumeAdmitsRoots
        <5> QED BY <1>0, <2>1, <5>1 DEF Jobs, PlanMoves, Planning
      <4> QED BY <4>1, <4>2
    <3> QED BY <1>0, <3>1, <3>2, <3>3 DEF Jobs, ResumeInFlight
  <2> QED BY <2>1, <2>2, <2>3 DEF PlanMoves
<1>2. CASE SubmitStep
  <2>1. PICK a \in 0 .. Len(attempts), roots \in RootLists, points \in PointSets \cup {NoPoints} :
           Resume(a, roots, points) /\ (a # 0 => attempts'[a].ticket = "live")
    BY <1>0, <1>2, SubmitFacts
  <2>2. job'.attempt = a /\ active' = active /\ active # "resume" /\ queue' = Append(queue, "resume")
        /\ ~ResumeInFlight
    BY <2>1 DEF Resume, ResumeInFlight
  <2>3. ToSet(queue)' = ToSet(queue) \cup {"resume"}
    BY <1>0, <2>2, AppendTicket DEF ResumeInFlight, Waiting
  <2> QED BY <2>1, <2>2, <2>3 DEF Jobs, ResumeInFlight
<1>3. CASE CellStep
  <2>1. /\ UNCHANGED <<job, attempts>> /\ (active' = "resume" <=> active = "resume")
        /\ active = "resume" => worker' = worker
        /\ queue' = queue \/ queue' = Append(queue, "cell")
    BY <1>3 DEF CellStep, SubmitCell, CellAdmitsRoots, CellRefused, CellRuns, CellDropped,
                CellReconciled, CellSettles, ObserveCellSettled, WorkerFreed
  <2>2. ResumeInFlight => ResumeInFlight'
    <3>1. ToSet(queue) \subseteq ToSet(queue)'
      BY <1>0, <2>1 DEF Typed, ArbiterTyped, ToSet
    <3> QED BY <2>1, <3>1 DEF ResumeInFlight
  <2> QED BY <1>0, <2>1, <2>2 DEF Jobs
<1>4. CASE AttemptStep
  <2>1. CASE CloseStep
    <3>1. UNCHANGED <<active, queue, worker, job>>
      BY <2>1 DEF CloseStep, Commit, Quarantine, RollbackUnused, RollbackEnds
    <3>2. \A b \in 1 .. Len(attempts) : attempts'[b].ticket = attempts[b].ticket
      BY <2>1, CloseFacts DEF Closes, Inv
    <3> QED BY <1>0, <3>1, <3>2 DEF Jobs, ResumeInFlight
  <2>2. CASE \E roots \in RootLists, points \in PointSets : BeginAdmission(roots, points)
    <3>1. UNCHANGED <<active, queue, worker, job>>
      BY <2>2 DEF BeginAdmission
    <3>2. \A b \in 1 .. Len(attempts) : attempts'[b] = attempts[b]
      BY <1>0, <2>2, BeginFacts
    <3> QED BY <1>0, <3>1, <3>2 DEF Jobs, ResumeInFlight
  <2>3. CASE ~CloseStep /\ ~(\E roots \in RootLists, points \in PointSets : BeginAdmission(roots, points))
    <3>1. /\ UNCHANGED <<job, attempts>> /\ (active' = "resume" <=> active = "resume")
          /\ active = "resume" => worker' = worker
          /\ queue' = queue \/ queue' = Append(queue, "restore")
      BY <1>4, <2>3 DEF AttemptStep, CloseStep, RollbackBegins, RollbackRaises, RestoreInstalled,
                        RestoreDropped, RestoreLost, RestoreRunning, WorkerFreed
    <3>2. ResumeInFlight => ResumeInFlight'
      <4>1. ToSet(queue) \subseteq ToSet(queue)'
        BY <1>0, <3>1 DEF Typed, ArbiterTyped, ToSet
      <4> QED BY <3>1, <4>1 DEF ResumeInFlight
    <3> QED BY <1>0, <3>1, <3>2 DEF Jobs
  <2> QED BY <2>1, <2>2, <2>3
<1>5. CASE ArbiterStep
  <2>1. CASE TakeTicket
    <3>1. /\ active = "none" /\ queue # <<>> /\ active' = Head(queue) /\ queue' = Tail(queue)
          /\ UNCHANGED <<job, attempts>> /\ worker'.step = "admit"
      BY <2>1 DEF TakeTicket, IdleWorker
    <3>2. ToSet(queue)' = ToSet(queue) \ {Head(queue)}
      BY <1>0, <3>1, TailDistinct DEF Typed, ArbiterTyped, Mailbox
    <3>3. ResumeInFlight => ResumeInFlight'
      BY <3>1, <3>2 DEF ResumeInFlight
    <3> QED BY <1>0, <3>1, <3>3 DEF Jobs
  <2>2. CASE StopQueued("resume") \/ TargetLost
    <3>1. job' = NoJob
      BY <2>2 DEF StopQueued, TargetLost, Cancelled
    <3>2. active' = "resume" => active = "resume" /\ worker' = worker
      BY <2>2 DEF StopQueued, TargetLost
    <3>3. active # "resume" \/ active' # "resume"
      <4>1. CASE StopQueued("resume")
        <5>1. Waiting("resume")
          BY <4>1 DEF StopQueued, Waiting, ToSet
        <5> QED BY <1>0, <5>1 DEF Mailbox
      <4> QED BY <2>2, <4>1 DEF TargetLost
    <3> QED BY <3>1, <3>2, <3>3, NoJobIsTyped DEF Jobs
  <2>3. CASE StopQueued("cell")
    <3>1. PICK i \in 1 .. Len(queue) : queue[i] = "cell" /\ queue' = RemoveAt(queue, i)
      BY <2>3 DEF StopQueued
    <3>2. UNCHANGED <<job, attempts, active, worker>>
      BY <2>3 DEF StopQueued, Cancelled, TicketOutcome
    <3>3. i \in DOMAIN queue /\ queue \in Seq({"cell", "resume", "restore"})
      BY <1>0 DEF Typed, ArbiterTyped
    <3>4. ToSet(queue)' = ToSet(queue) \ {"cell"}
      BY <1>0, <3>1, <3>3, RemoveAtDistinct DEF Mailbox
    <3> QED BY <1>0, <3>2, <3>4 DEF Jobs, ResumeInFlight
  <2>4. CASE StopActive
    <3>1. /\ active' = active /\ worker'.step = worker.step /\ queue' = <<>>
          /\ Cancelled(ToSet(queue))
      BY <1>0, <2>4 DEF StopActive, Typed, ArbiterTyped, WorkerType
    <3>2. CASE Waiting("resume")
      <4>1. job' = NoJob /\ active # "resume"
        BY <1>0, <3>1, <3>2 DEF Cancelled, Waiting, Mailbox
      <4> QED BY <3>1, <4>1, NoJobIsTyped DEF Jobs
    <3>3. CASE ~Waiting("resume")
      <4>1. UNCHANGED <<job, attempts>>
        BY <3>1, <3>3 DEF Cancelled, Waiting, TicketOutcome
      <4> QED BY <1>0, <3>1, <3>3, <4>1 DEF Jobs, ResumeInFlight, Waiting
    <3> QED BY <3>2, <3>3
  <2> QED BY <1>5, <2>1, <2>2, <2>3, <2>4 DEF ArbiterStep
<1> QED BY <1>1, <1>2, <1>3, <1>4, <1>5, NextSteps

\* Only a submission brings a resume into flight.
LEMMA ResumeNotMade ==
    ASSUME Typed, Mailbox, PlanStep \/ CellStep \/ AttemptStep \/ ArbiterStep
    PROVE  ResumeInFlight' => ResumeInFlight
<1>0. queue \in Seq({"cell", "resume", "restore"}) /\ DOMAIN queue = 1 .. Len(queue)
  BY DEF Typed, ArbiterTyped
<1>1. CASE PlanStep
  BY <1>1, PlanStepMoves DEF PlanMoves, Planning, ResumeInFlight
<1>2. CASE CellStep
  <2>1. /\ active' = "resume" => active = "resume"
        /\ queue' = queue \/ queue' = Append(queue, "cell")
    BY <1>2 DEF CellStep, SubmitCell, CellAdmitsRoots, CellRefused, CellRuns, CellDropped,
                CellReconciled, CellSettles, ObserveCellSettled, WorkerFreed
  <2>2. ToSet(queue)' \subseteq ToSet(queue) \cup {"cell"}
    BY <1>0, <2>1 DEF ToSet
  <2> QED BY <2>1, <2>2 DEF ResumeInFlight
<1>3. CASE AttemptStep
  <2>1. /\ active' = "resume" => active = "resume"
        /\ queue' = queue \/ queue' = Append(queue, "restore")
    BY <1>3 DEF AttemptStep, BeginAdmission, Commit, Quarantine, RollbackUnused, RollbackBegins,
                RollbackRaises, RollbackEnds, RestoreInstalled, RestoreDropped, RestoreLost, WorkerFreed
  <2>2. ToSet(queue)' \subseteq ToSet(queue) \cup {"restore"}
    BY <1>0, <2>1 DEF ToSet
  <2> QED BY <2>1, <2>2 DEF ResumeInFlight
<1>4. CASE TakeTicket
  <2>1. queue # <<>> /\ active' = Head(queue) /\ queue' = Tail(queue)
    BY <1>4 DEF TakeTicket
  <2>2. ToSet(queue)' \subseteq ToSet(queue) /\ Head(queue) \in ToSet(queue)
    BY <1>0, <2>1, TailDistinct DEF Mailbox
  <2> QED BY <2>1, <2>2 DEF ResumeInFlight
<1>5. CASE StopQueued("cell") \/ StopQueued("resume")
  <2>1. PICK i \in 1 .. Len(queue) : queue' = RemoveAt(queue, i)
    BY <1>5 DEF StopQueued
  <2>2. active' = active
    BY <1>5 DEF StopQueued
  <2>3. ToSet(queue)' \subseteq ToSet(queue)
    BY <1>0, <2>1, RemoveAtDistinct DEF Mailbox
  <2> QED BY <2>2, <2>3 DEF ResumeInFlight
<1>6. CASE StopActive \/ TargetLost
  <2>1. queue' = <<>> /\ active' \in {active, "none"}
    BY <1>6 DEF StopActive, TargetLost
  <2>2. ToSet(queue)' = {}
    BY <2>1 DEF ToSet
  <2> QED BY <2>1, <2>2 DEF ResumeInFlight
<1> QED BY <1>1, <1>2, <1>3, <1>4, <1>5, <1>6 DEF ArbiterStep

LEMMA NextRolling == ASSUME Inv, Typed', Next PROVE Rolling'
<1>0. /\ Typed /\ Mailbox /\ Rolling /\ attempts \in Seq(Attempts) /\ Len(attempts) \in Nat
      /\ admission \in 0 .. Len(attempts) /\ rollback.attempt \in 0 .. Len(attempts)
      /\ rollback \in [attempt : 0 .. Len(attempts),
                       restore : {"none", "waiting", "value", "error", "unknown"}]
  BY DEF Inv, Typed, AttemptsTyped
<1>1. CASE PlanStep
  <2>1. UNCHANGED <<admission, rollback>> /\ ResumeInFlight
    BY <1>0, <1>1, PlanStepMoves DEF PlanMoves, Planning, ResumeInFlight
  <2> QED BY <1>0, <2>1 DEF Rolling
<1>2. CASE SubmitStep
  <2>1. UNCHANGED <<admission, rollback>> /\ (admission # 0 => ~attempts[admission].consumed)
    <3>1. PICK a \in 0 .. Len(attempts), roots \in RootLists, points \in PointSets \cup {NoPoints} :
             /\ Resume(a, roots, points) /\ a = admission /\ admission' = admission
             /\ a # 0 => ~attempts[a].consumed
      BY <1>0, <1>2, SubmitFacts
    <3> QED BY <3>1 DEF Resume
  <2> QED BY <1>0, <2>1 DEF Rolling
<1>3. CASE CellStep
  <2>1. UNCHANGED <<admission, rollback, attempts, registry>>
    BY <1>3 DEF CellStep, SubmitCell, CellAdmitsRoots, CellRefused, CellRuns, CellDropped,
                CellReconciled, CellSettles, ObserveCellSettled
  <2> QED BY <1>0, <1>3, <2>1, ResumeNotMade DEF Rolling
<1>4. CASE AttemptStep
  <2>0. ResumeInFlight' => ResumeInFlight
    BY <1>0, <1>4, ResumeNotMade
  <2>1. CASE CloseStep
    <3>1. /\ admission \in 1 .. Len(attempts) /\ Kept(admission) /\ registry' = registry
          /\ admission' \in {0, admission} /\ rollback' \in {rollback, NoRollback}
      BY <1>0, <2>1, CloseFacts DEF AttemptsKept, CloseStep, Commit, Quarantine, RollbackUnused, RollbackEnds
    <3>2. CASE rollback' = NoRollback
      BY <3>2 DEF Rolling, NoRollback
    <3>3. CASE rollback' = rollback
      BY <1>0, <2>0, <3>1, <3>3 DEF Rolling, Kept
    <3> QED BY <3>1, <3>2, <3>3
  <2>2. CASE \E roots \in RootLists, points \in PointSets : BeginAdmission(roots, points)
    <3>1. rollback' = rollback /\ admission' = Len(attempts) + 1
      BY <2>2 DEF BeginAdmission
    <3> QED BY <1>0, <3>1 DEF Rolling
  <2>3. CASE RollbackBegins
    <3>1. /\ admission # 0 /\ attempts[admission].consumed /\ ~ResumeInFlight
          /\ UNCHANGED <<admission, attempts, registry>>
          /\ rollback'.attempt = admission /\ rollback'.restore \in {"waiting", "value"}
          /\ rollback'.restore = "value" => registry = attempts[admission].original
      BY <2>3 DEF RollbackBegins, RollbackAllowed, PendingOperations, ResumeInFlight, ToSet
    <3> QED BY <2>0, <3>1 DEF Rolling
  <2>4. CASE RollbackRaises
    BY <2>4 DEF RollbackRaises, NoRollback, Rolling
  <2>5. CASE RestoreInstalled
    <3>1. /\ UNCHANGED <<admission, attempts>> /\ registry' = attempts[rollback.attempt].original
          /\ rollback'.attempt = rollback.attempt /\ rollback'.restore = "value"
          /\ rollback.restore = "waiting"
      BY <1>0, <2>5 DEF RestoreInstalled, RestoreRunning, Mailbox
    <3> QED BY <1>0, <2>0, <3>1 DEF Rolling
  <2>6. CASE RestoreDropped \/ RestoreLost
    <3>1. /\ UNCHANGED <<admission, attempts, registry>>
          /\ rollback'.attempt = rollback.attempt /\ rollback'.restore \in {"error", "unknown"}
          /\ rollback.restore = "waiting"
      BY <1>0, <2>6 DEF RestoreDropped, RestoreLost, RestoreRunning, Mailbox
    <3> QED BY <1>0, <2>0, <3>1 DEF Rolling
  <2> QED BY <1>4, <2>1, <2>2, <2>3, <2>4, <2>5, <2>6 DEF AttemptStep, CloseStep
<1>5. CASE ArbiterStep
  <2>0. ResumeInFlight' => ResumeInFlight
    BY <1>0, <1>5, ResumeNotMade
  <2>1. UNCHANGED <<admission, rollback, registry>>
    BY <1>5 DEF ArbiterStep, TakeTicket, StopQueued, StopActive, TargetLost
  <2>2. \A b \in 1 .. Len(attempts) : attempts'[b].original = attempts[b].original
                                      /\ (attempts[b].consumed => attempts'[b].consumed)
    <3>1. CASE TakeTicket
      BY <3>1 DEF TakeTicket
    <3>2. CASE ~TakeTicket
      BY <1>0, <1>5, <3>2, CancelFacts DEF ArbiterStep, AttemptsKept, Kept
    <3> QED BY <3>1, <3>2
  <2> QED BY <1>0, <2>0, <2>1, <2>2 DEF Rolling
<1> QED BY <1>1, <1>2, <1>3, <1>4, <1>5, NextSteps

-----------------------------------------------------------------------------
(* The ledger and the writes.                                              *)

\* Outside the plan, the ledger, the registered roots and the truth change in three steps.
LEMMA ScopeFrame ==
    ASSUME CellStep \/ AttemptStep \/ SubmitStep \/ ArbiterStep
    PROVE  /\ CellAdmitsRoots \/ dirty' = dirty
           /\ RollbackEnds \/ ledger' = ledger
           /\ (\E changed \in SUBSET Named(cell) : CellRuns(changed)) \/ version' = version
           /\ UNCHANGED <<exported, written, sent, continues>>
<1>1. CASE CellStep
  BY <1>1 DEF CellStep, SubmitCell, CellAdmitsRoots, CellRefused, CellRuns, CellDropped,
              CellReconciled, CellSettles, ObserveCellSettled
<1>2. CASE AttemptStep
  BY <1>2 DEF AttemptStep, BeginAdmission, Commit, Quarantine, RollbackUnused, RollbackBegins,
              RollbackRaises, RollbackEnds, RestoreInstalled, RestoreDropped, RestoreLost
<1>3. CASE SubmitStep
  BY <1>3 DEF SubmitStep, ResumeDirectly, ResumeAttempt, Resume
<1>4. CASE ArbiterStep
  BY <1>4 DEF ArbiterStep, TakeTicket, StopQueued, StopActive, TargetLost
<1> QED BY <1>1, <1>2, <1>3, <1>4

\* A rollback that reopens the scope finds no root sent, and no resume in flight.
LEMMA ReopenFacts ==
    ASSUME Inv, RollbackEnds, ledger' # ledger
    PROVE  /\ ledger' = NoLedger /\ ledger.begun /\ admission # 0 /\ ~ResumeInFlight
           /\ context = "ready" /\ frame = "confirmed" /\ admission' = 0 /\ resuming' = FALSE
           /\ registry = attempts[admission].original /\ registry' = registry
           /\ UNCHANGED <<main, context, dirty, queue, active>>
           /\ Disposition(ledger) = "paused_export_failed" /\ Unmodified(ledger)
<1>1. /\ rollback.restore = "value" /\ admission = rollback.attempt
      /\ UNCHANGED <<main, context, frame, dirty, queue, active, registry>>
  BY DEF RollbackEnds
<1>2. /\ ledger' = NoLedger /\ ledger.begun /\ context = "ready" /\ frame = "confirmed"
      /\ admission' = 0 /\ resuming' = FALSE
      /\ Disposition(ledger) = "paused_export_failed" /\ Unmodified(ledger)
  BY DEF RollbackEnds
<1> QED BY <1>1, <1>2 DEF Inv, Rolling

LEMMA NextLedgers == ASSUME Inv, Typed', Next PROVE Ledgers'
<1>0. /\ Typed /\ Mailbox /\ Ledgers /\ worker \in WorkerType /\ dirty \in Seq(Roots) /\ OneSpelling(dirty)
      /\ cell \in RootLists
  BY DEF Inv, Typed, ArbiterTyped, ScopeTyped
<1>1. CASE CellStep
  <2>1. ledger' = ledger
    BY <1>1, ScopeFrame DEF CellStep, RollbackEnds, SubmitCell, CellAdmitsRoots, CellRefused, CellRuns,
              CellDropped, CellReconciled, CellSettles, ObserveCellSettled
  <2>2. CASE CellAdmitsRoots
    <3>1. /\ dirty' = Admit(dirty, cell) /\ cell' = cell /\ ~ledger.begun /\ active' = "cell"
      BY <2>2 DEF CellAdmitsRoots
    <3>2. Named(dirty') = Named(dirty) \cup Named(cell)
      BY <1>0, <3>1, AdmitFacts
    <3>3. Named(cell)' \subseteq Named(dirty)'
      BY <3>1, <3>2 DEF Named
    <3> QED BY <1>0, <2>1, <3>1, <3>3 DEF Ledgers
  <2>3. CASE \E roots \in RootLists : SubmitCell(roots)
    <3>1. /\ UNCHANGED <<dirty, active, worker>> /\ ~evaluating
      BY <2>3 DEF SubmitCell
    <3>2. ~(active = "cell" /\ worker.step = "run")
      BY <1>0, <3>1 DEF Mailbox
    <3> QED BY <1>0, <2>1, <3>1, <3>2 DEF Ledgers
  <2>4. CASE ~CellAdmitsRoots /\ ~\E roots \in RootLists : SubmitCell(roots)
    <3>1. /\ dirty' = dirty
          /\ active' = "none" \/ (active' = active /\ cell' = cell)
          /\ active = "resume" => worker' = worker
      BY <1>1, <2>4 DEF CellStep, CellRefused, CellRuns, CellDropped, CellReconciled, CellSettles,
                        ObserveCellSettled, WorkerFreed
    <3>2. active' # "none" => worker'.step \in {worker.step, "done"}
      BY <1>0, <1>1, <2>4 DEF CellStep, CellRefused, CellRuns, CellDropped, CellReconciled, CellSettles,
                        ObserveCellSettled, WorkerFreed, WorkerType
    <3> QED BY <1>0, <2>1, <3>1, <3>2 DEF Ledgers, Named
  <2> QED BY <2>2, <2>3, <2>4
<1>2. CASE SubmitStep
  <2>1. UNCHANGED <<ledger, dirty, active, worker, cell>>
    BY <1>2 DEF SubmitStep, ResumeDirectly, ResumeAttempt, Resume
  <2> QED BY <1>0, <2>1 DEF Ledgers, Named
<1>3. CASE AttemptStep
  <2>1. /\ UNCHANGED <<dirty, cell>>
        /\ active' = "none" \/ (active' = active /\ worker'.step = worker.step)
    BY <1>0, <1>3 DEF AttemptStep, BeginAdmission, Commit, Quarantine, RollbackUnused, RollbackBegins,
              RollbackRaises, RollbackEnds, RestoreInstalled, RestoreDropped, RestoreLost,
              RestoreRunning, WorkerFreed, WorkerType
  <2>2. CASE ledger' = ledger
    BY <1>0, <2>1, <2>2 DEF Ledgers, Named
  <2>3. CASE ledger' # ledger
    <3>1. RollbackEnds
      BY <1>3, <2>3, ScopeFrame
    <3>2. ledger' = NoLedger /\ ledger.begun /\ ~ResumeInFlight
      BY <2>3, <3>1, ReopenFacts
    <3> QED BY <1>0, <2>1, <3>2, NoLedgerIsTyped DEF Ledgers, Named, ResumeInFlight
  <2> QED BY <2>2, <2>3
<1>4. CASE ArbiterStep
  <2>1. UNCHANGED <<ledger, dirty>>
    BY <1>4 DEF ArbiterStep, TakeTicket, StopQueued, StopActive, TargetLost
  <2>2. CASE TakeTicket
    <3>1. worker'.step = "admit"
      BY <2>2 DEF TakeTicket, IdleWorker
    <3> QED BY <1>0, <2>1, <3>1 DEF Ledgers, Flushing, Releasing
  <2>3. CASE ~TakeTicket
    <3>1. /\ active' = "none" \/ (active' = active /\ worker'.step = worker.step)
          /\ cell' \in {cell, <<>>}
      BY <1>0, <1>4, <2>3 DEF ArbiterStep, StopQueued, StopActive, TargetLost, Cancelled, WorkerType
    <3>2. Named(<<>>) = {}
      BY DEF Named, ToSet
    <3>3. Named(cell)' \subseteq Named(cell)
      BY <3>1, <3>2 DEF Named
    <3>4. Named(dirty)' = Named(dirty)
      BY <2>1 DEF Named
    <3> QED BY <1>0, <2>1, <3>1, <3>3, <3>4 DEF Ledgers
  <2> QED BY <2>2, <2>3
<1>5. CASE PlanStep
  <2>1. active = "resume" /\ active' \in {"none", "resume"}
    BY <1>0, <1>5, PlanStepMoves DEF PlanMoves, Planning, Goes, Settles
  <2>2. CASE ResumeAdmitsRoots
    <3>1. ledger' = ledger /\ (ledger.begun => dirty' = dirty)
      BY <2>2 DEF ResumeAdmitsRoots
    <3>2. worker'.step \in {"ledger", "rearm"}
      BY <1>0, <2>2, StepGoes DEF ResumeAdmitsRoots
    <3> QED BY <1>0, <2>1, <3>1, <3>2 DEF Ledgers, Flushing, Releasing
  <2>3. CASE LedgerBegins
    <3>1. dirty' = dirty /\ ledger' = IF ledger.begun THEN ledger
                 ELSE [begun |-> TRUE, roots |-> dirty, phase |-> NoLedger.phase]
      BY <2>3 DEF LedgerBegins
    <3>2. ledger'.begun /\ ledger'.roots = dirty
      BY <1>0, <3>1 DEF Ledgers
    <3> QED BY <2>1, <3>1, <3>2 DEF Ledgers
  <2>4. CASE Rearmed \/ RearmFails
    <3>1. UNCHANGED <<ledger, dirty>> /\ worker.step = "rearm"
      BY <2>4 DEF Rearmed, RearmFails, RearmFrame, At
    <3>2. worker'.step \notin Flushing
      BY <1>0, <2>4, <3>1, Stays, StepGoes DEF Rearmed, RearmFails, Flushing, Releasing
    <3> QED BY <1>0, <2>1, <3>1, <3>2 DEF Ledgers
  <2>5. CASE FlushStep \/ ReleaseStep
    <3>1. dirty' = dirty /\ worker.step \in Flushing
      BY <2>5 DEF FlushStep, ExportEnters, ExportRaises, ExportReturns, ExportFails, ModifyEnters,
             ModifyRefused, ModifyReturns, ModifyFails, ModifyLost, FlushEnds, FlushFrame, ReleaseStep,
             ScopeEnds, ScopeEndFails, ContinueEnters, ContinueRefused, ContinueAcknowledged,
             ContinueLost, ScopeCloses, ResumeReturns, ReleaseFrame, At, AtRoot, Flushing, Releasing
    <3>2. ledger' = ledger \/ (Unwritten # {} /\ \E p \in RootPhases : SetPhase(p))
      BY <2>5 DEF FlushStep, ExportEnters, ExportRaises, ExportReturns, ExportFails, ModifyEnters,
             ModifyRefused, ModifyReturns, ModifyFails, ModifyLost, FlushEnds, ReleaseStep,
             ScopeEnds, ScopeEndFails, ContinueEnters, ContinueRefused, ContinueAcknowledged,
             ContinueLost, ScopeCloses, ResumeReturns, ReleaseFrame, AtRoot, RootPhases
    <3>3. ledger'.begun = ledger.begun /\ ledger'.roots = ledger.roots
      BY <1>0, <3>2, SetPhaseFacts DEF Typed
    <3> QED BY <1>0, <2>1, <3>1, <3>3 DEF Ledgers
  <2> QED BY <1>5, <2>2, <2>3, <2>4, <2>5 DEF PlanStep
<1> QED BY <1>1, <1>2, <1>3, <1>4, <1>5, NextSteps

\* Two registered roots name different variables.
LEMMA RootsDiffer ==
    ASSUME OneSpelling(dirty), dirty \in Seq(Roots), NEW i \in 1 .. Len(dirty),
           NEW j \in 1 .. Len(dirty), dirty[i] # dirty[j]
    PROVE  Casefold[dirty[i]] # Casefold[dirty[j]]
BY DEF OneSpelling

\* A step of the flush changes the phase of one root, and at most its variable.
LEMMA FlushKeepsWrites ==
    ASSUME Typed, Writes, Ledgers, ledger.begun, Unwritten # {}, NEW p \in RootPhases, SetPhase(p),
           UNCHANGED <<dirty, version>>,
           \A v \in Variables : v # NextVariable =>
              exported'[v] = exported[v] /\ written'[v] = written[v] /\ sent'[v] = sent[v],
           p \in {"exported", "modify_sent"} => exported'[NextVariable] = version[NextVariable],
           p = "succeeded" => written'[NextVariable] = version[NextVariable],
           p \in BeforeSent => sent'[NextVariable] = 0,
           sent'[NextVariable] # 0 => sent'[NextVariable] = 1
    PROVE  Writes'
<1>0. /\ ScopeTyped /\ dirty \in Seq(Roots) /\ OneSpelling(dirty) /\ ledger.roots = dirty
      /\ Len(dirty) \in Nat /\ \A i \in 1 .. Len(dirty) : dirty[i] \in Roots
  BY NamedIs DEF Typed, ScopeTyped, Ledgers
<1>1. PICK n \in 1 .. Len(dirty) : NextRoot = dirty[n]
  BY <1>0, NextRootFacts
<1>2. /\ ledger'.begun /\ ledger'.phase[NextRoot] = p
      /\ \A r \in Roots : r # NextRoot => ledger'.phase[r] = ledger.phase[r]
  BY <1>0, SetPhaseFacts
<1>3. NextVariable = Casefold[NextRoot] /\ NextVariable \in Named(dirty)
      /\ NextVariable \in Variables
  BY <1>0, <1>1, NamedIs, NextRootFacts
<1>4. \A i \in 1 .. Len(dirty) : PhaseHolds(dirty[i])'
  <2> SUFFICES ASSUME NEW i \in 1 .. Len(dirty) PROVE PhaseHolds(dirty[i])'
    OBVIOUS
  <2>1. dirty[i] \in Roots /\ Casefold[dirty[i]] \in Variables /\ dirty'[i] = dirty[i]
    BY <1>0 DEF Variables
  <2>2. CASE dirty[i] = NextRoot
    BY <1>2, <1>3, <2>1, <2>2 DEF PhaseHolds
  <2>3. CASE dirty[i] # NextRoot
    <3>1. Casefold[dirty[i]] # NextVariable
      BY <1>0, <1>1, <1>3, <2>3, RootsDiffer
    <3>2. PhaseHolds(dirty[i])
      BY DEF Writes
    <3> QED BY <1>2, <2>1, <2>3, <3>1, <3>2 DEF PhaseHolds
  <2> QED BY <2>2, <2>3
<1>5. \A v \in Variables : sent'[v] # 0 => sent'[v] = 1 /\ ledger'.begun /\ v \in Named(dirty)
  BY <1>2, <1>3 DEF Writes
<1>6. Named(dirty)' = Named(dirty)
  BY DEF Named
<1>7. ASSUME NEW v \in Variables, version'[v] # written'[v] PROVE v \in Named(dirty)
  BY <1>3, <1>7 DEF Writes
<1> QED BY <1>4, <1>5, <1>6, <1>7 DEF Writes

\* Roots are registered while nothing was sent.
LEMMA AdmitKeepsWrites ==
    ASSUME Inv, ~ledger.begun, NEW roots \in RootLists, dirty' = Admit(dirty, roots),
           UNCHANGED <<ledger, version, exported, written, sent>>
    PROVE  Writes'
<1>0. /\ dirty \in Seq(Roots) /\ OneSpelling(dirty) /\ ledger = NoLedger /\ Writes
      /\ sent \in [Variables -> Nat]
  BY DEF Inv, Typed, ScopeTyped, TruthTyped, Ledgers
<1>1. dirty' \in Seq(Roots) /\ Named(dirty)' = Named(dirty) \cup Named(roots)
  BY <1>0, AdmitFacts DEF Named
<1>2. \A i \in 1 .. Len(dirty') : dirty'[i] \in Roots
  BY <1>1, NamedIs
<1>3. \A i \in 1 .. Len(dirty') : PhaseHolds(dirty[i])'
  <2> SUFFICES ASSUME NEW i \in 1 .. Len(dirty') PROVE PhaseHolds(dirty[i])'
    OBVIOUS
  <2>1. dirty'[i] \in Roots /\ Casefold[dirty'[i]] \in Variables
    BY <1>2 DEF Variables
  <2>2. ledger'.phase[dirty'[i]] = "unattempted" /\ sent'[Casefold[dirty'[i]]] = 0
    BY <1>0, <2>1, NoLedgerIsTyped DEF Writes
  <2> QED BY <2>2 DEF PhaseHolds
<1> QED BY <1>0, <1>1, <1>3 DEF Writes

LEMMA ReopenUnsent ==
    ASSUME Inv, RollbackEnds, ledger' # ledger
    PROVE  \A v \in Variables : sent[v] = 0
<1>0. /\ dirty \in Seq(Roots) /\ Writes /\ ledger.roots = dirty /\ Unmodified(ledger)
  BY ReopenFacts DEF Inv, Typed, ScopeTyped, Ledgers
<1>1. ToSet(dirty) = {dirty[i] : i \in 1 .. Len(dirty)}
      /\ Named(dirty) = {Casefold[dirty[i]] : i \in 1 .. Len(dirty)}
  BY <1>0, NamedIs
<1>2. ASSUME NEW i \in 1 .. Len(dirty) PROVE sent[Casefold[dirty[i]]] = 0
  <2>1. ledger.phase[dirty[i]] \in {"unattempted", "export_failed"}
    BY <1>0, <1>1 DEF Unmodified, PhasesOf
  <2> QED BY <1>0, <2>1 DEF Writes, PhaseHolds, BeforeSent
<1>3. \A v \in Named(dirty) : sent[v] = 0
  BY <1>1, <1>2
<1> QED BY <1>0, <1>3 DEF Writes

LEMMA NextWrites == ASSUME Inv, Typed', Next PROVE Writes'
<1>0. /\ Typed /\ Writes /\ Ledgers /\ worker \in WorkerType /\ dirty \in Seq(Roots) /\ OneSpelling(dirty)
      /\ cell \in RootLists /\ job.roots \in RootLists /\ ledger \in LedgerType /\ ScopeTyped
      /\ version \in [Variables -> Nat] /\ exported \in [Variables -> Nat]
      /\ written \in [Variables -> Nat] /\ sent \in [Variables -> Nat]
      /\ Len(dirty) \in Nat /\ \A i \in 1 .. Len(dirty) : dirty[i] \in Roots
  BY NamedIs DEF Inv, Typed, ArbiterTyped, AttemptsTyped, ScopeTyped, TruthTyped
<1>1. ASSUME UNCHANGED <<dirty, ledger, version, exported, written, sent>> PROVE Writes'
  BY <1>0, <1>1 DEF Writes, PhaseHolds, Named
<1>2. CASE CellStep \/ AttemptStep \/ SubmitStep \/ ArbiterStep
  <2>1. CASE CellAdmitsRoots
    <3>1. ~ledger.begun /\ dirty' = Admit(dirty, cell)
          /\ UNCHANGED <<ledger, version, exported, written, sent>>
      BY <2>1 DEF CellAdmitsRoots
    <3> QED BY <1>0, <3>1, AdmitKeepsWrites
  <2>2. CASE RollbackEnds /\ ledger' # ledger
    <3>1. /\ ledger' = NoLedger /\ ledger.begun /\ Unmodified(ledger)
          /\ UNCHANGED <<dirty, version, exported, written, sent>>
      BY <2>2, ReopenFacts DEF RollbackEnds
    <3>3. \A v \in Variables : sent[v] = 0
      BY <2>2, ReopenUnsent
    <3>2. \A i \in 1 .. Len(dirty) : Casefold[dirty[i]] \in Variables
      BY <1>0 DEF Variables
    <3>4. \A i \in 1 .. Len(dirty) : PhaseHolds(dirty[i])'
      <4> SUFFICES ASSUME NEW i \in 1 .. Len(dirty) PROVE PhaseHolds(dirty[i])'
        OBVIOUS
      <4>1. ledger'.phase[dirty'[i]] = "unattempted" /\ sent'[Casefold[dirty'[i]]] = 0
        BY <1>0, <3>1, <3>2, <3>3, NoLedgerIsTyped
      <4> QED BY <4>1 DEF PhaseHolds
    <3> QED BY <1>0, <3>1, <3>3, <3>4 DEF Writes, Named
  <2>3. CASE \E changed \in SUBSET Named(cell) : CellRuns(changed)
    <3>1. PICK changed \in SUBSET Named(cell) : CellRuns(changed)
      BY <2>3
    <3>2. /\ active = "cell" /\ worker.step = "run"
          /\ UNCHANGED <<dirty, ledger, exported, written, sent>>
          /\ version' = [v \in Variables |-> IF v \in changed THEN version[v] + 1 ELSE version[v]]
      BY <3>1 DEF CellRuns
    <3>3. ledger = NoLedger /\ Named(cell) \subseteq Named(dirty)
      BY <1>0, <3>2 DEF Ledgers
    <3>4. \A i \in 1 .. Len(dirty) : PhaseHolds(dirty[i])'
      <4> SUFFICES ASSUME NEW i \in 1 .. Len(dirty) PROVE PhaseHolds(dirty[i])'
        OBVIOUS
      <4>1. ledger.phase[dirty[i]] = "unattempted"
        BY <1>0, <3>3, NoLedgerIsTyped
      <4>2. sent[Casefold[dirty[i]]] = 0
        BY <1>0, <4>1 DEF Writes, PhaseHolds, BeforeSent
      <4> QED BY <3>2, <4>1, <4>2 DEF PhaseHolds
    <3>5. \A v \in Variables : version'[v] # written[v] => v \in Named(dirty)
      BY <1>0, <3>2, <3>3 DEF Writes
    <3> QED BY <1>0, <3>2, <3>4, <3>5 DEF Writes, Named
  <2> QED BY <1>1, <1>2, <2>1, <2>2, <2>3, ScopeFrame
<1>3. CASE ResumeAdmitsRoots
  <2>1. /\ dirty' = (IF ledger.begun THEN dirty ELSE Admit(dirty, job.roots))
        /\ UNCHANGED <<ledger, version, exported, written, sent>>
    BY <1>3 DEF ResumeAdmitsRoots, planFrame
  <2> QED BY <1>0, <1>1, <2>1, AdmitKeepsWrites
<1>4. CASE Rearmed \/ RearmFails \/ ReleaseStep
  <2>1. UNCHANGED <<dirty, ledger, version, exported, written, sent>>
    BY <1>4 DEF Rearmed, RearmFails, RearmFrame, planFrame, ReleaseStep, ScopeEnds, ScopeEndFails,
           ContinueEnters, ContinueRefused, ContinueAcknowledged, ContinueLost, ScopeCloses,
           ResumeReturns, ReleaseFrame
  <2> QED BY <1>1, <2>1
<1>5. CASE LedgerBegins
  <2>1. /\ UNCHANGED <<dirty, version, exported, written, sent>>
        /\ ledger' = IF ledger.begun THEN ledger
                     ELSE [begun |-> TRUE, roots |-> dirty, phase |-> NoLedger.phase]
    BY <1>5 DEF LedgerBegins, planFrame
  <2>2. ledger'.phase = ledger.phase /\ ledger'.begun
    BY <1>0, <2>1 DEF Ledgers
  <2> QED BY <1>0, <2>1, <2>2 DEF Writes, PhaseHolds, Named
<1>6. CASE FlushStep
  <2>0. /\ ledger.begun /\ UNCHANGED <<dirty, version>>
    <3>1. worker.step \in Flushing /\ active = "resume" /\ FlushFrame
      BY <1>6 DEF FlushStep, ExportEnters, ExportRaises, ExportReturns, ExportFails, ModifyEnters,
             ModifyRefused, ModifyReturns, ModifyFails, ModifyLost, FlushEnds, At, AtRoot, Flushing, Releasing
    <3> QED BY <1>0, <3>1 DEF Ledgers, FlushFrame, planFrame
  <2> DEFINE r == NextRoot
             v == NextVariable
             was == ledger.phase[r]
  <2>1. ASSUME Unwritten # {}
        PROVE  /\ v \in Variables
               /\ was \in {"exported", "modify_sent"} => exported[v] = version[v]
               /\ was \in BeforeSent => sent[v] = 0
               /\ sent[v] # 0 => sent[v] = 1
    <3>1. PICK n \in 1 .. Len(dirty) : r = dirty[n]
      BY <1>0, <2>0, <2>1, NextRootFacts DEF Ledgers
    <3>2. PhaseHolds(r) /\ v = Casefold[r] /\ v \in Variables
      BY <1>0, <2>1, <3>1, NextRootFacts DEF Writes
    <3> QED BY <1>0, <3>2 DEF PhaseHolds, Writes
  <2>2. CASE ModifyRefused \/ FlushEnds
    <3>1. UNCHANGED <<ledger, exported, written, sent>>
      BY <2>2 DEF ModifyRefused, FlushEnds
    <3> QED BY <1>1, <2>0, <3>1
  <2>3. CASE ExportEnters \/ ExportFails
    <3>1. /\ Unwritten # {} /\ was \in BeforeSent /\ UNCHANGED <<exported, written, sent>>
          /\ \E p \in {"export_pending", "export_failed"} : SetPhase(p)
      BY <2>3 DEF ExportEnters, ExportFails, AtRoot, BeforeSent
    <3> QED BY <1>0, <2>0, <2>1, <3>1, FlushKeepsWrites DEF RootPhases
  <2>4. CASE ExportRaises
    <3>1. /\ Unwritten # {} /\ UNCHANGED <<exported, written, sent>> /\ SetPhase("unknown")
      BY <2>4 DEF ExportRaises, AtRoot
    <3> QED BY <1>0, <2>0, <2>1, <3>1, FlushKeepsWrites DEF RootPhases, BeforeSent
  <2>5. CASE ExportReturns
    <3>1. /\ Unwritten # {} /\ was \in BeforeSent /\ UNCHANGED <<written, sent>> /\ SetPhase("exported")
          /\ exported' = [exported EXCEPT ![v] = version[v]]
      BY <2>5 DEF ExportReturns, AtRoot, BeforeSent
    <3>2. /\ exported'[v] = version[v] /\ \A u \in Variables : u # v => exported'[u] = exported[u]
          /\ v \in Variables
      BY <1>0, <2>1, <3>1
    <3> QED BY <1>0, <2>0, <2>1, <3>1, <3>2, FlushKeepsWrites DEF RootPhases
  <2>6. CASE ModifyEnters
    <3>1. /\ Unwritten # {} /\ was = "exported" /\ UNCHANGED <<exported, written>> /\ SetPhase("modify_sent")
          /\ sent' = [sent EXCEPT ![v] = sent[v] + 1]
      BY <2>6 DEF ModifyEnters, AtRoot
    <3>2. /\ sent'[v] = 1 /\ \A u \in Variables : u # v => sent'[u] = sent[u]
          /\ exported[v] = version[v]
      BY <1>0, <2>1, <3>1 DEF BeforeSent
    <3> QED BY <1>0, <2>0, <2>1, <3>1, <3>2, FlushKeepsWrites DEF RootPhases, BeforeSent
  <2>7. CASE ModifyReturns
    <3>1. /\ Unwritten # {} /\ was = "modify_sent" /\ UNCHANGED <<exported, sent>> /\ SetPhase("succeeded")
          /\ written' = [written EXCEPT ![v] = exported[v]]
      BY <2>7 DEF ModifyReturns, AtRoot
    <3>2. /\ written'[v] = version[v] /\ \A u \in Variables : u # v => written'[u] = written[u]
      BY <1>0, <2>1, <3>1
    <3> QED BY <1>0, <2>0, <2>1, <3>1, <3>2, FlushKeepsWrites DEF RootPhases, BeforeSent
  <2>8. CASE ModifyFails
    <3>1. /\ Unwritten # {} /\ UNCHANGED <<exported, written, sent>> /\ SetPhase("modify_failed")
      BY <2>8 DEF ModifyFails, AtRoot
    <3> QED BY <1>0, <2>0, <2>1, <3>1, FlushKeepsWrites DEF RootPhases, BeforeSent
  <2>9. CASE ModifyLost
    <3>1. /\ Unwritten # {} /\ UNCHANGED <<exported, sent>> /\ SetPhase("unknown")
          /\ written' = written \/ written' = [written EXCEPT ![v] = exported[v]]
      BY <2>9 DEF ModifyLost, AtRoot
    <3>2. \A u \in Variables : u # v => written'[u] = written[u]
      BY <1>0, <2>1, <3>1
    <3> QED BY <1>0, <2>0, <2>1, <3>1, <3>2, FlushKeepsWrites DEF RootPhases, BeforeSent
  <2> QED BY <1>6, <2>2, <2>3, <2>4, <2>5, <2>6, <2>7, <2>8, <2>9 DEF FlushStep
<1> QED BY <1>2, <1>3, <1>4, <1>5, <1>6, NextSteps DEF PlanStep

-----------------------------------------------------------------------------
(* Continue, and what an attempt is told of it.                            *)

\* A flushed ledger is ready: nothing of it is retried or rolled back.
LEMMA FlushedIsReady ==
    ASSUME Typed, Ledgers, Flushed
    PROVE  Disposition(ledger) = "ready"
<1>1. /\ dirty \in Seq(Roots) /\ ledger.roots = dirty
  BY DEF Typed, ScopeTyped, Ledgers, Flushed
<1>2. ToSet(dirty) = {dirty[i] : i \in 1 .. Len(dirty)}
  BY <1>1, NamedIs
<1>3. PhasesOf(ledger) \subseteq {"succeeded"}
  BY <1>1, <1>2 DEF PhasesOf, Flushed
<1> QED BY <1>3 DEF Disposition

\* The steps of the plan before its flush ended.
LEMMA EarlySteps ==
    ASSUME Typed, PlanStep, ~FlushEnds, ~ReleaseStep
    PROVE  /\ worker.step \notin Releasing /\ worker'.step \notin Releasing
           /\ UNCHANGED <<main, context, continues>>
<1>0. worker \in WorkerType
  BY DEF Typed, ArbiterTyped
<1>1. /\ worker.step \in {"admit", "rearm", "ledger", "flush", "export", "modify"}
      /\ UNCHANGED <<main, context, continues>>
  BY DEF PlanStep, ResumeAdmitsRoots, Rearmed, RearmFails, RearmFrame, LedgerBegins, FlushStep,
         ExportEnters, ExportRaises, ExportReturns, ExportFails, ModifyEnters, ModifyRefused,
         ModifyReturns, ModifyFails, ModifyLost, FlushEnds, FlushFrame, planFrame, At, AtRoot
<1>2. worker'.step \in {worker.step, "none", "ledger", "rearm", "flush", "export", "modify"}
  BY <1>0, PlanSteps DEF ReleaseStep
<1> QED BY <1>1, <1>2 DEF Releasing

\* What a step of the plan that is not early does.
LEMMA FlushEndsFacts ==
    ASSUME Inv, FlushEnds
    PROVE  Flushed /\ worker.step = "flush" /\ UNCHANGED <<main, context, ledger, dirty, continues>>
<1>1. At("flush") /\ Unwritten = {} /\ UNCHANGED <<main, context, ledger, dirty, continues>>
  BY DEF FlushEnds, FlushFrame, planFrame
<1>2. ledger.begun /\ ledger.roots = dirty
  BY <1>1 DEF Inv, Ledgers, At, Flushing
<1>3. \A i \in 1 .. Len(dirty) : ledger.phase[dirty[i]] = "succeeded"
  BY <1>1, <1>2 DEF Unwritten
<1> QED BY <1>1, <1>2, <1>3 DEF Flushed, At

LEMMA NextContinues == ASSUME Inv, Typed', Next PROVE Continues'
<1>0. /\ Typed /\ Mailbox /\ Ledgers /\ Continues /\ Jobs /\ worker \in WorkerType
      /\ job.attempt \in 0 .. Len(attempts)
  BY DEF Inv, Typed, ArbiterTyped, AttemptsTyped
<1>00. PlanStep \/ CellStep \/ AttemptStep \/ ArbiterStep => (ResumeInFlight' => ResumeInFlight)
  BY <1>0, ResumeNotMade
<1>1. CASE CellStep
  <2>1. /\ UNCHANGED <<main, context, ledger, continues, job>>
        /\ active' = "resume" => active = "resume" /\ worker' = worker
        /\ active = "resume" => active' = "resume"
        /\ dirty' = dirty \/ ~ledger.begun
    BY <1>1 DEF CellStep, SubmitCell, CellAdmitsRoots, CellRefused, CellRuns, CellDropped,
                CellReconciled, CellSettles, ObserveCellSettled, WorkerFreed
  <2>3. Flushed => Flushed'
    BY <2>1 DEF Flushed
  <2>4. Waiting("resume")' => Waiting("resume")
    <3>1. queue' = queue \/ queue' = Append(queue, "cell")
      BY <1>1 DEF CellStep, SubmitCell, CellAdmitsRoots, CellRefused, CellRuns, CellDropped,
                CellReconciled, CellSettles, ObserveCellSettled
    <3> QED BY <1>0, <3>1 DEF Typed, ArbiterTyped, Waiting, ToSet
  <2> QED BY <1>0, <1>1, <1>00, <2>1, <2>3, <2>4 DEF Continues
<1>2. CASE SubmitStep
  <2>1. PICK a, roots, points : Resume(a, roots, points)
    BY <1>0, <1>2, SubmitFacts
  <2>2. /\ UNCHANGED <<main, context, ledger, dirty, active, worker, continues>> /\ ~ResumeInFlight
        /\ main = "suspended_capture"
    BY <2>1 DEF Resume, Stopped
  <2> QED BY <1>0, <2>2 DEF Continues, ResumeInFlight
<1>3. CASE AttemptStep
  <2>1. /\ UNCHANGED <<main, context, dirty, continues, job>>
        /\ active' = "resume" => active = "resume" /\ worker' = worker
        /\ active = "resume" => active' = "resume"
        /\ queue' = queue \/ queue' = Append(queue, "restore")
    BY <1>3 DEF AttemptStep, BeginAdmission, Commit, Quarantine, RollbackUnused, RollbackBegins,
              RollbackRaises, RollbackEnds, RestoreInstalled, RestoreDropped, RestoreLost,
              RestoreRunning, WorkerFreed
  <2>2. Waiting("resume")' => Waiting("resume")
    BY <1>0, <2>1 DEF Typed, ArbiterTyped, Waiting, ToSet
  <2>3. CASE ledger' = ledger
    <3>1. Flushed => Flushed'
      BY <2>1, <2>3 DEF Flushed
    <3> QED BY <1>0, <1>3, <1>00, <2>1, <2>2, <3>1 DEF Continues
  <2>4. CASE ledger' # ledger
    <3>1. RollbackEnds
      BY <1>3, <2>4, ScopeFrame
    <3>2. ~ResumeInFlight /\ Disposition(ledger) = "paused_export_failed"
      BY <2>4, <3>1, ReopenFacts
    <3>3. ~Flushed
      BY <1>0, <3>2, FlushedIsReady
    <3> QED BY <1>0, <1>3, <1>00, <2>1, <2>2, <3>2, <3>3 DEF Continues, ResumeInFlight
  <2> QED BY <2>3, <2>4
<1>4. CASE ArbiterStep
  <2>1. UNCHANGED <<ledger, dirty, continues>>
    BY <1>4 DEF ArbiterStep, TakeTicket, StopQueued, StopActive, TargetLost
  <2>2. Flushed => Flushed'
    BY <2>1 DEF Flushed
  <2>3. CASE TakeTicket
    <3>1. /\ active = "none" /\ queue # <<>> /\ active' = Head(queue) /\ queue' = Tail(queue)
          /\ UNCHANGED <<main, context>> /\ worker'.step = "admit"
      BY <2>3 DEF TakeTicket, IdleWorker
    <3>2. ToSet(queue)' = ToSet(queue) \ {Head(queue)} /\ Head(queue) \in ToSet(queue)
      BY <1>0, <3>1, TailDistinct DEF Typed, ArbiterTyped, Mailbox
    <3>3. worker'.step \notin Releasing /\ worker'.step \notin Continued
      BY <3>1 DEF Releasing, Continued
    <3> QED BY <1>0, <1>4, <1>00, <2>1, <2>2, <3>1, <3>2, <3>3 DEF Continues, Waiting
  <2>4. CASE StopQueued("cell") \/ StopQueued("resume")
    <3>1. PICK i \in 1 .. Len(queue) : queue' = RemoveAt(queue, i)
      BY <2>4 DEF StopQueued
    <3>2. /\ UNCHANGED <<main, context, active, worker>> /\ (job' = job \/ Waiting("resume"))
      BY <2>4 DEF StopQueued, Cancelled, Waiting, ToSet
    <3>3. i \in DOMAIN queue /\ queue \in Seq({"cell", "resume", "restore"})
      BY <1>0 DEF Typed, ArbiterTyped
    <3>4. Waiting("resume")' => Waiting("resume")
      BY <1>0, <3>1, <3>3, RemoveAtDistinct DEF Mailbox, Waiting
    <3> QED BY <1>0, <1>4, <1>00, <2>1, <2>2, <3>2, <3>4 DEF Continues, Mailbox
  <2>5. CASE StopActive
    <3>1. /\ UNCHANGED <<main, context, active>> /\ worker'.step = worker.step /\ queue' = <<>>
          /\ job' = job \/ Waiting("resume")
      BY <1>0, <2>5 DEF StopActive, Cancelled, Waiting, WorkerType
    <3>2. ~Waiting("resume")'
      BY <3>1 DEF Waiting, ToSet
    <3> QED BY <1>0, <1>4, <1>00, <2>1, <2>2, <3>1, <3>2 DEF Continues, Mailbox
  <2>6. CASE TargetLost
    <3>1. main' = "lost" /\ context' = "closed" /\ active' = "none" /\ queue' = <<>>
      BY <2>6 DEF TargetLost
    <3>2. ~Waiting("resume")'
      BY <3>1 DEF Waiting, ToSet
    <3> QED BY <1>0, <2>1, <2>2, <3>1, <3>2 DEF Continues, ResumeInFlight, Waiting
  <2> QED BY <1>4, <2>3, <2>4, <2>5, <2>6 DEF ArbiterStep
<1>5. CASE PlanStep
  <2>1. /\ active = "resume" /\ queue' = queue
        /\ active' = "none" \/ (active' = "resume" /\ job' = job)
    BY <1>0, <1>5, PlanStepMoves DEF PlanMoves, Planning, Goes, Settles
  <2>2. ~Waiting("resume")' /\ main # "lost"
    BY <1>0, <2>1 DEF Mailbox, Waiting, Continues, ResumeInFlight
  <2>3. CASE ~FlushEnds /\ ~ReleaseStep
    <3>1. /\ worker.step \notin Releasing /\ worker'.step \notin Releasing
          /\ UNCHANGED <<main, context, continues>>
      BY <1>0, <1>5, <2>3, EarlySteps
    <3>2. continues = <<>>
      BY <1>0, <2>1, <3>1 DEF Continues, Releasing, Continued
    <3> QED BY <1>0, <2>2, <3>1, <3>2 DEF Continues, Releasing, Continued
  <2>4. CASE FlushEnds
    <3>1. Flushed /\ worker.step = "flush" /\ UNCHANGED <<main, context, ledger, dirty, continues>>
      BY <2>4, FlushEndsFacts
    <3>2. Flushed' /\ continues = <<>>
      BY <1>0, <2>1, <3>1 DEF Flushed, Continues, Continued
    <3>3. worker'.step = "end"
      BY <1>0, <2>4, StepGoes DEF FlushEnds
    <3> QED BY <1>0, <2>2, <3>1, <3>2, <3>3 DEF Continues, Continued
  <2>5. CASE ReleaseStep
    <3>0. UNCHANGED <<ledger, dirty>>
      BY <2>5 DEF ReleaseStep, ScopeEnds, ScopeEndFails, ContinueEnters, ContinueRefused,
                  ContinueAcknowledged, ContinueLost, ScopeCloses, ResumeReturns, ReleaseFrame
    <3>1. worker.step \in Releasing
      BY <2>5 DEF ReleaseStep, ScopeEnds, ScopeEndFails, ContinueEnters, ContinueRefused,
                  ContinueAcknowledged, ContinueLost, ScopeCloses, ResumeReturns, At, Releasing
    <3>2. Flushed /\ Flushed'
      BY <1>0, <2>1, <3>0, <3>1 DEF Continues, Flushed
    <3>3. CASE ScopeEnds \/ ScopeEndFails \/ ContinueRefused
      <4>1. worker.step \in {"end", "continue"} /\ UNCHANGED <<main, context, continues>>
        BY <3>3 DEF ScopeEnds, ScopeEndFails, ContinueRefused, ReleaseFrame, At
      <4>2. worker'.step \in {"end", "continue", "none"}
        BY <1>0, <3>3, <4>1, Stays, StepGoes DEF ScopeEnds, ScopeEndFails, ContinueRefused
      <4>3. continues = <<>>
        BY <1>0, <2>1, <4>1 DEF Continues, Continued
      <4> QED BY <1>0, <2>2, <3>2, <4>1, <4>2, <4>3 DEF Continues, Continued
    <3>4. CASE ContinueEnters
      <4>1. /\ worker.step = "continue" /\ main' = "unknown" /\ job' = job
            /\ continues' = Append(continues, job.attempt)
        BY <3>4 DEF ContinueEnters, At
      <4>2. worker'.step = "acknowledge"
        BY <1>0, <3>4, StepGoes DEF ContinueEnters
      <4>3. continues = <<>>
        BY <1>0, <2>1, <4>1 DEF Continues, Continued
      <4>4. continues' = <<job'.attempt>> /\ Len(continues') = 1 /\ continues' # <<>>
        BY <4>1, <4>3
      <4> QED BY <2>2, <3>2, <4>1, <4>2, <4>4 DEF Continues, Continued
    <3>5. CASE ContinueAcknowledged \/ ContinueLost \/ ScopeCloses
      <4>1. /\ worker.step \in Continued /\ continues' = continues /\ job' = job
            /\ main' \in {main, "running"}
        BY <3>5 DEF ContinueAcknowledged, ContinueLost, ScopeCloses, ReleaseFrame, At, Continued
      <4>2. worker'.step \in Continued
        BY <1>0, <3>5, <4>1, StepGoes DEF ContinueAcknowledged, ContinueLost, ScopeCloses, WorkerType, Continued
      <4>3. continues = <<job.attempt>> /\ main # "suspended_capture" /\ Len(continues) = 1 /\ continues # <<>>
        BY <1>0, <2>1, <4>1 DEF Continues
      <4>4. main # "lost"
        BY <1>0, <2>1 DEF Continues, ResumeInFlight
      <4> QED BY <1>0, <2>2, <3>2, <4>1, <4>2, <4>3, <4>4 DEF Continues
    <3>6. CASE \E outcome \in {"value", "error"} : ResumeReturns(outcome)
      <4>1. /\ worker.step = "await" /\ active' = "none" /\ UNCHANGED <<main, context, continues>>
        BY <3>6 DEF ResumeReturns, WorkerFreed, ReleaseFrame, At
      <4> QED BY <1>0, <2>2, <3>2, <4>1 DEF Continues
    <3> QED BY <2>5, <3>3, <3>4, <3>5, <3>6 DEF ReleaseStep
  <2> QED BY <2>3, <2>4, <2>5
<1> QED BY <1>1, <1>2, <1>3, <1>4, <1>5, NextSteps

LEMMA NextContinueTold == ASSUME Inv, Typed', Next PROVE ContinueTold'
<1>0. /\ Typed /\ Mailbox /\ Continues /\ ContinueTold /\ worker \in WorkerType /\ Jobs
      /\ attempts \in Seq(Attempts) /\ Len(attempts) \in Nat /\ job.attempt \in 0 .. Len(attempts)
      /\ \A b \in 1 .. Len(attempts) : attempts[b] \in Attempts
  BY DEF Inv, Typed, ArbiterTyped, AttemptsTyped
<1>1. ToSet(<<>>) = {} /\ \A x : ToSet(<<x>>) = {x}
  BY DEF ToSet
<1>2. ASSUME continues' = continues, Len(attempts') = Len(attempts),
             \A b \in 1 .. Len(attempts) : attempts'[b].continueState = attempts[b].continueState,
             Planning /\ worker.step = "acknowledge" =>
                Planning' /\ worker'.step = "acknowledge" /\ job'.attempt = job.attempt
      PROVE  ContinueTold'
  BY <1>0, <1>2 DEF ContinueTold
<1>3. CASE CellStep
  <2>1. /\ UNCHANGED <<continues, attempts, job>>
        /\ active = "resume" => active' = "resume" /\ worker' = worker
    BY <1>3 DEF CellStep, SubmitCell, CellAdmitsRoots, CellRefused, CellRuns, CellDropped,
                CellReconciled, CellSettles, ObserveCellSettled, WorkerFreed
  <2> QED BY <1>2, <2>1 DEF Planning
<1>4. CASE SubmitStep
  <2>1. PICK a \in 0 .. Len(attempts), roots \in RootLists, points \in PointSets \cup {NoPoints} :
           /\ Resume(a, roots, points) /\ AttemptsKept
           /\ \A b \in 1 .. Len(attempts) : b # a => attempts'[b] = attempts[b]
           /\ a # 0 => attempts'[a].continueState = attempts[a].continueState
    BY <1>0, <1>4, SubmitFacts
  <2>2. continues' = continues /\ ~Planning
    BY <2>1 DEF Resume, ResumeInFlight, Planning
  <2>3. \A b \in 1 .. Len(attempts) : attempts'[b].continueState = attempts[b].continueState
    BY <2>1
  <2> QED BY <1>2, <2>1, <2>2, <2>3 DEF AttemptsKept
<1>5. CASE AttemptStep
  <2>1. /\ continues' = continues /\ job' = job
        /\ Planning => Planning' /\ worker' = worker
    BY <1>5 DEF AttemptStep, BeginAdmission, Commit, Quarantine, RollbackUnused, RollbackBegins,
              RollbackRaises, RollbackEnds, RestoreInstalled, RestoreDropped, RestoreLost,
              RestoreRunning, WorkerFreed, Planning
  <2>2. CASE CloseStep
    <3>1. /\ AttemptsKept /\ Closes(admission)
          /\ \A b \in 1 .. Len(attempts) : b # admission => attempts'[b] = attempts[b]
      BY <2>2, CloseFacts DEF Inv
    <3>2. \A b \in 1 .. Len(attempts) : attempts'[b].continueState = attempts[b].continueState
      BY <3>1 DEF Closes
    <3> QED BY <1>2, <2>1, <3>1, <3>2 DEF AttemptsKept
  <2>3. CASE \E roots \in RootLists, points \in PointSets : BeginAdmission(roots, points)
    <3>1. continues = <<>>
      BY <1>0, <2>3 DEF BeginAdmission, ConfirmedStop, Stopped, Continues
    <3>2. /\ Len(attempts') = Len(attempts) + 1
          /\ \A b \in 1 .. Len(attempts) : attempts'[b] = attempts[b]
          /\ attempts'[Len(attempts')].continueState = "unattempted"
      BY <1>0, <2>3, BeginFacts
    <3>3. \A a \in 1 .. Len(attempts') : attempts'[a].continueState # "acknowledged"
      BY <1>0, <1>1, <3>1, <3>2 DEF ContinueTold
    <3> QED BY <1>1, <2>1, <3>1, <3>3 DEF ContinueTold
  <2>4. CASE ~CloseStep /\ ~\E roots \in RootLists, points \in PointSets : BeginAdmission(roots, points)
    <3>1. attempts' = attempts
      BY <1>5, <2>4 DEF AttemptStep, CloseStep, RollbackBegins, RollbackRaises, RestoreInstalled,
                        RestoreDropped, RestoreLost
    <3> QED BY <1>2, <2>1, <3>1
  <2> QED BY <2>2, <2>3, <2>4
<1>6. CASE TakeTicket
  <2>1. UNCHANGED <<continues, attempts>> /\ ~Planning
    BY <1>6 DEF TakeTicket, Planning
  <2> QED BY <1>2, <2>1
<1>7. CASE StopQueued("cell") \/ StopQueued("resume") \/ StopActive \/ TargetLost
  <2>1. PICK a \in 0 .. Len(attempts) : TicketOutcome(a, "error")
    BY <1>0, <1>7, CancelFacts
  <2>2. /\ Len(attempts') = Len(attempts)
        /\ \A b \in 1 .. Len(attempts) : attempts'[b].continueState = attempts[b].continueState
    BY <1>0, <2>1, TicketOutcomeFacts DEF AttemptsKept, Outcomes
  <2>3. continues' = continues
    BY <1>7 DEF StopQueued, StopActive, TargetLost
  <2>4. CASE TargetLost
    <3>1. ~Planning
      BY <2>4 DEF TargetLost, Planning
    <3> QED BY <1>2, <2>2, <2>3, <3>1
  <2>5. CASE StopQueued("cell") \/ StopQueued("resume") \/ StopActive
    <3>1. job' = job \/ Waiting("resume")
      BY <2>5 DEF StopQueued, StopActive, Cancelled, Waiting, ToSet
    <3>2. active' = active /\ worker'.phase = worker.phase /\ worker'.step = worker.step
      BY <1>0, <2>5 DEF StopQueued, StopActive, WorkerType
    <3> QED BY <1>0, <1>2, <2>2, <2>3, <3>1, <3>2 DEF Mailbox, Planning
  <2> QED BY <1>7, <2>4, <2>5
<1>8. CASE PlanStep
  <2>0. active = "resume" /\ Planning
    BY <1>0, <1>8, PlanStepMoves DEF PlanMoves, Planning
  <2>1. CASE ContinueEnters
    <3>1. /\ worker.step = "continue" /\ continues' = Append(continues, job.attempt)
          /\ UNCHANGED <<attempts, job, active>>
      BY <2>1 DEF ContinueEnters, At
    <3>2. worker'.step = "acknowledge" /\ worker'.phase = worker.phase
      BY <1>0, <2>1, StepGoes DEF ContinueEnters
    <3>3. continues = <<>>
      BY <1>0, <2>0, <3>1 DEF Continues, Continued
    <3>4. ToSet(continues)' = {job.attempt}
      BY <1>1, <3>1, <3>3
    <3> QED BY <1>0, <1>1, <2>0, <3>1, <3>2, <3>3, <3>4 DEF ContinueTold, Planning
  <2>2. CASE ContinueAcknowledged \/ ContinueLost
    <3>1. PICK s \in {"acknowledged", "outcome_unknown"} : ContinueState(s)
      BY <2>2 DEF ContinueAcknowledged, ContinueLost
    <3>2. worker.step = "acknowledge" /\ continues' = continues
      BY <2>2 DEF ContinueAcknowledged, ContinueLost, At
    <3>3. ToSet(continues)' = {job.attempt}
      BY <1>0, <1>1, <2>0, <3>2 DEF Continues, Continued
    <3>4. /\ Len(attempts') = Len(attempts)
          /\ \A b \in 1 .. Len(attempts) : b # job.attempt => attempts'[b] = attempts[b]
          /\ job.attempt # 0 => attempts'[job.attempt].continueState = s
      BY <1>0, <3>1, ContinueStateFacts DEF AttemptsKept, ContinueStates
    <3> QED BY <1>0, <3>2, <3>3, <3>4 DEF ContinueTold
  <2>3. CASE ScopeEnds
    <3>1. worker.step = "end" /\ continues' = continues /\ ContinueState("planned")
      BY <2>3 DEF ScopeEnds, ReleaseFrame, At
    <3>2. continues = <<>>
      BY <1>0, <2>0, <3>1 DEF Continues, Continued
    <3>4. /\ Len(attempts') = Len(attempts)
          /\ \A b \in 1 .. Len(attempts) : b # job.attempt => attempts'[b] = attempts[b]
          /\ job.attempt # 0 => attempts'[job.attempt].continueState = "planned"
      BY <1>0, <3>1, ContinueStateFacts DEF AttemptsKept, ContinueStates
    <3>5. \A a \in 1 .. Len(attempts) : attempts'[a].continueState # "acknowledged"
      BY <1>0, <1>1, <3>2, <3>4 DEF ContinueTold
    <3> QED BY <1>1, <3>1, <3>2, <3>4, <3>5 DEF ContinueTold
  <2>4. CASE ~ContinueEnters /\ ~ContinueAcknowledged /\ ~ContinueLost /\ ~ScopeEnds
    <3>1. /\ continues' = continues /\ worker.step # "acknowledge"
          /\ attempts' = attempts \/ \E o \in {"value", "error"} : TicketOutcome(job.attempt, o)
      BY <1>8, <2>4 DEF PlanStep, ResumeAdmitsRoots, Rearmed, RearmFails, RearmFrame, LedgerBegins, FlushStep,
             ExportEnters, ExportRaises, ExportReturns, ExportFails, ModifyEnters, ModifyRefused,
             ModifyReturns, ModifyFails, ModifyLost, FlushEnds, FlushFrame, ReleaseStep,
             ScopeEndFails, ContinueRefused, ScopeCloses, ResumeReturns, ReleaseFrame, planFrame,
             At, AtRoot, Refused, Fails, Unknown
    <3>2. /\ Len(attempts') = Len(attempts)
          /\ \A b \in 1 .. Len(attempts) : attempts'[b].continueState = attempts[b].continueState
      BY <1>0, <3>1, TicketOutcomeFacts DEF AttemptsKept, Outcomes
    <3> QED BY <1>2, <3>1, <3>2
  <2> QED BY <2>1, <2>2, <2>3, <2>4
<1> QED BY <1>3, <1>4, <1>5, <1>6, <1>7, <1>8, NextSteps DEF ArbiterStep

-----------------------------------------------------------------------------
(* The invariant holds.                                                    *)

LEMMA InitHolds == ASSUME Init PROVE Inv
<1>1. /\ [v \in Variables |-> 0] \in [Variables -> Nat] /\ 0 \in 0 .. MaxCells /\ 0 \in 0 .. MaxResumes
  BY BoundsAssumption
<1>2. NoJob \in [attempt : 0 .. 0, roots : RootLists, points : PointSets \cup {NoPoints}]
  BY NoJobIsTyped
<1>3. ToSet(<<>>) = {} /\ Named(<<>>) = {} /\ Len(<<>>) = 0 /\ 1 .. 0 = {}
  BY DEF ToSet, Named
<1>4. Typed
  <2>1. ScopeTyped
    BY NoLedgerIsTyped DEF Init, ScopeTyped, OneSpelling
  <2>2. ArbiterTyped
    <3>1. resuming \in BOOLEAN /\ evaluating \in BOOLEAN
      BY DEF Init
    <3>2. queue \in Seq({"cell", "resume", "restore"}) /\ active \in {"none", "cell", "resume", "restore"}
      BY DEF Init
    <3>3. worker \in WorkerType /\ cell \in RootLists /\ registry \in PointSets
      BY InitialPointsAssumption, IdleIsWorker, NoJobIsTyped DEF Init
    <3> QED BY <3>1, <3>2, <3>3 DEF ArbiterTyped
  <2>3. AttemptsTyped
    BY <1>2 DEF Init, AttemptsTyped, NoRollback
  <2>4. TruthTyped
    BY <1>1 DEF Init, TruthTyped
  <2> QED BY <2>1, <2>2, <2>3, <2>4 DEF Typed
<1>5. Mailbox /\ Jobs
  BY <1>3, NoJobIsTyped DEF Init, Mailbox, Jobs, Waiting, ResumeInFlight, Distinct
<1>6. Rolling
  BY DEF Init, Rolling, NoRollback
<1>7. Ledgers
  BY NoLedgerIsTyped DEF Init, Ledgers
<1>8. Writes
  BY <1>1 DEF Init, Writes
<1>9. Continues /\ ContinueTold
  BY DEF Init, Continues, ContinueTold
<1> QED BY <1>4, <1>5, <1>6, <1>7, <1>8, <1>9 DEF Inv

LEMMA NextHolds == ASSUME Inv, Next PROVE Inv'
<1>1. Typed'
  BY NextTypes
<1>2. Mailbox'
  BY <1>1, NextMailbox
<1>3. Jobs' /\ Rolling' /\ Ledgers'
  BY <1>1, <1>2, NextJobs, NextRolling, NextLedgers
<1>4. Writes' /\ Continues' /\ ContinueTold'
  BY <1>1, NextWrites, NextContinues, NextContinueTold
<1> QED BY <1>1, <1>2, <1>3, <1>4 DEF Inv

LEMMA StutterHolds == ASSUME Inv, UNCHANGED vars PROVE Inv'
<1>1. Typed' /\ Mailbox' /\ Jobs' /\ Rolling'
  BY DEF Inv, Typed, ScopeTyped, ArbiterTyped, AttemptsTyped, TruthTyped, OneSpelling, Mailbox, Jobs,
         Rolling, Waiting, ResumeInFlight, Distinct
<1>2. Ledgers' /\ Writes'
  BY DEF Inv, Ledgers, Writes, PhaseHolds, Named
<1>3. Continues' /\ ContinueTold'
  BY DEF Inv, Continues, ContinueTold, Flushed, Waiting, ResumeInFlight, Planning
<1> QED BY <1>1, <1>2, <1>3 DEF Inv

LEMMA InvHolds == Spec => []Inv
BY InitHolds, NextHolds, StutterHolds, PTL DEF Spec

-----------------------------------------------------------------------------
(* The properties.                                                         *)

\* Every variable keeps its type, and the dirty roots name no variable twice, whatever the
\* cells, attempts, rollbacks and Stops of one CAPTURE stop (scope.py, controller.py).
THEOREM TypesHold == Spec => []TypeOK
BY InvHolds, TypedIsTypeOK, PTL DEF Inv

\* No variable is sent to the frame twice, not even under another spelling, by a retry or by
\* a ledger that a rollback reopened, and MAIN is continued at most once from this stop and
\* is not offered as a stop afterwards (writeback.py, controller.py).
THEOREM EffectsHappenOnce == Spec => []EffectsOnce
<1>1. ASSUME Inv PROVE EffectsOnce
  <2>1. sent \in [Variables -> Nat] /\ continues \in Seq(0 .. Len(attempts))
    BY <1>1 DEF Inv, Typed, TruthTyped, AttemptsTyped
  <2>2. WriteOnce
    BY <1>1, <2>1 DEF Inv, Writes, WriteOnce
  <2>3. ContinueOnce
    <3>1. CASE continues = <<>>
      BY <3>1 DEF ContinueOnce
    <3>2. CASE continues # <<>>
      <4>1. Len(continues) = 1 /\ main # "suspended_capture"
        BY <1>1, <3>2 DEF Inv, Continues
      <4> QED BY <4>1 DEF ContinueOnce, Stopped
    <3> QED BY <3>1, <3>2
  <2> QED BY <2>2, <2>3 DEF EffectsOnce
<1> QED BY InvHolds, <1>1, PTL

\* Once Continue has entered transport the frame holds the latest value of every variable
\* that a cell changed (CaptureExecutor.flush and end_scope).
THEOREM EveryChangeIsCarried == Spec => []ContinueCarriesEveryChange
<1>1. ASSUME Inv PROVE ContinueCarriesEveryChange
  <2> SUFFICES ASSUME continues # <<>> PROVE written = version
    BY DEF ContinueCarriesEveryChange
  <2>1. /\ Flushed /\ Writes /\ dirty \in Seq(Roots)
        /\ version \in [Variables -> Nat] /\ written \in [Variables -> Nat]
    BY <1>1 DEF Inv, Continues, Typed, ScopeTyped, TruthTyped
  <2>2. Named(dirty) = {Casefold[dirty[i]] : i \in 1 .. Len(dirty)}
    BY <2>1, NamedIs
  <2>3. \A i \in 1 .. Len(dirty) : written[Casefold[dirty[i]]] = version[Casefold[dirty[i]]]
    BY <2>1 DEF Writes, PhaseHolds, Flushed
  <2>4. \A v \in Named(dirty) : written[v] = version[v]
    BY <2>2, <2>3
  <2>5. \A v \in Variables : written[v] = version[v]
    BY <2>1, <2>4 DEF Writes
  <2> QED BY <2>1, <2>5
<1> QED BY InvHolds, <1>1, PTL

\* What continuation_attempt_evidence() tells is never better than the truth, of a root and
\* of Continue (continuation_attempt_evidence in controller.py).
THEOREM EvidenceIsNotOptimistic == Spec => []EvidenceNotOptimistic
<1>1. ASSUME Inv PROVE EvidenceNotOptimistic
  <2>0. /\ Typed /\ Writes /\ Ledgers /\ Jobs /\ ContinueTold /\ attempts \in Seq(Attempts)
        /\ dirty \in Seq(Roots) /\ ledger \in LedgerType /\ sent \in [Variables -> Nat]
    BY <1>1 DEF Inv, Typed, AttemptsTyped, ScopeTyped, TruthTyped
  <2> SUFFICES ASSUME NEW a \in 1 .. Len(attempts)
               PROVE  /\ attempts[a].frozen = <<>> /\ Recorded(a) =>
                            \A r \in ToSet(attempts[a].roots) :
                                /\ RootStatuses(a)[r] = "unattempted" => sent[Casefold[r]] = 0
                                /\ RootStatuses(a)[r] = "succeeded" =>
                                        written[Casefold[r]] = version[Casefold[r]]
                      /\ a \in ToSet(continues) /\ attempts[a].ticket # "live" =>
                            attempts[a].continueState \in {"acknowledged", "outcome_unknown"}
                      /\ attempts[a].continueState = "acknowledged" => a \in ToSet(continues)
    BY DEF EvidenceNotOptimistic
  <2>1. ASSUME attempts[a].frozen = <<>>, Recorded(a), NEW r \in ToSet(attempts[a].roots)
        PROVE  /\ RootStatuses(a)[r] = "unattempted" => sent[Casefold[r]] = 0
               /\ RootStatuses(a)[r] = "succeeded" => written[Casefold[r]] = version[Casefold[r]]
    <3>1. RootStatuses(a)[r] = Status(ledger.phase[r])
      BY <2>1 DEF RootStatuses
    <3>2. attempts[a] \in Attempts
      BY <2>0
    <3>3. attempts[a].roots \in Seq(Roots)
      BY <3>2, ListFacts DEF Attempts
    <3>4. r \in Roots /\ Casefold[r] \in Variables /\ ledger.phase[r] \in RootPhases
      BY <2>0, <2>1, <3>3, NamedIs DEF Variables, LedgerType
    <3>5. CASE ledger.begun
      <4>1. r \in ToSet(dirty)
        BY <2>0, <2>1, <3>5 DEF Recorded, Ledgers
      <4>2. PICK i \in 1 .. Len(dirty) : r = dirty[i]
        BY <2>0, <4>1, NamedIs
      <4>3. PhaseHolds(r)
        BY <2>0, <4>2 DEF Writes
      <4>4. /\ Status(ledger.phase[r]) = "unattempted" => ledger.phase[r] \in BeforeSent
            /\ Status(ledger.phase[r]) = "succeeded" => ledger.phase[r] = "succeeded"
        BY <3>4 DEF Status, BeforeSent, RootPhases
      <4> QED BY <3>1, <4>3, <4>4 DEF PhaseHolds
    <3>6. CASE ~ledger.begun
      <4>1. sent[Casefold[r]] = 0
        BY <2>0, <3>4, <3>6 DEF Writes
      <4>2. ledger.phase[r] = "unattempted"
        BY <2>0, <3>4, <3>6, NoLedgerIsTyped DEF Ledgers
      <4>3. Status(ledger.phase[r]) # "succeeded"
        BY <4>2 DEF Status
      <4> QED BY <3>1, <4>1, <4>3
    <3> QED BY <3>5, <3>6
  <2>2. ASSUME a \in ToSet(continues), attempts[a].ticket # "live"
        PROVE  attempts[a].continueState \in {"acknowledged", "outcome_unknown"}
    BY <2>0, <2>2 DEF ContinueTold, Jobs
  <2>3. attempts[a].continueState = "acknowledged" => a \in ToSet(continues)
    BY <2>0 DEF ContinueTold
  <2> QED BY <2>1, <2>2, <2>3
<1> QED BY InvHolds, <1>1, PTL

\* A rollback reopens the stop only as it was: nothing sent, not continued, the original
\* points back, no resume reserved or in flight, and the evidence kept
\* (ContinuationAdmission.rollback, CaptureScope.reset_failed_continuation_attempt).
THEOREM RollbackRestoresTheStop == Spec => RollbackIsClean
<1> DEFINE Clean ==
       /\ \A v \in Variables : sent[v] = 0
       /\ continues = <<>> /\ Stopped'
       /\ registry' = attempts[admission].original
       /\ ~resuming' /\ admission' = 0 /\ ~ResumeInFlight'
       /\ \E a \in 1 .. Len(attempts) :
             a = admission /\ RootStatuses(a)' = RootStatuses(a)
<1>1. ASSUME Inv, Next, ledger.begun, ~ledger'.begun PROVE Clean
  <2>0. Typed /\ Ledgers /\ Rolling /\ Continues /\ ledger' # ledger
    BY <1>1 DEF Inv
  <2>1. RollbackEnds
    <3>1. ASSUME PlanStep PROVE FALSE
      <4>1. \/ ledger' = ledger \/ ledger' = [begun |-> TRUE, roots |-> dirty, phase |-> NoLedger.phase]
            \/ Unwritten # {} /\ \E p \in RootPhases : SetPhase(p)
        BY <3>1 DEF PlanStep, ResumeAdmitsRoots, Rearmed, RearmFails, RearmFrame, LedgerBegins, FlushStep,
             ExportEnters, ExportRaises, ExportReturns, ExportFails, ModifyEnters,
             ModifyRefused, ModifyReturns, ModifyFails, ModifyLost, FlushEnds, ReleaseStep,
             ScopeEnds, ScopeEndFails, ContinueEnters, ContinueRefused, ContinueAcknowledged,
             ContinueLost, ScopeCloses, ResumeReturns, ReleaseFrame, AtRoot, RootPhases
      <4>2. ASSUME ledger' = [begun |-> TRUE, roots |-> dirty, phase |-> NoLedger.phase] PROVE FALSE
        BY <1>1, <4>2
      <4>3. ASSUME Unwritten # {}, \E p \in RootPhases : SetPhase(p) PROVE FALSE
        BY <1>1, <2>0, <4>3, SetPhaseFacts DEF Typed
      <4> QED BY <2>0, <4>1, <4>2, <4>3
    <3> QED BY <1>1, <2>0, <3>1, NextSteps, ScopeFrame
  <2>2. /\ admission # 0 /\ ~ResumeInFlight /\ context = "ready" /\ admission' = 0 /\ resuming' = FALSE
        /\ registry = attempts[admission].original
        /\ UNCHANGED <<main, context, queue, active, registry>>
        /\ Disposition(ledger) = "paused_export_failed"
    BY <1>1, <2>0, <2>1, ReopenFacts
  <2>3. \A v \in Variables : sent[v] = 0
    BY <1>1, <2>0, <2>1, ReopenUnsent
  <2>4. continues = <<>>
    BY <2>0, <2>2, FlushedIsReady DEF Continues
  <2>5. main = "suspended_capture"
    BY <2>0, <2>2, <2>4 DEF Continues, Typed, ScopeTyped
  <2>6. admission \in 1 .. Len(attempts) /\ attempts'[admission].frozen = <<RootStatuses(admission)>>
    BY <2>0, <2>1, CloseFacts DEF CloseStep
  <2>7. Stopped' /\ ~ResumeInFlight'
    BY <2>2, <2>5 DEF Stopped, ResumeInFlight
  <2>8. \E a \in 1 .. Len(attempts) : a = admission /\ RootStatuses(a)' = RootStatuses(a)
    <3>1. PICK a \in 1 .. Len(attempts) : a = admission
      BY <2>6
    <3>2. attempts'[a].frozen = <<RootStatuses(a)>>
      BY <2>6, <3>1
    <3>3. RootStatuses(a)' = RootStatuses(a)
      BY <3>2 DEF RootStatuses
    <3> QED BY <3>1, <3>3
  <2> QED BY <2>2, <2>3, <2>4, <2>6, <2>7, <2>8
<1>2. ASSUME Inv, [Next]_vars PROVE [ledger.begun /\ ~ledger'.begun => Clean]_vars
  BY <1>1, <1>2
<1> QED BY InvHolds, <1>2, PTL DEF Spec, RollbackIsClean

=============================================================================
