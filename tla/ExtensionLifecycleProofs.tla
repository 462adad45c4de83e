---------------------- MODULE ExtensionLifecycleProofs ----------------------
(***************************************************************************)
(* Proofs about ExtensionLifecycle: type correctness, that the retries of  *)
(* a start fit into its attempts, and that what the marker certifies or a  *)
(* running kernel was admitted on stays installed.                         *)
(***************************************************************************)
EXTENDS ExtensionLifecycle, TLAPS

USE DEF infobase, vars

-----------------------------------------------------------------------------
(* The inductive invariant.                                                *)

\* Every attempt after the first has used up one of the two retries.
Counted(r) ==
    /\ r.attempt = 1 + (IF r.registrationRetry THEN 0 ELSE 1)
                     + (IF r.repairLeft \/ r.manual THEN 0 ELSE 1)
    /\ r.manual => ~r.repairLeft

RetriesCounted ==
    \A k \in Kernels :
        /\ Counted(start[k])
        /\ At(k) # "exceeded"

\* Whoever mutates the extension has removed the marker.
MutatorRemovedMarker == holder # NoKernel => marker = 0

\* The artifact a rollback may bring back.
HasBackup(k) ==
    /\ At(k) \in {"load", "apply", "verify", "rbLoad", "rbApply"}
    /\ start[k].backup # Absent

\* What a mutation knows of the extension: only an older release is replaced, the
\* backup is what it replaces, and its own release is loaded once that was done.
MutationKnows(k) ==
    /\ At(k) \in {"lock", "repair", "inspect", "backup"} => start[k].backup = Absent
    /\ At(k) = "backup" => Older(k, loaded)
    /\ At(k) = "load" => loaded = start[k].backup
    /\ At(k) \in {"apply", "verify", "safe"} => loaded = Released(Bundle[k])
    /\ At(k) \in {"rbLoad", "rbApply"} => HasBackup(k)
    /\ At(k) = "rbLoad" => loaded \in {start[k].backup, Released(Bundle[k])}
    /\ At(k) = "rbApply" => loaded = start[k].backup
    /\ HasBackup(k) => Older(k, start[k].backup)

\* Nothing older than an edited artifact that clients run is ever loaded over it.
Follows(artifact, edited) ==
    \/ artifact = edited
    \/ artifact[2] = "released" /\ artifact[1] > edited[1]

EditedIsReplaced ==
    applied[2] = "edited" =>
        /\ Follows(loaded, applied)
        /\ \A k \in Kernels : HasBackup(k) => Follows(start[k].backup, applied)

AtLeast(v, artifact) == artifact[2] = "released" /\ artifact[1] >= v

\* Release v, or a later one, is loaded for good: every rollback keeps that, and no
\* client can run an edited artifact of that age.
Founded(v) ==
    /\ AtLeast(v, loaded)
    /\ applied[1] >= v => applied[2] = "released"
    /\ \A k \in Kernels : HasBackup(k) => AtLeast(v, start[k].backup)

Installed(v) == Founded(v) /\ applied[1] >= v /\ ~safe

\* What a start has established between its decision and its commit, while others
\* may hold the lock.
StartKnows(k) ==
    /\ At(k) = "commit" => ~start[k].manual
    /\ (~start[k].manual /\ At(k) \in {"launch", "handshake", "commit"}) =>
          /\ Founded(Bundle[k])
          /\ start[k].decision \in {"fast", "probed", "slow"}
          /\ start[k].decision = "slow" => ~safe
          /\ (At(k) = "handshake" /\ start[k].client[1] = Bundle[k]) => applied[1] >= Bundle[k]
          /\ At(k) = "commit" => Installed(Bundle[k])

\* The inductive strengthening of CertifiedHolds.
InstallInv ==
    /\ MutatorRemovedMarker
    /\ \A k \in Kernels : MutationKnows(k) /\ StartKnows(k)
    /\ EditedIsReplaced
    /\ \A v \in Certified : Installed(v)

-----------------------------------------------------------------------------
(* Types and the count of the retries.                                     *)

Attempts ==
    [at : Starting \cup Out \cup {"exceeded"}, manual : BOOLEAN, attempt : 1 .. 4,
     decision : {"none", "fast", "probed", "slow", "manual"},
     registrationRetry : BOOLEAN, repairLeft : BOOLEAN, forced : BOOLEAN,
     backup : Artifacts, client : Artifacts]

TypeInv == TypeOK /\ RetriesCounted

\* The artifacts the actions produce are artifacts.
LEMMA ArtifactFacts ==
    /\ Absent \in Artifacts /\ Foreign \in Artifacts /\ Absent # Foreign
    /\ \A v \in Versions : Released(v) \in Artifacts /\ Released(v) # Absent
    /\ \A k \in Kernels : Bundle[k] \in Versions /\ Bundle[k] \in Nat \ {0}
BY VersionsAssumption, KernelsAssumption DEF Artifacts, Absent, Foreign, Released

\* A start begins with both retries, and a manual one without the repair.
LEMMA NewStartFields ==
    ASSUME NEW place, NEW m \in BOOLEAN
    PROVE  /\ NewStart(place, m).at = place /\ NewStart(place, m).manual = m
           /\ NewStart(place, m).attempt = 1 /\ NewStart(place, m).registrationRetry = TRUE
           /\ NewStart(place, m).repairLeft = ~m
           /\ NewStart(place, m).backup = Absent /\ NewStart(place, m).client = Absent
           /\ NewStart(place, m).decision = "none"
BY Zenon DEF NewStart

LEMMA NewStartType ==
    ASSUME NEW place \in Starting \cup Out, NEW m \in BOOLEAN
    PROVE  /\ NewStart(place, m) \in Attempts
           /\ [NewStart(place, m) EXCEPT !.decision = "fast"] \in Attempts
<1>1. (~m) \in BOOLEAN /\ Absent \in Artifacts
  BY ArtifactFacts
<1>2. NewStart(place, m) \in Attempts
  BY <1>1 DEF NewStart, Attempts
<1> QED BY <1>2 DEF Attempts

LEMMA NewStartCounted ==
    ASSUME NEW place, NEW m \in BOOLEAN
    PROVE  Counted(NewStart(place, m))
<1> DEFINE r == NewStart(place, m)
<1>1. r.attempt = 1 /\ r.registrationRetry
  BY NewStartFields
<1>2. (r.repairLeft \/ r.manual) /\ (r.manual => ~r.repairLeft)
  <2>1. r.repairLeft = ~m /\ r.manual = m
    BY NewStartFields
  <2> QED BY <2>1, Zenon
<1> HIDE DEF r
<1>3. 1 = 1 + (IF r.registrationRetry THEN 0 ELSE 1) + (IF r.repairLeft \/ r.manual THEN 0 ELSE 1)
  BY <1>1, <1>2
<1> QED
  BY <1>1, <1>2, <1>3 DEF Counted, r

\* A step that moves one kernel, and takes or frees the lock as its new place requires.
LEMMA MoveKeepsTypes ==
    ASSUME TypeInv, NEW k \in Kernels, NEW r \in Attempts,
           start' = [start EXCEPT ![k] = r],
           Counted(r), r.at # "exceeded",
           r.at \in Mutating <=> holder' = k,
           holder' \in {holder, k, NoKernel}, holder' # holder => holder \in {k, NoKernel},
           loaded' \in Artifacts, applied' \in Artifacts, safe' \in BOOLEAN,
           marker' \in Versions \cup {0}
    PROVE  TypeInv'
<1>1. start' \in [Kernels -> Attempts]
  BY DEF TypeInv, TypeOK, Attempts
<1>2. \A j \in Kernels : start'[j] = IF j = k THEN r ELSE start[j]
  BY DEF TypeInv, TypeOK
<1>3. \A j \in Kernels : holder' = j <=> start'[j].at \in Mutating
  BY <1>2, KernelsAssumption DEF TypeInv, TypeOK, At
<1>4. RetriesCounted'
  BY <1>2 DEF TypeInv, RetriesCounted, Counted, At
<1> QED
  BY <1>1, <1>3, <1>4 DEF TypeInv, TypeOK, Attempts, At

\* Leaving start() frees the lock.
LEMMA LeaveKeepsTypes ==
    ASSUME TypeInv, NEW k \in Kernels, NEW place \in Out, Leave(k, place),
           loaded' \in Artifacts, applied' \in Artifacts, safe' \in BOOLEAN,
           marker' \in Versions \cup {0}
    PROVE  TypeInv'
<1>1. start[k].manual \in BOOLEAN
  BY DEF TypeInv, TypeOK
<1>2. PICK m \in BOOLEAN : start' = [start EXCEPT ![k] = NewStart(place, m)]
  BY <1>1 DEF Leave
<1> DEFINE r == NewStart(place, m)
<1>3. r \in Attempts /\ Counted(r) /\ r.at = place
  BY NewStartFields, NewStartType, NewStartCounted
<1>4. place \notin Mutating /\ place # "exceeded"
  BY DEF Out, Mutating
<1>5. holder' # k /\ holder' \in {holder, NoKernel} /\ (holder' # holder => holder = k)
  BY KernelsAssumption DEF Leave
<1> HIDE DEF r
<1> QED
  BY <1>2, <1>3, <1>4, <1>5, MoveKeepsTypes DEF r

\* A move to another place of start() without a change of anything else in it.
LEMMA GotoKeepsTypes ==
    ASSUME TypeInv, NEW k \in Kernels, NEW place \in Starting, Goto(k, place),
           place \in Mutating <=> holder' = k,
           holder' \in {holder, k, NoKernel}, holder' # holder => holder \in {k, NoKernel},
           loaded' \in Artifacts, applied' \in Artifacts, safe' \in BOOLEAN,
           marker' \in Versions \cup {0}
    PROVE  TypeInv'
<1> DEFINE r == [start[k] EXCEPT !.at = place]
<1>1. start[k] \in Attempts
  BY DEF TypeInv, TypeOK, Attempts
<1>2. r \in Attempts /\ r.at = place
  BY <1>1 DEF Attempts
<1>3. start' = [start EXCEPT ![k] = r]
  BY DEF Goto
<1>4. Counted(r)
  BY <1>1 DEF Attempts, TypeInv, RetriesCounted, Counted
<1>5. place # "exceeded"
  BY DEF Starting, Mutating
<1> QED
  BY <1>2, <1>3, <1>4, <1>5, MoveKeepsTypes

\* A decision ends the locked section.
LEMMA DecideKeepsTypes ==
    ASSUME TypeInv, NEW k \in Kernels, NEW mode \in {"fast", "probed", "slow", "manual"},
           Decide(k, mode),
           holder' # k, holder' \in {holder, NoKernel}, holder' # holder => holder = k,
           loaded' \in Artifacts, applied' \in Artifacts, safe' \in BOOLEAN,
           marker' \in Versions \cup {0}
    PROVE  TypeInv'
<1> DEFINE r == [start[k] EXCEPT !.at = "launch", !.decision = mode]
<1>1. start[k] \in Attempts
  BY DEF TypeInv, TypeOK, Attempts
<1>2. r \in Attempts /\ r.at = "launch"
  BY <1>1 DEF Attempts, Starting
<1>3. start' = [start EXCEPT ![k] = r]
  BY DEF Decide
<1>4. Counted(r)
  BY <1>1 DEF Attempts, TypeInv, RetriesCounted, Counted
<1>5. r.at \notin Mutating /\ r.at # "exceeded"
  BY <1>2 DEF Mutating
<1> QED
  BY <1>2, <1>3, <1>4, <1>5, MoveKeepsTypes

\* A retry counts the attempt it begins; both retries fit into the limit.
LEMMA RetryKeepsTypes ==
    ASSUME TypeInv, NEW k \in Kernels, NEW place \in {"launch", "repair"}, NEW changed \in Attempts,
           NextAttempt(k, place, changed), At(k) \in {"launch", "handshake"},
           changed.manual = start[k].manual, changed.attempt = start[k].attempt,
           \/ /\ start[k].registrationRetry /\ ~changed.registrationRetry
              /\ changed.repairLeft = start[k].repairLeft
           \/ /\ start[k].repairLeft /\ ~changed.repairLeft
              /\ changed.registrationRetry = start[k].registrationRetry,
           UNCHANGED <<infobase, marker, holder>>
    PROVE  TypeInv'
<1> DEFINE r == [changed EXCEPT !.at = place, !.attempt = @ + 1, !.backup = Absent, !.client = Absent]
<1>1. start[k] \in Attempts /\ changed \in Attempts
  BY DEF TypeInv, TypeOK, Attempts
<1>2. start[k].attempt # AttemptLimit(k) /\ changed.attempt \in 1 .. 2
  BY <1>1 DEF AttemptLimit, Attempts, TypeInv, RetriesCounted, Counted
<1>3. start' = [start EXCEPT ![k] = r]
  BY <1>2 DEF NextAttempt
<1>4. r \in Attempts /\ r.at = place
  <2>1. place \in Starting /\ Absent \in Artifacts /\ changed.attempt + 1 \in 1 .. 4
    BY <1>2, ArtifactFacts DEF Starting
  <2>2. [changed EXCEPT !.at = place, !.attempt = @ + 1] \in Attempts
    BY <1>1, <2>1 DEF Attempts
  <2> QED
    BY <2>1, <2>2 DEF Attempts
<1>5. Counted(r)
  BY <1>1 DEF Attempts, TypeInv, RetriesCounted, Counted
<1>6. r.at \notin Mutating /\ r.at # "exceeded" /\ holder # k
  BY <1>4, KernelsAssumption DEF Mutating, TypeInv, TypeOK
<1> QED
  BY <1>3, <1>4, <1>5, <1>6, MoveKeepsTypes DEF TypeInv, TypeOK

\* Start(k) of RuntimeSession: only the marker is read.
LEMMA StartKeepsTypes ==
    ASSUME TypeInv, NEW k \in Kernels, Start(k) PROVE TypeInv'
<1> DEFINE Fast == [NewStart("launch", FALSE) EXCEPT !.decision = "fast"]
<1>1. /\ NewStart("launch", FALSE) \in Attempts /\ Counted(NewStart("launch", FALSE))
      /\ NewStart("launch", FALSE).at = "launch"
  BY NewStartFields, NewStartType, NewStartCounted DEF Starting
<1>2. Fast \in Attempts /\ Counted(Fast) /\ Fast.at = "launch"
  BY <1>1 DEF Attempts, Counted
<1>3. \A m \in BOOLEAN : /\ NewStart("lock", m) \in Attempts /\ Counted(NewStart("lock", m))
                          /\ NewStart("lock", m).at = "lock"
  BY NewStartFields, NewStartType, NewStartCounted DEF Starting
<1>4. \/ \E m \in BOOLEAN : start' = [start EXCEPT ![k] = NewStart("lock", m)]
      \/ start' = [start EXCEPT ![k] = Fast]
  BY DEF Start
<1> HIDE DEF Fast
<1>5. PICK r \in Attempts : /\ start' = [start EXCEPT ![k] = r]
                            /\ Counted(r) /\ r.at \in {"lock", "launch"}
  BY <1>2, <1>3, <1>4
<1>6. r.at \notin Mutating /\ r.at # "exceeded" /\ holder' # k /\ holder' = holder
  BY <1>5, KernelsAssumption DEF Start, Out, Mutating, TypeInv, TypeOK
<1> QED
  BY <1>5, <1>6, MoveKeepsTypes DEF Start, TypeInv, TypeOK

\* The decision, the mutation session and its rollback.
LEMMA MutationKeepsTypes ==
    ASSUME TypeInv, NEW k \in Kernels,
           \/ Enter(k) \/ EnterManual(k) \/ LockTimesOut(k) \/ Inspect(k) \/ DumpBackup(k)
           \/ Load(k) \/ Apply(k) \/ Verify(k) \/ DisableSafeMode(k)
           \/ RollbackLoad(k) \/ RollbackApply(k)
    PROVE  TypeInv'
<1> USE DEF Fail
<1>0. /\ loaded \in Artifacts /\ applied \in Artifacts /\ safe \in BOOLEAN
      /\ marker \in Versions \cup {0} /\ start[k] \in Attempts
      /\ Bundle[k] \in Versions /\ Released(Bundle[k]) \in Artifacts /\ k # NoKernel
      /\ (holder = k <=> At(k) \in Mutating)
      /\ {"failed", "running", "idle"} \subseteq Out
  BY ArtifactFacts, KernelsAssumption DEF TypeInv, TypeOK, Attempts, Out
<1>01. Mutating \subseteq Starting /\ "lock" \in Starting /\ "lock" \notin Mutating
  BY DEF Starting, Mutating
<1>00. start[k].backup \in Artifacts
  BY <1>0 DEF Attempts
<1>1. CASE Enter(k)
  <2>1. holder # k
    BY <1>1, <1>0 DEF Enter
  <2>2. CASE Decide(k, "fast") /\ UNCHANGED <<marker, holder>>
    BY <1>0, <1>1, <2>1, <2>2, DecideKeepsTypes DEF Enter
  <2>3. CASE Goto(k, "inspect") /\ marker' = 0 /\ holder' = k
    BY <1>0, <1>1, <2>1, <2>3, <1>01, GotoKeepsTypes DEF Enter, Mutating
  <2> QED BY <1>1, <2>2, <2>3 DEF Enter
<1>2. CASE EnterManual(k)
  BY <1>0, <1>2, DecideKeepsTypes DEF EnterManual
<1>3. CASE LockTimesOut(k)
  BY <1>0, <1>3, LeaveKeepsTypes DEF LockTimesOut
<1>4. CASE Inspect(k)
  <2>1. CASE \E place \in {"load", "safe", "backup"} : Goto(k, place) /\ UNCHANGED holder
    BY <1>0, <1>4, <2>1, <1>01, GotoKeepsTypes DEF Inspect, Mutating
  <2>2. CASE Decide(k, "probed") /\ holder' = NoKernel
    BY <1>0, <1>4, <2>2, DecideKeepsTypes DEF Inspect, Mutating
  <2>3. CASE Fail(k)
    BY <1>0, <1>4, <2>3, LeaveKeepsTypes DEF Inspect
  <2> QED BY <1>4, <2>1, <2>2, <2>3 DEF Inspect
<1>5. CASE DumpBackup(k)
  <2>1. CASE start' = [start EXCEPT ![k].at = "load", ![k].backup = loaded] /\ UNCHANGED holder
    <3> DEFINE r == [start[k] EXCEPT !.at = "load", !.backup = loaded]
    <3>0. "load" \in Starting
      BY DEF Starting, Mutating
    <3>1. r \in Attempts /\ r.at = "load"
      BY <1>0, <3>0 DEF Attempts
    <3>2. Counted(r)
      BY <1>0 DEF Attempts, TypeInv, RetriesCounted, Counted
    <3>3. start' = [start EXCEPT ![k] = r]
      BY <2>1
    <3> QED BY <1>0, <1>5, <2>1, <3>1, <3>2, <3>3, MoveKeepsTypes DEF DumpBackup, Mutating
  <2>2. CASE Fail(k)
    BY <1>0, <1>5, <2>2, LeaveKeepsTypes DEF DumpBackup
  <2> QED BY <1>5, <2>1, <2>2 DEF DumpBackup
<1>6. ASSUME NEW place \in Mutating, (Goto(k, place) /\ UNCHANGED holder) \/ Abandon(k) \/ Fail(k),
             At(k) \in Mutating, loaded' \in Artifacts, applied' \in Artifacts, safe' \in BOOLEAN,
             marker' = marker
      PROVE  TypeInv'
  <2>1. CASE \E to \in Mutating : Goto(k, to) /\ UNCHANGED holder
    BY <1>0, <1>01, <1>6, <2>1, GotoKeepsTypes
  <2>2. CASE Fail(k)
    BY <1>0, <1>6, <2>2, LeaveKeepsTypes
  <2> QED BY <1>6, <2>1, <2>2 DEF Abandon, Mutating
<1>7. CASE Load(k)
  BY <1>0, <1>6, <1>7 DEF Load, Mutating
<1>8. CASE Apply(k)
  BY <1>0, <1>6, <1>8 DEF Apply, Mutating
<1>9. CASE Verify(k)
  BY <1>0, <1>6, <1>9 DEF Verify, Mutating
<1>10. CASE DisableSafeMode(k)
  <2>1. CASE Decide(k, "slow") /\ holder' = NoKernel
    BY <1>0, <1>10, <2>1, DecideKeepsTypes DEF DisableSafeMode, Mutating
  <2>2. CASE Fail(k)
    BY <1>0, <1>10, <2>2, LeaveKeepsTypes DEF DisableSafeMode
  <2> QED BY <1>10, <2>1, <2>2 DEF DisableSafeMode
<1>11. CASE RollbackLoad(k)
  BY <1>0, <1>00, <1>6, <1>11 DEF RollbackLoad, Mutating
<1>12. CASE RollbackApply(k)
  BY <1>0, <1>6, <1>12 DEF RollbackApply, Mutating
<1> QED
  BY <1>1, <1>2, <1>3, <1>4, <1>5, <1>7, <1>8, <1>9, <1>10, <1>11, <1>12

\* The launch, the handshake and what follows them.
LEMMA LaunchKeepsTypes ==
    ASSUME TypeInv, NEW k \in Kernels,
           \/ Launch(k) \/ RegistrationLost(k) \/ AttemptFails(k) \/ HandshakeHolds(k)
           \/ HandshakeMismatch(k) \/ Repair(k) \/ Commit(k) \/ Close(k) \/ Crash(k)
    PROVE  TypeInv'
<1> USE DEF Fail
<1>0. /\ loaded \in Artifacts /\ applied \in Artifacts /\ safe \in BOOLEAN
      /\ marker \in Versions \cup {0} /\ start[k] \in Attempts
      /\ Bundle[k] \in Versions /\ k # NoKernel
      /\ (holder = k <=> At(k) \in Mutating)
      /\ {"failed", "running", "idle"} \subseteq Out
  BY ArtifactFacts, KernelsAssumption DEF TypeInv, TypeOK, Attempts, Out
<1>1. CASE Launch(k)
  <2> DEFINE r == [start[k] EXCEPT !.at = "handshake", !.client = applied]
  <2>1. r \in Attempts /\ r.at = "handshake"
    BY <1>0 DEF Attempts, Starting
  <2>2. Counted(r)
    BY <1>0 DEF Attempts, TypeInv, RetriesCounted, Counted
  <2>3. start' = [start EXCEPT ![k] = r]
    BY <1>1 DEF Launch
  <2> QED BY <1>0, <1>1, <2>1, <2>2, <2>3, MoveKeepsTypes DEF Launch, Mutating
<1>2. CASE RegistrationLost(k)
  <2> DEFINE changed == [start[k] EXCEPT !.registrationRetry = FALSE]
  <2>1. changed \in Attempts /\ ~changed.registrationRetry
        /\ changed.manual = start[k].manual /\ changed.attempt = start[k].attempt
        /\ changed.repairLeft = start[k].repairLeft
    BY <1>0 DEF Attempts
  <2>2. NextAttempt(k, "launch", changed) /\ start[k].registrationRetry
        /\ UNCHANGED <<infobase, marker, holder>> /\ At(k) \in {"launch", "handshake"}
    BY <1>2 DEF RegistrationLost
  <2> HIDE DEF changed
  <2> QED BY <2>1, <2>2, RetryKeepsTypes
<1>3. CASE AttemptFails(k)
  BY <1>0, <1>3, LeaveKeepsTypes DEF AttemptFails
<1>4. CASE HandshakeHolds(k)
  <2>1. CASE Leave(k, "running")
    BY <1>0, <1>4, <2>1, LeaveKeepsTypes DEF HandshakeHolds
  <2>2. CASE Goto(k, "commit") /\ UNCHANGED holder
    BY <1>0, <1>4, <2>2, GotoKeepsTypes DEF HandshakeHolds, Mutating, Starting
  <2> QED BY <1>4, <2>1, <2>2 DEF HandshakeHolds
<1>5. CASE HandshakeMismatch(k)
  <2> DEFINE changed == [start[k] EXCEPT !.repairLeft = FALSE, !.forced = TRUE]
  <2>1. changed \in Attempts /\ ~changed.repairLeft
        /\ changed.manual = start[k].manual /\ changed.attempt = start[k].attempt
        /\ changed.registrationRetry = start[k].registrationRetry
    BY <1>0 DEF Attempts
  <2>2. NextAttempt(k, "repair", changed) /\ start[k].repairLeft
        /\ UNCHANGED <<infobase, marker, holder>> /\ At(k) \in {"launch", "handshake"}
    BY <1>5 DEF HandshakeMismatch
  <2> HIDE DEF changed
  <2> QED BY <2>1, <2>2, RetryKeepsTypes
<1>6. CASE Repair(k)
  BY <1>0, <1>6, GotoKeepsTypes DEF Repair, Mutating, Starting
<1>7. CASE Commit(k)
  BY <1>0, <1>7, LeaveKeepsTypes DEF Commit
<1>8. CASE Close(k)
  BY <1>0, <1>8, LeaveKeepsTypes DEF Close
<1>9. CASE Crash(k)
  BY <1>0, <1>9, LeaveKeepsTypes DEF Crash
<1> QED
  BY <1>1, <1>2, <1>3, <1>4, <1>5, <1>6, <1>7, <1>8, <1>9

LEMMA NextKeepsTypes == ASSUME TypeInv, [Next]_vars PROVE TypeInv'
<1>1. CASE Next
  BY <1>1, StartKeepsTypes, MutationKeepsTypes, LaunchKeepsTypes DEF Next, Step
<1>2. CASE UNCHANGED vars
  BY <1>2 DEF TypeInv, TypeOK, RetriesCounted, At
<1> QED BY <1>1, <1>2

LEMMA InitTypes == ASSUME Init PROVE TypeInv
<1>1. NewStart("idle", FALSE) \in Attempts
  BY ArtifactFacts DEF NewStart, Attempts, Out
<1>2. start \in [Kernels -> Attempts]
  BY <1>1 DEF Init
<1>3. \A k \in Kernels : holder # k /\ At(k) \notin Mutating
  BY KernelsAssumption DEF Init, At, NewStart, Mutating
<1>4. RetriesCounted
  BY NewStartFields, NewStartCounted, ZenonT(30) DEF Init, RetriesCounted, At
<1> QED
  BY <1>2, <1>3, <1>4 DEF Init, TypeInv, TypeOK, Attempts

\* Whatever the kernels of one infobase do, fail or die at: the lock is held exactly by
\* the kernel inside the Configurator session, and every position is one of start()'s.
THEOREM TypesHold == Spec => []TypeOK
<1>1. Spec => []TypeInv
  BY InitTypes, NextKeepsTypes, PTL DEF Spec
<1> QED BY <1>1, PTL DEF TypeInv

\* start()'s loop never reaches the assertion behind it: the fresh attempt after a lost
\* registration and the attempt after a repair fit into its two or three attempts.
THEOREM LoopNeverExhausted == Spec => [](\A k \in Kernels : At(k) # "exceeded")
<1>1. Spec => []TypeInv
  BY InitTypes, NextKeepsTypes, PTL DEF Spec
<1>2. TypeInv => \A k \in Kernels : At(k) # "exceeded"
  BY DEF TypeInv, RetriesCounted
<1> QED BY <1>1, <1>2, PTL

-----------------------------------------------------------------------------
(* What is certified stays installed.                                      *)

\* An artifact is known by its version and its origin.
LEMMA ArtifactFields ==
    /\ \A a \in Artifacts :
          /\ a[1] \in Nat /\ a[2] \in {"absent", "foreign", "released", "edited"}
          /\ a[2] \in {"released", "edited"} <=> a \notin {Absent, Foreign}
          /\ a[2] \in {"released", "edited"} => a[1] \in Versions /\ a[1] > 0
          /\ a \in {Absent, Foreign} => a[1] = 0
    /\ \A a, b \in Artifacts : a[1] = b[1] /\ a[2] = b[2] => a = b
    /\ \A v \in Versions : Released(v)[1] = v /\ Released(v)[2] = "released"
<1>1. \A a \in Artifacts : \/ a = <<0, "absent">> \/ a = <<0, "foreign">>
                           \/ \E v \in Versions, o \in {"released", "edited"} : a = <<v, o>>
  BY DEF Artifacts, Absent, Foreign
<1>2. \A v \in Versions : v \in Nat /\ v > 0 /\ v # 0
  BY VersionsAssumption
<1>3. ASSUME NEW a \in Artifacts
      PROVE  /\ a[1] \in Nat /\ a[2] \in {"absent", "foreign", "released", "edited"}
             /\ a[2] \in {"released", "edited"} <=> a \notin {Absent, Foreign}
             /\ a[2] \in {"released", "edited"} => a[1] \in Versions /\ a[1] > 0
             /\ a \in {Absent, Foreign} => a[1] = 0
  BY <1>1, <1>2 DEF Absent, Foreign
<1>4. \A a, b \in Artifacts : a[1] = b[1] /\ a[2] = b[2] => a = b
  BY <1>1
<1> QED BY <1>3, <1>4 DEF Released

\* The steps of one kernel in general: what is founded stays founded, what is newly
\* certified is installed, and the extension changes only under the lock.
LEMMA MoveKeepsInstall ==
    ASSUME TypeInv, TypeInv', InstallInv, NEW k \in Kernels,
           \A j \in Kernels : j # k => start'[j] = start[j],
           loaded' = loaded \/ holder = k,
           \A v \in Versions : Founded(v) =>
               Founded(v)' /\ (applied[1] >= v => applied'[1] >= v) /\ (~safe => ~safe'),
           EditedIsReplaced', MutatorRemovedMarker', MutationKnows(k)', StartKnows(k)',
           NEW m \in Versions \cup {0}, marker' = m, m \in {0, marker} \/ Installed(m)',
           At(k)' = "running" /\ ~start'[k].manual => Installed(Bundle[k])'
    PROVE  InstallInv'
<1>1. \A v \in Versions : Installed(v) => Installed(v)'
  BY DEF Installed
<1>2. ASSUME NEW j \in Kernels PROVE MutationKnows(j)' /\ StartKnows(j)'
  <2>1. CASE j = k
    BY <2>1
  <2>2. CASE j # k
    <3>1. MutationKnows(j) /\ StartKnows(j) /\ start'[j] = start[j] /\ Bundle[j] \in Versions
      BY <2>2, ArtifactFacts DEF InstallInv
    <3>2. MutationKnows(j)'
      <4>1. CASE loaded' = loaded
        BY <3>1, <4>1 DEF MutationKnows, HasBackup, At, Older
      <4>2. CASE holder = k
        <5>1. At(j) \notin Mutating
          BY <2>2, <4>2 DEF TypeInv, TypeOK
        <5> QED BY <3>1, <5>1 DEF MutationKnows, HasBackup, At, Mutating
      <4> QED BY <4>1, <4>2
    <3>3. StartKnows(j)'
      BY <1>1, <3>1 DEF StartKnows, At
    <3> QED BY <3>2, <3>3
  <2> QED BY <2>1, <2>2
<1>3. ASSUME NEW v \in Certified' PROVE Installed(v)'
  <2>1. CASE v = m /\ m # 0
    <3>1. CASE Installed(m)'
      BY <2>1, <3>1
    <3>2. CASE m = marker
      BY <1>1, <2>1, <3>2 DEF InstallInv, Certified
    <3> QED BY <2>1, <3>1, <3>2
  <2>2. ASSUME NEW j \in Kernels, At(j)' = "running", ~start'[j].manual, v = Bundle[j]
        PROVE  Installed(v)'
    <3>1. CASE j = k
      BY <2>2, <3>1
    <3>2. CASE j # k
      <4>1. Bundle[j] \in Certified
        BY <2>2, <3>2 DEF Certified, At
      <4> QED BY <1>1, <2>2, <4>1, ArtifactFacts DEF InstallInv
    <3> QED BY <3>1, <3>2
  <2> QED BY <2>1, <2>2 DEF Certified
<1> QED BY <1>2, <1>3 DEF InstallInv

\* A step that leaves the infobase alone and saves at most what is loaded.
LEMMA QuietKeepsInstall ==
    ASSUME TypeInv, TypeInv', InstallInv, NEW k \in Kernels,
           \A j \in Kernels : j # k => start'[j] = start[j],
           UNCHANGED infobase,
           HasBackup(k)' => \/ start'[k].backup = loaded
                            \/ HasBackup(k) /\ start'[k].backup = start[k].backup,
           MutatorRemovedMarker', MutationKnows(k)', StartKnows(k)',
           NEW m \in Versions \cup {0}, marker' = m, m \in {0, marker} \/ Installed(m),
           At(k)' = "running" /\ ~start'[k].manual => Installed(Bundle[k])
    PROVE  InstallInv'
<1>1. \A j \in Kernels : j # k => (HasBackup(j)' <=> HasBackup(j))
  BY DEF HasBackup, At
<1>2. \A v : Founded(v) => Founded(v)'
  BY <1>1 DEF Founded
<1>3. \A v : Installed(v) => Installed(v)'
  BY <1>2 DEF Installed
<1>4. EditedIsReplaced'
  BY <1>1 DEF InstallInv, EditedIsReplaced
<1>5. Installed(m) => Installed(m)'
  BY <1>3
<1>6. Installed(Bundle[k]) => Installed(Bundle[k])'
  BY <1>3
<1> QED
  BY <1>2, <1>4, <1>5, <1>6, MoveKeepsInstall

\* Only the holder of the lock has a mutation under way.
LEMMA SoleMutator ==
    ASSUME TypeInv, NEW k \in Kernels, At(k) \in Mutating
    PROVE  holder = k /\ \A j \in Kernels : j # k => At(j) \notin Mutating /\ ~HasBackup(j)
BY DEF TypeInv, TypeOK, HasBackup, Mutating

\* A release that is loaded while no backup is kept is founded: clients cannot run an
\* edited artifact that it did not replace.
LEMMA LoadedIsFounded ==
    ASSUME TypeInv, InstallInv, NEW k \in Kernels, loaded = Released(Bundle[k]),
           At(k) \in {"inspect", "safe"}
    PROVE  Founded(Bundle[k])
<1>1. /\ Bundle[k] \in Versions /\ Bundle[k] \in Nat
      /\ loaded[1] = Bundle[k] /\ loaded[2] = "released"
      /\ applied \in Artifacts /\ applied[1] \in Nat
  BY ArtifactFacts, ArtifactFields DEF TypeInv, TypeOK
<1>2. \A j \in Kernels : ~HasBackup(j)
  BY SoleMutator DEF HasBackup, Mutating
<1>3. applied[1] >= Bundle[k] => applied[2] = "released"
  BY <1>1, ArtifactFacts, ArtifactFields DEF InstallInv, EditedIsReplaced, Follows
<1> QED
  BY <1>1, <1>2, <1>3 DEF Founded, AtLeast

\* The commands of the Configurator, whether they took effect or not.
LEMMA MutateKeepsInstall ==
    ASSUME TypeInv, TypeInv', InstallInv, NEW k \in Kernels, At(k) \in Mutating,
           \A j \in Kernels : j # k => start'[j] = start[j],
           HasBackup(k)' => HasBackup(k) /\ start'[k].backup = start[k].backup,
           \/ loaded' = loaded
           \/ At(k) = "load" /\ loaded' = Released(Bundle[k]) /\ applied' = applied
           \/ HasBackup(k) /\ loaded' = start[k].backup /\ applied' = applied,
           \/ applied' = applied
           \/ At(k) \in {"apply", "rbApply"} /\ applied' = loaded,
           safe' => safe \/ loaded = Absent,
           marker' = marker, MutationKnows(k)', StartKnows(k)', At(k)' # "running"
    PROVE  InstallInv'
<1>1. /\ holder = k /\ marker = 0 /\ k # NoKernel
      /\ \A j \in Kernels : HasBackup(j)' => j = k
      /\ Bundle[k] \in Versions /\ Bundle[k] \in Nat
      /\ Released(Bundle[k])[1] = Bundle[k] /\ Released(Bundle[k])[2] = "released"
      /\ loaded \in Artifacts /\ applied \in Artifacts /\ start[k].backup \in Artifacts
  BY SoleMutator, KernelsAssumption, ArtifactFacts, ArtifactFields
     DEF InstallInv, MutatorRemovedMarker, HasBackup, At, TypeInv, TypeOK
<1>2. /\ loaded[1] \in Nat /\ applied[1] \in Nat /\ start[k].backup[1] \in Nat
      /\ Absent \in Artifacts /\ Absent[2] = "absent"
  BY <1>1, ArtifactFields, ArtifactFacts DEF Absent
<1>3. /\ At(k) = "load" => loaded = start[k].backup
      /\ HasBackup(k) => start[k].backup[1] < Bundle[k]
      /\ At(k) = "load" /\ loaded # Absent => HasBackup(k)
  BY DEF InstallInv, MutationKnows, Older, HasBackup
<1>4. ASSUME NEW v \in Versions, Founded(v)
      PROVE  Founded(v)' /\ (applied[1] >= v => applied'[1] >= v) /\ (~safe => ~safe')
  <2>1. AtLeast(v, loaded) /\ (HasBackup(k) => AtLeast(v, start[k].backup)) /\ loaded # Absent
        /\ v \in Nat
    BY <1>2, <1>4, VersionsAssumption DEF Founded, AtLeast
  <2>2. AtLeast(v, loaded)'
    BY <1>1, <1>2, <1>3, <2>1 DEF AtLeast
  <2>3. (applied[1] >= v => applied[2] = "released")'
    BY <1>4, <2>1 DEF Founded, AtLeast
  <2>4. \A j \in Kernels : HasBackup(j)' => AtLeast(v, start'[j].backup)
    BY <1>1, <2>1
  <2>5. applied[1] >= v => applied'[1] >= v
    BY <2>1 DEF AtLeast
  <2> QED BY <2>1, <2>2, <2>3, <2>4, <2>5 DEF Founded, AtLeast
<1>5. EditedIsReplaced'
  <2> SUFFICES ASSUME applied'[2] = "edited"
               PROVE  Follows(loaded, applied)' /\ (HasBackup(k)' => Follows(start'[k].backup, applied'))
    BY <1>1 DEF EditedIsReplaced, Follows
  <2>1. CASE applied' = applied
    <3>1. Follows(loaded, applied) /\ (HasBackup(k) => Follows(start[k].backup, applied))
      BY <2>1 DEF InstallInv, EditedIsReplaced
    <3>2. loaded # Absent /\ loaded[1] >= applied[1]
      BY <1>2, <2>1, <3>1 DEF Follows
    <3>3. Follows(Released(Bundle[k]), applied) \/ At(k) # "load"
      BY <1>1, <1>2, <1>3, <3>2 DEF Follows
    <3> QED BY <2>1, <3>1, <3>3 DEF Follows
  <2>2. CASE At(k) \in {"apply", "rbApply"} /\ applied' = loaded /\ applied' # applied
    <3>1. At(k) = "rbApply" /\ loaded = start[k].backup
      BY <1>1, <2>2 DEF InstallInv, MutationKnows
    <3>2. loaded' = loaded
      BY <2>2, <3>1
    <3> QED BY <2>2, <3>1, <3>2 DEF Follows
  <2> QED BY <2>1, <2>2
<1>6. MutatorRemovedMarker'
  BY <1>1 DEF MutatorRemovedMarker
<1> QED
  BY <1>1, <1>4, <1>5, <1>6, MoveKeepsInstall

\* What the place of a kernel says of it once it has left start().
LEMMA LeaveFacts ==
    ASSUME TypeInv, NEW k \in Kernels, NEW place \in Out, Leave(k, place)
    PROVE  /\ \A j \in Kernels : j # k => start'[j] = start[j]
           /\ At(k)' = place /\ holder' \in {holder, NoKernel}
           /\ place = "running" /\ ~start'[k].manual => ~start[k].manual
           /\ ~HasBackup(k)' /\ MutationKnows(k)' /\ StartKnows(k)'
<1>1. start[k].manual \in BOOLEAN /\ start \in [Kernels -> Attempts]
  BY DEF TypeInv, TypeOK, Attempts
<1>2. start' = [start EXCEPT ![k] = NewStart(place, place = "running" /\ start[k].manual)]
  BY DEF Leave
<1> DEFINE manual == NewStart(place, TRUE)
           automatic == NewStart(place, FALSE)
<1>3. \/ start' = [start EXCEPT ![k] = manual]
      \/ start' = [start EXCEPT ![k] = automatic] /\ ~(place = "running" /\ start[k].manual)
  <2>1. CASE (place = "running" /\ start[k].manual) = TRUE
    BY <1>2, <2>1
  <2>2. CASE (place = "running" /\ start[k].manual) = FALSE
    BY <1>2, <2>2
  <2> QED BY <1>1, <2>1, <2>2, Zenon
<1>4. manual.at = place /\ manual.manual /\ automatic.at = place
  BY NewStartFields
<1> HIDE DEF manual, automatic
<1>5. /\ start'[k].at = place
      /\ place = "running" /\ ~start'[k].manual => ~start[k].manual
      /\ \A j \in Kernels : j # k => start'[j] = start[j]
  BY <1>1, <1>3, <1>4
<1>6. ~HasBackup(k)' /\ MutationKnows(k)' /\ StartKnows(k)'
  BY <1>5 DEF Out, HasBackup, MutationKnows, StartKnows, At
<1>7. At(k)' = place /\ holder' \in {holder, NoKernel}
  BY <1>5 DEF Leave, At
<1> QED
  BY <1>5, <1>6, <1>7

\* Leaving start() with the extension as it is.
LEMMA LeaveKeepsInstall ==
    ASSUME TypeInv, TypeInv', InstallInv, NEW k \in Kernels, NEW place \in Out, Leave(k, place),
           UNCHANGED infobase,
           NEW m \in Versions \cup {0}, marker' = m,
           m = marker \/ (holder = NoKernel /\ Installed(m)),
           place = "running" /\ ~start[k].manual => Installed(Bundle[k])
    PROVE  InstallInv'
<1>1. MutatorRemovedMarker'
  BY LeaveFacts DEF InstallInv, MutatorRemovedMarker
<1> QED
  BY <1>1, LeaveFacts, QuietKeepsInstall

\* What a move to another place of start() changes.
LEMMA GotoFacts ==
    ASSUME TypeInv, NEW k \in Kernels, NEW place, Goto(k, place)
    PROVE  /\ \A j \in Kernels : j # k => start'[j] = start[j]
           /\ At(k)' = place /\ start'[k].manual = start[k].manual
           /\ start'[k].backup = start[k].backup /\ start'[k].client = start[k].client
           /\ start'[k].decision = start[k].decision
<1>1. start \in [Kernels -> Attempts]
  BY DEF TypeInv, TypeOK, Attempts
<1>2. start'[k] = [start[k] EXCEPT !.at = place] /\ start[k] \in Attempts
      /\ \A j \in Kernels : j # k => start'[j] = start[j]
  BY <1>1 DEF Goto
<1> QED
  BY <1>2 DEF At, Attempts

\* A move inside start() that keeps what the mutation knows.
LEMMA GotoKeepsInstall ==
    ASSUME TypeInv, TypeInv', InstallInv, NEW k \in Kernels, NEW place, Goto(k, place),
           UNCHANGED infobase, marker' = 0 \/ UNCHANGED <<marker, holder>>,
           place \in {"inspect", "backup", "safe", "lock"} \/ (place = "load" /\ start[k].backup = Absent),
           place \in {"inspect", "backup", "lock"} => start[k].backup = Absent,
           place = "backup" => Older(k, loaded),
           place = "load" => loaded = start[k].backup,
           place = "safe" => loaded = Released(Bundle[k])
    PROVE  InstallInv'
<1>1. /\ \A j \in Kernels : j # k => start'[j] = start[j]
      /\ At(k)' = place /\ start'[k].backup = start[k].backup
  BY GotoFacts
<1>2. ~HasBackup(k)' /\ StartKnows(k)'
  BY <1>1 DEF HasBackup, StartKnows
<1>3. Older(k, loaded)' <=> Older(k, loaded)
  BY DEF Older
<1>4. MutationKnows(k)'
  BY <1>1, <1>2, <1>3 DEF MutationKnows
<1>5. marker' \in Versions \cup {0} /\ marker' \in {0, marker}
  BY DEF TypeInv, TypeOK
<1>6. MutatorRemovedMarker'
  BY DEF InstallInv, MutatorRemovedMarker
<1> QED
  BY <1>1, <1>2, <1>4, <1>5, <1>6, QuietKeepsInstall

LEMMA DecideFacts ==
    ASSUME TypeInv, NEW k \in Kernels, NEW mode, Decide(k, mode)
    PROVE  /\ \A j \in Kernels : j # k => start'[j] = start[j]
           /\ At(k)' = "launch" /\ start'[k].manual = start[k].manual
           /\ start'[k].decision = mode
           /\ ~HasBackup(k)' /\ MutationKnows(k)'
<1>1. start \in [Kernels -> Attempts]
  BY DEF TypeInv, TypeOK, Attempts
<1>2. start'[k] = [start[k] EXCEPT !.at = "launch", !.decision = mode] /\ start[k] \in Attempts
      /\ \A j \in Kernels : j # k => start'[j] = start[j]
  BY <1>1 DEF Decide
<1>3. At(k)' = "launch" /\ start'[k].manual = start[k].manual /\ start'[k].decision = mode
  BY <1>2 DEF At, Attempts
<1> QED
  BY <1>2, <1>3 DEF HasBackup, MutationKnows

\* Start and the decision: a certified release is founded already, and a probed one is loaded.
LEMMA DecisionKeepsInstall ==
    ASSUME TypeInv, TypeInv', InstallInv, NEW k \in Kernels,
           \/ Start(k) \/ Enter(k) \/ EnterManual(k) \/ LockTimesOut(k) \/ Inspect(k) \/ DumpBackup(k)
    PROVE  InstallInv'
<1> USE DEF Fail
<1>0. /\ start \in [Kernels -> Attempts] /\ start[k] \in Attempts
      /\ marker \in Versions \cup {0} /\ 0 \in Versions \cup {0} /\ k # NoKernel
      /\ Bundle[k] \in Versions /\ Bundle[k] # 0
      /\ "failed" \in Out /\ "idle" \in Out /\ "running" \in Out
      /\ MutationKnows(k) /\ StartKnows(k) /\ MutatorRemovedMarker
  BY ArtifactFacts, KernelsAssumption DEF TypeInv, TypeOK, Attempts, Out, InstallInv
<1>1. marker = Bundle[k] => Founded(Bundle[k])
  BY <1>0 DEF InstallInv, Certified, Installed
<1>2. CASE Start(k)
  <2>1. \A j \in Kernels : j # k => start'[j] = start[j]
    BY <1>0, <1>2 DEF Start
  <2>2. CASE \E isManual \in BOOLEAN : start' = [start EXCEPT ![k] = NewStart("lock", isManual)]
    <3>1. At(k)' = "lock" /\ start'[k].backup = Absent
      <4>1. PICK isManual \in BOOLEAN : start' = [start EXCEPT ![k] = NewStart("lock", isManual)]
        BY <2>2
      <4> DEFINE r == NewStart("lock", isManual)
      <4>2. r.at = "lock" /\ r.backup = Absent /\ start' = [start EXCEPT ![k] = r]
        BY <4>1, NewStartFields
      <4> HIDE DEF r
      <4> QED BY <1>0, <4>2 DEF At
    <3>2. ~HasBackup(k)' /\ MutationKnows(k)' /\ StartKnows(k)'
      BY <3>1 DEF HasBackup, MutationKnows, StartKnows
    <3> QED
      BY <1>0, <1>2, <2>1, <3>1, <3>2, QuietKeepsInstall DEF Start, MutatorRemovedMarker
  <2>3. CASE marker = Bundle[k] /\ start' = [start EXCEPT ![k] =
                                      [NewStart("launch", FALSE) EXCEPT !.decision = "fast"]]
    <3>1. At(k)' = "launch" /\ start'[k].decision = "fast"
      <4>1. NewStart("launch", FALSE) \in Attempts /\ NewStart("launch", FALSE).at = "launch"
        BY NewStartFields, NewStartType DEF Starting
      <4> QED BY <1>0, <2>3, <4>1 DEF At, Attempts
    <3>2. ~HasBackup(k)' /\ MutationKnows(k)'
      BY <3>1 DEF HasBackup, MutationKnows
    <3>3. Founded(Bundle[k])'
      BY <1>1, <1>2, <2>1, <2>3, <3>2 DEF Start, Founded, HasBackup, At
    <3>4. StartKnows(k)'
      BY <3>1, <3>3 DEF StartKnows
    <3> QED
      BY <1>0, <1>2, <2>1, <3>1, <3>2, <3>4, QuietKeepsInstall DEF Start, MutatorRemovedMarker
  <2> QED BY <1>2, <2>2, <2>3 DEF Start
<1>3. ASSUME Decide(k, "fast") \/ Decide(k, "probed"), UNCHANGED infobase, Founded(Bundle[k]),
             marker' = marker, holder' \in {holder, NoKernel}
      PROVE  InstallInv'
  <2>1. PICK mode \in {"fast", "probed"} : Decide(k, mode)
    BY <1>3
  <2>2. Founded(Bundle[k])'
    BY <1>3, <2>1, DecideFacts DEF Founded, HasBackup, At
  <2>3. StartKnows(k)'
    BY <2>1, <2>2, DecideFacts DEF StartKnows
  <2> QED
    BY <1>0, <1>3, <2>1, <2>3, DecideFacts, QuietKeepsInstall DEF MutatorRemovedMarker
<1>4. CASE Enter(k)
  <2>1. CASE Decide(k, "fast") /\ UNCHANGED <<marker, holder>>
    BY <1>0, <1>1, <1>3, <1>4, <2>1 DEF Enter
  <2>2. CASE Goto(k, "inspect") /\ marker' = 0 /\ holder' = k
    BY <1>0, <1>4, <2>2, GotoKeepsInstall DEF Enter, MutationKnows
  <2> QED BY <1>4, <2>1, <2>2 DEF Enter
<1>5. CASE EnterManual(k)
  <2>1. StartKnows(k)'
    BY <1>5, DecideFacts DEF EnterManual, StartKnows
  <2> QED
    BY <1>0, <1>5, <2>1, DecideFacts, QuietKeepsInstall DEF EnterManual, MutatorRemovedMarker
<1>6. CASE LockTimesOut(k)
  BY <1>0, <1>6, LeaveKeepsInstall DEF LockTimesOut
<1>7. CASE Inspect(k)
  <2>1. CASE Goto(k, "load") /\ UNCHANGED holder /\ loaded = Absent
    BY <1>0, <1>7, <2>1, GotoKeepsInstall DEF Inspect, MutationKnows
  <2>2. CASE loaded = Released(Bundle[k]) /\ Decide(k, "probed") /\ holder' = NoKernel
    BY <1>0, <1>3, <1>7, <2>2, LoadedIsFounded DEF Inspect
  <2>3. CASE Goto(k, "safe") /\ UNCHANGED holder /\ loaded = Released(Bundle[k])
    BY <1>0, <1>7, <2>3, GotoKeepsInstall DEF Inspect, MutationKnows
  <2>4. CASE Goto(k, "backup") /\ UNCHANGED holder /\ Older(k, loaded)
    BY <1>0, <1>7, <2>4, GotoKeepsInstall DEF Inspect, MutationKnows
  <2>5. CASE Fail(k)
    BY <1>0, <1>7, <2>5, LeaveKeepsInstall DEF Inspect
  <2> QED BY <1>7, <2>1, <2>2, <2>3, <2>4, <2>5 DEF Inspect
<1>8. CASE DumpBackup(k)
  <2>1. CASE start' = [start EXCEPT ![k].at = "load", ![k].backup = loaded] /\ UNCHANGED holder
    <3>1. /\ \A j \in Kernels : j # k => start'[j] = start[j]
          /\ At(k)' = "load" /\ start'[k].backup = loaded
      BY <1>0, <2>1 DEF At, Attempts
    <3>2. MutationKnows(k)' /\ StartKnows(k)'
      BY <1>0, <1>8, <3>1 DEF DumpBackup, HasBackup, MutationKnows, StartKnows, Older
    <3> QED
      BY <1>0, <1>8, <2>1, <3>1, <3>2, QuietKeepsInstall DEF DumpBackup, MutatorRemovedMarker
  <2>2. CASE Fail(k)
    BY <1>0, <1>8, <2>2, LeaveKeepsInstall DEF DumpBackup
  <2> QED BY <1>8, <2>1, <2>2 DEF DumpBackup
<1> QED
  BY <1>2, <1>4, <1>5, <1>6, <1>7, <1>8

\* Loading, applying, verifying and their rollback.
LEMMA MutationKeepsInstall ==
    ASSUME TypeInv, TypeInv', InstallInv, NEW k \in Kernels,
           \/ Load(k) \/ Apply(k) \/ Verify(k) \/ DisableSafeMode(k)
           \/ RollbackLoad(k) \/ RollbackApply(k)
    PROVE  InstallInv'
<1> USE DEF Fail
<1>0. /\ "failed" \in Out /\ MutationKnows(k) /\ loaded \in Artifacts
      /\ safe \in BOOLEAN /\ safe' \in BOOLEAN
  BY DEF InstallInv, Out, TypeInv, TypeOK
<1>1. ASSUME At(k) \in Mutating,
             \/ loaded' = loaded
             \/ At(k) = "load" /\ loaded' = Released(Bundle[k]) /\ applied' = applied
             \/ HasBackup(k) /\ loaded' = start[k].backup /\ applied' = applied,
             \/ applied' = applied
             \/ At(k) \in {"apply", "rbApply"} /\ applied' = loaded,
             safe' => safe \/ loaded = Absent,
             marker' = marker,
             \/ Fail(k)
             \/ \E place \in {"apply", "verify", "safe", "rbLoad", "rbApply"} :
                  /\ Goto(k, place)
                  /\ place \in {"apply", "verify", "safe"} =>
                         loaded' = Released(Bundle[k]) /\ At(k) \in {"load", "apply", "verify"}
                  /\ place \in {"rbLoad", "rbApply"} => HasBackup(k)
                  /\ place = "rbLoad" => loaded' \in {start[k].backup, Released(Bundle[k])}
                  /\ place = "rbApply" => loaded' = start[k].backup
      PROVE  InstallInv'
  <2>1. CASE Fail(k)
    BY <1>0, <1>1, <2>1, LeaveFacts, MutateKeepsInstall
  <2>2. ASSUME NEW place \in {"apply", "verify", "safe", "rbLoad", "rbApply"}, Goto(k, place),
               place \in {"apply", "verify", "safe"} =>
                   loaded' = Released(Bundle[k]) /\ At(k) \in {"load", "apply", "verify"},
               place \in {"rbLoad", "rbApply"} => HasBackup(k),
               place = "rbLoad" => loaded' \in {start[k].backup, Released(Bundle[k])},
               place = "rbApply" => loaded' = start[k].backup
        PROVE  InstallInv'
    <3>1. /\ \A j \in Kernels : j # k => start'[j] = start[j]
          /\ At(k)' = place /\ start'[k].backup = start[k].backup
      BY <2>2, GotoFacts
    <3>2. HasBackup(k)' => HasBackup(k)
      BY <2>2, <3>1 DEF HasBackup
    <3>3. HasBackup(k) /\ place # "safe" => HasBackup(k)'
      BY <2>2, <3>1 DEF HasBackup
    <3>4. HasBackup(k)' => Older(k, start[k].backup)
      BY <1>0, <3>2 DEF MutationKnows
    <3>5. Older(k, start[k].backup) => Older(k, start'[k].backup)
      BY <3>1 DEF Older
    <3>6. MutationKnows(k)'
      BY <2>2, <3>1, <3>2, <3>3, <3>4, <3>5 DEF MutationKnows, Older
    <3>7. StartKnows(k)'
      BY <3>1 DEF StartKnows
    <3> QED
      BY <1>1, <3>1, <3>2, <3>6, <3>7, MutateKeepsInstall
  <2> QED BY <1>1, <2>1, <2>2
<1>2. Abandon(k) => (Fail(k) \/ (Goto(k, "rbLoad") /\ start[k].backup # Absent))
  BY DEF Abandon
<1>3. CASE Load(k)
  <2>1. At(k) = "load" /\ At(k) \in Mutating /\ loaded = start[k].backup
        /\ (start[k].backup # Absent => HasBackup(k))
    BY <1>0, <1>3 DEF Load, Mutating, MutationKnows, HasBackup
  <2>2. safe' => safe \/ loaded = Absent
    BY <1>3 DEF Load
  <2>3. CASE loaded' = Released(Bundle[k]) /\ Goto(k, "apply")
    BY <1>1, <1>3, <2>1, <2>2, <2>3 DEF Load
  <2>4. CASE loaded' \in {loaded, Released(Bundle[k])} /\ Abandon(k)
    BY <1>1, <1>2, <1>3, <2>1, <2>2, <2>4 DEF Load
  <2> QED BY <1>3, <2>3, <2>4 DEF Load
<1>4. CASE Apply(k)
  <2>1. At(k) = "apply" /\ At(k) \in Mutating /\ loaded = Released(Bundle[k])
        /\ (start[k].backup # Absent => HasBackup(k))
    BY <1>0, <1>4 DEF Apply, Mutating, MutationKnows, HasBackup
  <2>2. CASE applied' = loaded /\ Goto(k, "verify")
    BY <1>1, <1>4, <2>1, <2>2 DEF Apply
  <2>3. CASE applied' \in {applied, loaded} /\ Abandon(k)
    BY <1>1, <1>2, <1>4, <2>1, <2>3 DEF Apply
  <2> QED BY <1>4, <2>2, <2>3 DEF Apply
<1>5. CASE Verify(k)
  <2>1. At(k) = "verify" /\ At(k) \in Mutating /\ loaded = Released(Bundle[k])
        /\ (start[k].backup # Absent => HasBackup(k))
    BY <1>0, <1>5 DEF Verify, Mutating, MutationKnows, HasBackup
  <2>2. CASE Goto(k, "safe")
    BY <1>1, <1>5, <2>1, <2>2 DEF Verify
  <2>3. CASE Abandon(k)
    BY <1>1, <1>2, <1>5, <2>1, <2>3 DEF Verify
  <2> QED BY <1>5, <2>2, <2>3 DEF Verify
<1>6. CASE DisableSafeMode(k)
  <2>1. At(k) = "safe" /\ At(k) \in Mutating /\ loaded = Released(Bundle[k])
        /\ UNCHANGED <<loaded, applied, marker>> /\ (safe' => safe)
    BY <1>0, <1>6 DEF DisableSafeMode, Mutating, MutationKnows
  <2>2. CASE Fail(k)
    BY <1>1, <2>1, <2>2
  <2>3. CASE Decide(k, "slow") /\ ~safe'
    <3>1. Founded(Bundle[k]) /\ Bundle[k] \in Versions
      BY <2>1, LoadedIsFounded, ArtifactFacts
    <3>2. Founded(Bundle[k])'
      BY <2>1, <2>3, <3>1, DecideFacts DEF Founded, HasBackup, At
    <3>3. StartKnows(k)'
      BY <2>3, <3>2, DecideFacts DEF StartKnows
    <3> QED
      BY <2>1, <2>3, <3>3, DecideFacts, MutateKeepsInstall
  <2> QED BY <1>6, <2>2, <2>3 DEF DisableSafeMode
<1>7. CASE RollbackLoad(k)
  <2>1. At(k) = "rbLoad" /\ At(k) \in Mutating /\ HasBackup(k)
        /\ loaded \in {start[k].backup, Released(Bundle[k])}
    BY <1>0, <1>7 DEF RollbackLoad, Mutating, MutationKnows
  <2> QED BY <1>1, <1>7, <2>1 DEF RollbackLoad
<1>8. CASE RollbackApply(k)
  <2>1. At(k) = "rbApply" /\ At(k) \in Mutating
    BY <1>8 DEF RollbackApply, Mutating
  <2> QED BY <1>1, <1>8, <2>1 DEF RollbackApply
<1> QED
  BY <1>3, <1>4, <1>5, <1>6, <1>7, <1>8

\* The launch, the handshake and the commit: what the handshake saw of the target is
\* still so when the marker is replaced, however long the lock was another kernel's.
LEMMA LaunchKeepsInstall ==
    ASSUME TypeInv, TypeInv', InstallInv, NEW k \in Kernels,
           \/ Launch(k) \/ RegistrationLost(k) \/ AttemptFails(k) \/ HandshakeHolds(k)
           \/ HandshakeMismatch(k) \/ Repair(k) \/ Commit(k) \/ Close(k) \/ Crash(k)
    PROVE  InstallInv'
<1> USE DEF Fail
<1>0. /\ start \in [Kernels -> Attempts] /\ start[k] \in Attempts
      /\ marker \in Versions \cup {0} /\ Bundle[k] \in Versions \cup {0}
      /\ "failed" \in Out /\ "idle" \in Out /\ "running" \in Out
      /\ MutationKnows(k) /\ StartKnows(k) /\ MutatorRemovedMarker
      /\ applied \in Artifacts /\ applied[1] \in Nat /\ Bundle[k] \in Nat
  BY ArtifactFacts, ArtifactFields DEF TypeInv, TypeOK, Attempts, Out, InstallInv
<1>1. CASE Launch(k)
  <2>1. /\ \A j \in Kernels : j # k => start'[j] = start[j]
        /\ At(k)' = "handshake" /\ start'[k].client = applied
        /\ start'[k].manual = start[k].manual /\ start'[k].decision = start[k].decision
    BY <1>0, <1>1 DEF Launch, At, Attempts
  <2>2. ~HasBackup(k)' /\ MutationKnows(k)'
    BY <2>1 DEF HasBackup, MutationKnows
  <2>3. Founded(Bundle[k]) => Founded(Bundle[k])'
    BY <1>1, <2>1, <2>2 DEF Launch, Founded, HasBackup, At
  <2>4. StartKnows(k)'
    BY <1>0, <1>1, <2>1, <2>3 DEF Launch, StartKnows
  <2> QED
    BY <1>0, <1>1, <2>1, <2>2, <2>4, QuietKeepsInstall DEF Launch, MutatorRemovedMarker
<1>2. CASE RegistrationLost(k)
  <2>1. PICK place \in {"launch", "exceeded"} :
            start' = [start EXCEPT ![k] =
                [[start[k] EXCEPT !.registrationRetry = FALSE]
                    EXCEPT !.at = place, !.attempt = @ + 1, !.backup = Absent, !.client = Absent]]
    BY <1>2 DEF RegistrationLost, NextAttempt
  <2>2. /\ \A j \in Kernels : j # k => start'[j] = start[j]
        /\ At(k)' = place
        /\ start'[k].manual = start[k].manual /\ start'[k].decision = start[k].decision
    BY <1>0, <2>1 DEF At, Attempts
  <2>3. ~HasBackup(k)' /\ MutationKnows(k)'
    BY <2>2 DEF HasBackup, MutationKnows
  <2>4. Founded(Bundle[k]) => Founded(Bundle[k])'
    BY <1>2, <2>2, <2>3 DEF RegistrationLost, Founded, HasBackup, At
  <2>5. StartKnows(k)'
    BY <1>0, <1>2, <2>2, <2>4 DEF RegistrationLost, StartKnows
  <2> QED
    BY <1>0, <1>2, <2>2, <2>3, <2>5, QuietKeepsInstall DEF RegistrationLost, MutatorRemovedMarker
<1>3. CASE AttemptFails(k)
  BY <1>0, <1>3, LeaveKeepsInstall DEF AttemptFails
<1>4. CASE HandshakeHolds(k)
  <2>1. CASE start[k].manual /\ Leave(k, "running")
    BY <1>0, <1>4, <2>1, LeaveKeepsInstall DEF HandshakeHolds
  <2>2. CASE ~start[k].manual /\ Verified(k) /\ Goto(k, "commit") /\ UNCHANGED holder
    <3>1. Installed(Bundle[k])
      BY <1>0, <1>4, <2>2 DEF HandshakeHolds, StartKnows, Verified, Installed
    <3>2. ~HasBackup(k)' /\ MutationKnows(k)'
      BY <2>2, GotoFacts DEF HasBackup, MutationKnows
    <3>3. Installed(Bundle[k])'
      BY <1>4, <2>2, <3>1, <3>2, GotoFacts DEF HandshakeHolds, Installed, Founded, HasBackup, At
    <3>4. StartKnows(k)'
      BY <1>0, <1>4, <2>2, <3>3, GotoFacts DEF HandshakeHolds, StartKnows, Installed
    <3> QED
      BY <1>0, <1>4, <2>2, <3>2, <3>4, GotoFacts, QuietKeepsInstall
         DEF HandshakeHolds, MutatorRemovedMarker
  <2> QED BY <1>4, <2>1, <2>2 DEF HandshakeHolds
<1>5. CASE HandshakeMismatch(k)
  <2>1. PICK place \in {"repair", "exceeded"} :
            start' = [start EXCEPT ![k] =
                [[start[k] EXCEPT !.repairLeft = FALSE, !.forced = TRUE]
                    EXCEPT !.at = place, !.attempt = @ + 1, !.backup = Absent, !.client = Absent]]
    BY <1>5 DEF HandshakeMismatch, NextAttempt
  <2>2. /\ \A j \in Kernels : j # k => start'[j] = start[j]
        /\ At(k)' = place /\ start'[k].backup = Absent
    BY <1>0, <2>1 DEF At, Attempts
  <2>3. ~HasBackup(k)' /\ MutationKnows(k)' /\ StartKnows(k)'
    BY <2>2 DEF HasBackup, MutationKnows, StartKnows
  <2> QED
    BY <1>0, <1>5, <2>2, <2>3, QuietKeepsInstall DEF HandshakeMismatch, MutatorRemovedMarker
<1>6. CASE Repair(k)
  BY <1>0, <1>6, GotoKeepsInstall DEF Repair, MutationKnows
<1>7. CASE Commit(k)
  <2>1. Installed(Bundle[k])
    BY <1>0, <1>7 DEF Commit, StartKnows
  <2> QED
    BY <1>0, <1>7, <2>1, LeaveKeepsInstall DEF Commit
<1>8. CASE Close(k)
  BY <1>0, <1>8, LeaveKeepsInstall DEF Close
<1>9. CASE Crash(k)
  BY <1>0, <1>9, LeaveKeepsInstall DEF Crash
<1> QED
  BY <1>1, <1>2, <1>3, <1>4, <1>5, <1>6, <1>7, <1>8, <1>9

LEMMA NextKeepsInstall ==
    ASSUME TypeInv, InstallInv, [Next]_vars PROVE InstallInv'
<1>1. TypeInv'
  BY NextKeepsTypes
<1>2. CASE Next
  BY <1>1, <1>2, DecisionKeepsInstall, MutationKeepsInstall, LaunchKeepsInstall DEF Next, Step
<1>3. CASE UNCHANGED vars
  <2>1. \A k \in Kernels : (HasBackup(k)' <=> HasBackup(k)) /\ start'[k] = start[k]
    BY <1>3 DEF HasBackup, At
  <2>2. \A v : (Founded(v)' <=> Founded(v)) /\ (Installed(v)' <=> Installed(v))
    BY <1>3, <2>1 DEF Founded, Installed
  <2>3. Certified' = Certified
    BY <1>3 DEF Certified, At
  <2>4. \A k \in Kernels : MutationKnows(k)' /\ StartKnows(k)'
    BY <1>3, <2>1, <2>2 DEF InstallInv, MutationKnows, StartKnows, Older, At
  <2> QED
    BY <1>3, <2>1, <2>2, <2>3, <2>4 DEF InstallInv, MutatorRemovedMarker, EditedIsReplaced
<1> QED BY <1>2, <1>3

LEMMA InitInstalls == ASSUME Init PROVE InstallInv
<1>1. \A k \in Kernels : At(k) = "idle"
  BY NewStartFields DEF Init, At
<1>2. \A k \in Kernels : ~HasBackup(k) /\ MutationKnows(k) /\ StartKnows(k)
  BY <1>1 DEF HasBackup, MutationKnows, StartKnows
<1>3. Certified = {}
  BY <1>1 DEF Init, Certified
<1> QED
  BY <1>2, <1>3 DEF Init, InstallInv, MutatorRemovedMarker, EditedIsReplaced, Follows

\* What the marker certifies, and what a running kernel was admitted on, is loaded,
\* applied and out of safe mode, that release or a later one: for any number of kernels
\* and releases, although prepare() and commit_handshake() take the lock apart and others
\* mutate, fail, roll back and die between them.
THEOREM CertifiedStays == Spec => []CertifiedHolds
<1>1. Spec => [](TypeInv /\ InstallInv)
  <2>1. Init => TypeInv /\ InstallInv
    BY InitTypes, InitInstalls
  <2>2. TypeInv /\ InstallInv /\ [Next]_vars => (TypeInv /\ InstallInv)'
    BY NextKeepsTypes, NextKeepsInstall
  <2> QED BY <2>1, <2>2, PTL DEF Spec
<1>2. TypeInv /\ InstallInv => CertifiedHolds
  <2> SUFFICES ASSUME TypeInv, InstallInv, NEW v \in Certified
               PROVE  ~safe /\ InstalledSince(v, loaded) /\ InstalledSince(v, applied)
    BY DEF CertifiedHolds
  <2>1. Installed(v) /\ loaded \in Artifacts /\ applied \in Artifacts
    BY DEF InstallInv, TypeInv, TypeOK
  <2>2. ~safe /\ AtLeast(v, loaded) /\ AtLeast(v, applied)
    BY <2>1 DEF Installed, Founded, AtLeast
  <2>3. ASSUME NEW a \in Artifacts, AtLeast(v, a) PROVE InstalledSince(v, a)
    <3>1. a[1] \in Versions /\ a[1] >= v /\ a = Released(a[1])
      BY <2>3, ArtifactFacts, ArtifactFields DEF AtLeast
    <3> QED BY <3>1 DEF InstalledSince
  <2> QED BY <2>1, <2>2, <2>3
<1> QED BY <1>1, <1>2, PTL

=============================================================================
