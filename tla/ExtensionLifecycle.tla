------------------------ MODULE ExtensionLifecycle -------------------------
(* Kernels that start a 1C runtime on one infobase, each with the release  *)
(* of the runtime extension it was packaged with: RuntimeSession.start and *)
(* ExtensionLifecycle under the infobase lock, the marker that lets a      *)
(* start skip the Configurator, the mutation of the extension with its     *)
(* rollback, the handshake, the one repair, and the death of a kernel      *)
(* between any two commands. The kernels share the runtime directory, and  *)
(* with it lock and marker.                                                *)
(*                                                                         *)
(* External: the infobase. A dump shows the edited configuration of the    *)
(* extension; a client runs the one last applied; loading an absent        *)
(* extension creates it in safe mode. A command in flight when its kernel  *)
(* dies took effect or did not: its Agent keeps the infobase until then.   *)
(*                                                                         *)
(* An artifact is a pair of version and origin; "edited" is one of the     *)
(* product's identity whose fingerprint is no release's.                   *)
EXTENDS Integers, FiniteSets

CONSTANTS
    Kernels,
    NoKernel,
    Versions,   \* released versions, in their order
    Bundle,     \* the release each kernel is packaged with
    Manual      \* kernels whose starts may be in ExtensionMode.MANUAL

ASSUME VersionsAssumption == Versions \subseteq Nat \ {0}
ASSUME KernelsAssumption ==
    /\ Bundle \in [Kernels -> Versions] /\ Manual \subseteq Kernels /\ NoKernel \notin Kernels

Absent  == <<0, "absent">>
Foreign == <<0, "foreign">>
Released(v) == <<v, "released">>
Artifacts == {Absent, Foreign} \cup (Versions \X {"released", "edited"})

VARIABLES
    loaded,    \* the edited configuration of the extension
    applied,   \* what a client that starts now runs
    safe,      \* the extension is in safe mode
    marker,    \* the release the marker file certifies, 0: no file
    holder,    \* who holds InfobaseExtensionLock
    start      \* each kernel's call of start(): where it is, its mode, attempt
               \* and decision, the two retries left, force_slow, the artifact
               \* _update has saved (Absent: none), what its client runs

infobase == <<loaded, applied, safe>>
vars == <<infobase, marker, holder, start>>

Mutating == {"inspect", "backup", "load", "apply", "verify", "safe", "rbLoad", "rbApply"}
Starting == Mutating \cup {"lock", "launch", "handshake", "repair", "commit"}
Out == {"idle", "failed", "running"}
AttemptLimit(k) == IF start[k].manual THEN 2 ELSE 3

At(k) == start[k].at

NewStart(place, isManual) ==
    [at |-> place, manual |-> isManual, attempt |-> 1, decision |-> "none",
     registrationRetry |-> TRUE, repairLeft |-> ~isManual, forced |-> FALSE,
     backup |-> Absent, client |-> Absent]

Init ==
    /\ loaded \in Artifacts /\ applied = loaded
    /\ safe \in BOOLEAN /\ (loaded = Absent => ~safe)
    /\ marker = 0 /\ holder = NoKernel
    /\ start = [k \in Kernels |-> NewStart("idle", FALSE)]

-----------------------------------------------------------------------------
(* prepare(): the decision. *)

Goto(k, place) == start' = [start EXCEPT ![k].at = place]

Decide(k, mode) == start' = [start EXCEPT ![k].at = "launch", ![k].decision = mode]

MutantLeave(k, place) ==
    /\ start' = [start EXCEPT ![k] = NewStart(place, place = "running" /\ @.manual)]
    /\ UNCHANGED holder

\* start() is left, and with it the locked section.
Leave(k, place) ==
    /\ start' = [start EXCEPT ![k] = NewStart(place, place = "running" /\ @.manual)]
    /\ holder' = IF holder = k THEN NoKernel ELSE holder

Fail(k) == Leave(k, "failed")

\* The marker is read without the lock; a manual start does not read it.
Start(k) ==
    /\ At(k) \in {"idle", "failed"}
    /\ \/ k \in Manual /\ start' = [start EXCEPT ![k] = NewStart("lock", TRUE)]
       \/ start' = [start EXCEPT ![k] =
             IF marker = Bundle[k]
             THEN [NewStart("launch", FALSE) EXCEPT !.decision = "fast"]
             ELSE NewStart("lock", FALSE)]
    /\ UNCHANGED <<infobase, marker, holder>>

\* The lock is taken; another kernel may have certified this release meanwhile.
Enter(k) ==
    /\ At(k) = "lock" /\ holder = NoKernel /\ ~start[k].manual
    /\ \/ /\ ~start[k].forced /\ marker = Bundle[k]
          /\ Decide(k, "fast")
          /\ UNCHANGED <<marker, holder>>
       \/ /\ start[k].forced \/ marker # Bundle[k]
          /\ Goto(k, "inspect")
          /\ marker' = 0 /\ holder' = k
    /\ UNCHANGED infobase

\* prepare_manual(): the user answers for the extension from here on.
EnterManual(k) ==
    /\ At(k) = "lock" /\ holder = NoKernel /\ start[k].manual
    /\ Decide(k, "manual")
    /\ marker' = 0
    /\ UNCHANGED <<infobase, holder>>

LockTimesOut(k) ==
    /\ At(k) \in {"lock", "commit"} /\ holder # NoKernel
    /\ Fail(k)
    /\ UNCHANGED <<infobase, marker>>

MutantOlder(k, artifact) == artifact \notin {Absent, Foreign, Released(Bundle[k])}

Older(k, artifact) == artifact \notin {Absent, Foreign} /\ artifact[1] < Bundle[k]

\* The dump is compared with the bundle; a foreign artifact, a newer one, or
\* one of the same version with another fingerprint is refused untouched.
Inspect(k) ==
    /\ At(k) = "inspect"
    /\ \/ /\ loaded = Absent
          /\ Goto(k, "load") /\ UNCHANGED holder
       \/ /\ loaded = Released(Bundle[k]) /\ ~start[k].forced
          /\ Decide(k, "probed") /\ holder' = NoKernel
       \/ /\ loaded = Released(Bundle[k]) /\ start[k].forced
          /\ Goto(k, "safe") /\ UNCHANGED holder
       \/ /\ Older(k, loaded)
          /\ Goto(k, "backup") /\ UNCHANGED holder
       \/ Fail(k)
    /\ UNCHANGED <<infobase, marker>>

-----------------------------------------------------------------------------
(* The mutation session. *)

DumpBackup(k) ==
    /\ At(k) = "backup"
    /\ \/ /\ start' = [start EXCEPT ![k].at = "load", ![k].backup = loaded]
          /\ UNCHANGED holder
       \/ Fail(k)
    /\ UNCHANGED <<infobase, marker>>

\* An error after the backup is rolled back; without one it leaves start().
Abandon(k) ==
    IF start[k].backup # Absent THEN Goto(k, "rbLoad") /\ UNCHANGED holder ELSE Fail(k)

\* A failed command may have taken effect.
Load(k) ==
    /\ At(k) = "load"
    /\ \/ loaded' = Released(Bundle[k]) /\ Goto(k, "apply") /\ UNCHANGED holder
       \/ loaded' \in {loaded, Released(Bundle[k])} /\ Abandon(k)
    /\ safe' = IF loaded = Absent /\ loaded' # Absent THEN TRUE ELSE safe
    /\ UNCHANGED <<applied, marker>>

Apply(k) ==
    /\ At(k) = "apply"
    /\ \/ applied' = loaded /\ Goto(k, "verify") /\ UNCHANGED holder
       \/ applied' \in {applied, loaded} /\ Abandon(k)
    /\ UNCHANGED <<loaded, safe, marker>>

\* _require_current: a second dump.
Verify(k) ==
    /\ At(k) = "verify"
    /\ \/ loaded = Released(Bundle[k]) /\ Goto(k, "safe") /\ UNCHANGED holder
       \/ Abandon(k)
    /\ UNCHANGED <<infobase, marker>>

DisableSafeMode(k) ==
    /\ At(k) = "safe"
    /\ \/ safe' = FALSE /\ Decide(k, "slow") /\ holder' = NoKernel
       \/ safe' \in {safe, FALSE} /\ Fail(k)
    /\ UNCHANGED <<loaded, applied, marker>>

\* _rollback(): its own failure is noted on the error that leaves start(), and
\* so is the outcome of its last dump.
RollbackLoad(k) ==
    /\ At(k) = "rbLoad"
    /\ \/ loaded' = start[k].backup /\ Goto(k, "rbApply") /\ UNCHANGED holder
       \/ loaded' \in {loaded, start[k].backup} /\ Fail(k)
    /\ UNCHANGED <<applied, safe, marker>>

RollbackApply(k) ==
    /\ At(k) = "rbApply"
    /\ applied' \in {applied, loaded}
    /\ Fail(k)
    /\ UNCHANGED <<loaded, safe, marker>>

-----------------------------------------------------------------------------
(* start(): attempts, repair and commit. *)

\* The next round of the loop, which ends in an assertion error.
NextAttempt(k, place, changed) ==
    start' = [start EXCEPT ![k] =
        [changed EXCEPT !.at = IF start[k].attempt = AttemptLimit(k) THEN "exceeded" ELSE place,
                        !.attempt = @ + 1, !.backup = Absent, !.client = Absent]]

Launch(k) ==
    /\ At(k) = "launch"
    /\ start' = [start EXCEPT ![k].at = "handshake", ![k].client = applied]
    /\ UNCHANGED <<infobase, marker, holder>>

MutantRegistrationLost(k) ==
    /\ At(k) \in {"launch", "handshake"}
    /\ NextAttempt(k, "launch", start[k])
    /\ UNCHANGED <<infobase, marker, holder>>

\* The debug UI vanished: one fresh attempt under the same decision.
RegistrationLost(k) ==
    /\ At(k) \in {"launch", "handshake"} /\ start[k].registrationRetry
    /\ NextAttempt(k, "launch", [start[k] EXCEPT !.registrationRetry = FALSE])
    /\ UNCHANGED <<infobase, marker, holder>>

\* Any other error, and any whose cleanup fails.
AttemptFails(k) ==
    /\ At(k) \in {"launch", "handshake"}
    /\ Fail(k)
    /\ UNCHANGED <<infobase, marker>>

\* A client of the product, whatever its release.
Answers(k) == start[k].client \notin {Absent, Foreign}

\* Both targets answer with the release's identity; safe mode is looked at
\* unless prepare() has just turned it off.
Verified(k) ==
    /\ Answers(k) /\ start[k].client[1] = Bundle[k]
    /\ start[k].decision \in {"fast", "probed"} => ~safe

HandshakeHolds(k) ==
    /\ At(k) = "handshake"
    /\ \/ start[k].manual /\ Answers(k) /\ Leave(k, "running")
       \/ ~start[k].manual /\ Verified(k) /\ Goto(k, "commit") /\ UNCHANGED holder
    /\ UNCHANGED <<infobase, marker>>

\* No client of this release, or one in safe mode, or a sound one whose handshake
\* cannot be read or times out: the extension is repaired once, if the decision did
\* not come from a mutation.
HandshakeMismatch(k) ==
    /\ At(k) = "handshake" /\ ~start[k].manual
    /\ start[k].repairLeft /\ start[k].decision \in {"fast", "probed"}
    /\ NextAttempt(k, "repair", [start[k] EXCEPT !.repairLeft = FALSE, !.forced = TRUE])
    /\ UNCHANGED <<infobase, marker, holder>>

\* invalidate_marker() without the lock, then prepare(force_slow=True).
Repair(k) ==
    /\ At(k) = "repair"
    /\ marker' = 0
    /\ Goto(k, "lock")
    /\ UNCHANGED <<infobase, holder>>

\* The marker is replaced as a whole under the lock, or not; the session is
\* closed again if that or a later step of start() fails.
Commit(k) ==
    /\ At(k) = "commit" /\ holder = NoKernel
    /\ \/ marker' = Bundle[k] /\ (Leave(k, "running") \/ Fail(k))
       \/ UNCHANGED marker /\ Fail(k)
    /\ UNCHANGED infobase

Close(k) ==
    /\ At(k) = "running"
    /\ Leave(k, "idle")
    /\ UNCHANGED <<infobase, marker>>

\* The kernel's process dies; the operating system releases its lock.
Crash(k) ==
    /\ At(k) \in Starting \cup {"running"}
    /\ Leave(k, "idle")
    /\ UNCHANGED <<infobase, marker>>

Step(k) ==
    \/ Enter(k) \/ EnterManual(k) \/ LockTimesOut(k) \/ Inspect(k)
    \/ DumpBackup(k) \/ Load(k) \/ Apply(k) \/ Verify(k) \/ DisableSafeMode(k)
    \/ RollbackLoad(k) \/ RollbackApply(k)
    \/ Launch(k) \/ RegistrationLost(k) \/ AttemptFails(k) \/ HandshakeHolds(k)
    \/ HandshakeMismatch(k) \/ Repair(k) \/ Commit(k)

Next == \E k \in Kernels : Start(k) \/ Step(k) \/ Close(k) \/ Crash(k)

Spec == Init /\ [][Next]_vars

\* A kernel's thread runs; every command has a time limit.
FairSpec == Spec /\ \A k \in Kernels : WF_vars(Step(k))

-----------------------------------------------------------------------------

TypeOK ==
    /\ loaded \in Artifacts /\ applied \in Artifacts /\ safe \in BOOLEAN
    /\ marker \in Versions \cup {0}
    /\ start \in [Kernels ->
          [at : Starting \cup Out \cup {"exceeded"}, manual : BOOLEAN, attempt : 1 .. 4,
           decision : {"none", "fast", "probed", "slow", "manual"},
           registrationRetry : BOOLEAN, repairLeft : BOOLEAN, forced : BOOLEAN,
           backup : Artifacts, client : Artifacts]]
    /\ \A k \in Kernels : holder = k <=> At(k) \in Mutating

Certified ==
    ({marker} \ {0}) \cup
    {Bundle[k] : k \in {j \in Kernels : At(j) = "running" /\ ~start[j].manual}}

InstalledSince(v, artifact) == \E w \in Versions : w >= v /\ artifact = Released(w)

\* What the marker certifies, and what a running kernel was admitted on, is
\* installed: that release or a later one, loaded and applied, out of safe
\* mode. prepare() and commit_handshake() take the lock apart, with a launch
\* between them, and kernels of other releases mutate, fail, roll back and die
\* in that gap.
CertifiedHolds ==
    \A v \in Certified :
        ~safe /\ InstalledSince(v, loaded) /\ InstalledSince(v, applied)

\* A start ends with a session or an error of its own, whatever the other
\* kernels do with the lock and the marker; the retries never use up the loop.
StartEnds == \A k \in Kernels : At(k) \in Starting ~> At(k) \in Out

\* extension_lifecycle.py says "repair through the Agent if either check fails":
\* a repair that returns leaves its release applied.
RepairRepairs ==
    [][\A k \in Kernels :
          At(k) = "safe" /\ start[k].forced /\ At(k)' = "launch" =>
              applied' = Released(Bundle[k])]_vars

=============================================================================
