---------------------- MODULE WorkerGenerationsProofs ----------------------
(***************************************************************************)
(* Proofs about WorkerGenerations: the reference counts are exact, what a  *)
(* paused command holds stays live, host and target agree about the root,  *)
(* the debugger's slots follow the generations, and loads compose.         *)
(***************************************************************************)
EXTENDS WorkerGenerations, FiniteSetTheorems, TLAPS

-----------------------------------------------------------------------------
(* Types.                                                                  *)

HostType ==
    [state : {"empty", "preparing", "ready", "broken"},
     next : 1 .. MaxGen + 1, pending : Gens \cup {0}, active : Gens \cup {0},
     records : SUBSET Gens, retained : SUBSET Gens,
     regs : [Gens -> SUBSET Regs], refs : [Regs -> Int], lease : [Owners -> Gens \cup {0}]]
TargetType == [registered : SUBSET Regs, instantiated : SUBSET Regs, failed : SUBSET Regs]
SpotsType == [slots : SUBSET Marks, unknown : BOOLEAN, views : SUBSET Gens,
              marks : SUBSET Marks, removed : SUBSET Marks]
PubType == [gen : Gens \cup {0}, rev : Nat, base : SUBSET Units, methods : SUBSET Methods]
SvcType == [units : SUBSET Units, rev : Nat, owned : Gens \cup {0}]
Steps == {"idle", "stage", "root", "slots", "swap", "restore", "discard", "own"}
PlanType == [op : {"none", "load", "cell"}, who : Callers \cup {""}, step : Steps,
             marks : SUBSET Marks, before : SUBSET Marks]
CallType == [op : {"none", "load", "cell", "release"}, asked : SUBSET (Units \cup Methods),
             graph : SUBSET (Units \cup Methods), rev : Nat, gen : Gens \cup {0},
             strict : BOOLEAN]
RemoteType == [root : Gens \cup {0}, prepared : Gens \cup {0}, slots : SUBSET Marks]
SeenType == [lost : BOOLEAN, acked : SUBSET (Units \cup Methods)]

-----------------------------------------------------------------------------
(* What the operations make of the ledger, field by field.                 *)

Kept(h, g) == g = h.active \/ g \in h.retained \/ g \in Pinned(h)

LEMMA CollectedFacts ==
    ASSUME NEW h \in HostType
    PROVE  /\ Collected(h) \in HostType
           /\ Collected(h).records = {g \in h.records : Kept(h, g)}
           /\ Collected(h).state = h.state /\ Collected(h).next = h.next
           /\ Collected(h).pending = h.pending /\ Collected(h).active = h.active
           /\ Collected(h).retained = h.retained /\ Collected(h).regs = h.regs
           /\ Collected(h).refs = h.refs /\ Collected(h).lease = h.lease
BY DEF HostType, Collected, Kept

LEMMA CountFacts ==
    ASSUME NEW refs \in [Regs -> Int], NEW regs \in SUBSET Regs, NEW d \in Int
    PROVE  /\ Count(refs, regs, d) \in [Regs -> Int]
           /\ \A r \in Regs : Count(refs, regs, d)[r] = refs[r] + (IF r \in regs THEN d ELSE 0)
BY DEF Count

LEMMA PrepareFacts ==
    ASSUME NEW h \in HostType, NEW regs \in SUBSET Regs, h.next <= MaxGen
    PROVE  /\ Prepare(h, regs) \in HostType
           /\ Prepare(h, regs).state = "preparing" /\ Prepare(h, regs).next = h.next + 1
           /\ Prepare(h, regs).pending = h.next /\ Prepare(h, regs).active = h.active
           /\ Prepare(h, regs).records = h.records /\ Prepare(h, regs).retained = h.retained
           /\ Prepare(h, regs).regs = [h.regs EXCEPT ![h.next] = regs]
           /\ Prepare(h, regs).refs = h.refs /\ Prepare(h, regs).lease = h.lease
<1>1. /\ h.next \in Gens /\ h.next \in Gens \cup {0} /\ h.next + 1 \in 1 .. MaxGen + 1
      /\ h.regs \in [Gens -> SUBSET Regs]
  BY MaxGenAssumption DEF HostType, Gens
<1>2. [h.regs EXCEPT ![h.next] = regs] \in [Gens -> SUBSET Regs]
  BY <1>1
<1> DEFINE p == [h EXCEPT !.state = "preparing", !.pending = h.next, !.next = @ + 1,
                          !.regs = [@ EXCEPT ![h.next] = regs]]
<1>3. Prepare(h, regs) = p
  BY DEF Prepare
<1>4. /\ p.state = "preparing" /\ p.next = h.next + 1
      /\ p.pending = h.next /\ p.active = h.active
      /\ p.records = h.records /\ p.retained = h.retained
      /\ p.regs = [h.regs EXCEPT ![h.next] = regs] /\ p.refs = h.refs /\ p.lease = h.lease
  BY DEF HostType
<1>5. p \in HostType
  BY <1>1, <1>2 DEF HostType
<1> QED BY <1>3, <1>4, <1>5

LEMMA DiscardFacts ==
    ASSUME NEW h \in HostType
    PROVE  /\ Discard(h) \in HostType
           /\ Discard(h).state = (IF h.active = 0 THEN "empty" ELSE "ready")
           /\ Discard(h).next = h.next /\ Discard(h).pending = 0 /\ Discard(h).active = h.active
           /\ Discard(h).records = h.records /\ Discard(h).retained = h.retained
           /\ Discard(h).regs = h.regs /\ Discard(h).refs = h.refs /\ Discard(h).lease = h.lease
BY DEF HostType, Discard

LEMMA BrokenFacts ==
    ASSUME NEW h \in HostType
    PROVE  /\ Broken(h) \in HostType
           /\ Broken(h).state = "broken" /\ Broken(h).next = h.next
           /\ Broken(h).pending = 0 /\ Broken(h).active = h.active
           /\ Broken(h).records = h.records /\ Broken(h).retained = h.retained
           /\ Broken(h).regs = h.regs /\ Broken(h).refs = h.refs /\ Broken(h).lease = h.lease
BY DEF HostType, Broken

LEMMA ConfirmFacts ==
    ASSUME NEW h \in HostType, h.pending \in Gens
    PROVE  /\ Confirm(h) \in HostType
           /\ Confirm(h).state = "ready" /\ Confirm(h).next = h.next
           /\ Confirm(h).pending = 0 /\ Confirm(h).active = h.pending
           /\ Confirm(h).retained = h.retained \cup {h.pending}
           /\ Confirm(h).records = {g \in h.records \cup {h.pending} :
                  g = h.pending \/ g \in h.retained \/ g \in Pinned(h)}
           /\ Confirm(h).regs = h.regs /\ Confirm(h).lease = h.lease
           /\ \A r \in Regs : Confirm(h).refs[r] =
                 h.refs[r] + (IF r \in h.regs[h.pending] THEN 1 ELSE 0)
                 - (IF h.active # 0 /\ h.active \notin h.retained /\ r \in h.regs[h.active]
                    THEN 1 ELSE 0)
<1> DEFINE back == h.active # 0 /\ h.active \notin h.retained
           given == Count(h.refs, h.regs[h.active], -1)
           refs == IF back THEN given ELSE h.refs
           taken == Count(refs, h.regs[h.pending], 1)
           k == [h EXCEPT
                   !.state = "ready", !.pending = 0, !.active = h.pending,
                   !.records = @ \cup {h.pending}, !.retained = @ \cup {h.pending},
                   !.refs = taken]
<1>1. /\ h.refs \in [Regs -> Int] /\ h.regs[h.pending] \in SUBSET Regs
      /\ h.active # 0 => h.regs[h.active] \in SUBSET Regs
  BY DEF HostType
<1>2. /\ refs \in [Regs -> Int]
      /\ \A r \in Regs : refs[r] = h.refs[r] - (IF back /\ r \in h.regs[h.active] THEN 1 ELSE 0)
  <2>1. CASE back
    <3>0. h.refs \in [Regs -> Int] /\ h.regs[h.active] \in SUBSET Regs /\ -1 \in Int
      BY <1>1, <2>1
    <3> HIDE DEF back
    <3>1. /\ given \in [Regs -> Int]
          /\ \A r \in Regs :
                given[r] = h.refs[r] + (IF r \in h.regs[h.active] THEN -1 ELSE 0)
      BY ONLY <3>0, CountFacts
    <3>2. refs = given /\ \A r \in Regs : h.refs[r] \in Int
      BY <1>1, <2>1
    <3> HIDE DEF given, refs
    <3> QED BY <2>1, <3>1, <3>2
  <2>2. CASE ~back
    <3>1. refs = h.refs /\ \A r \in Regs : h.refs[r] \in Int
      BY <1>1, <2>2
    <3> HIDE DEF given, refs
    <3> QED BY <1>1, <2>2, <3>1
  <2> QED BY <2>1, <2>2
<1> HIDE DEF refs
<1>3. /\ taken \in [Regs -> Int]
      /\ \A r \in Regs : taken[r] = refs[r] + (IF r \in h.regs[h.pending] THEN 1 ELSE 0)
  BY <1>1, <1>2, CountFacts
<1> HIDE DEF taken
<1>4. k \in HostType
  BY <1>3 DEF HostType
<1>5. /\ k.state = "ready" /\ k.next = h.next /\ k.pending = 0 /\ k.active = h.pending
      /\ k.retained = h.retained \cup {h.pending} /\ k.records = h.records \cup {h.pending}
      /\ k.regs = h.regs /\ k.lease = h.lease /\ k.refs = taken
  BY DEF HostType
<1>6. Confirm(h) = Collected(k)
  BY Zenon DEF Confirm, taken, refs
<1> HIDE DEF k
<1>7. Pinned(k) = Pinned(h)
  BY <1>5 DEF Pinned
<1>8. \A g \in k.records : Kept(k, g) <=> g = h.pending \/ g \in h.retained \/ g \in Pinned(h)
  BY <1>5, <1>7 DEF Kept
<1>9. \A r \in Regs : h.refs[r] \in Int
  BY <1>1
<1>10. \A r \in Regs : taken[r] =
           h.refs[r] + (IF r \in h.regs[h.pending] THEN 1 ELSE 0)
           - (IF back /\ r \in h.regs[h.active] THEN 1 ELSE 0)
  BY <1>2, <1>3, <1>9
<1> QED BY <1>4, <1>5, <1>6, <1>8, <1>10, CollectedFacts

LEMMA PinActiveFacts ==
    ASSUME NEW h \in HostType, h.active # 0, NEW o \in Owners
    PROVE  /\ PinActive(h, o) \in HostType
           /\ PinActive(h, o).state = h.state /\ PinActive(h, o).next = h.next
           /\ PinActive(h, o).pending = h.pending /\ PinActive(h, o).active = h.active
           /\ PinActive(h, o).records = h.records /\ PinActive(h, o).retained = h.retained
           /\ PinActive(h, o).regs = h.regs
           /\ PinActive(h, o).lease = [h.lease EXCEPT ![o] = h.active]
           /\ \A r \in Regs : PinActive(h, o).refs[r] =
                 h.refs[r] + (IF r \in h.regs[h.active] THEN 1 ELSE 0)
<1> DEFINE refs == Count(h.refs, h.regs[h.active], 1)
           k == [h EXCEPT !.lease = [@ EXCEPT ![o] = h.active], !.refs = refs]
<1>1. /\ refs \in [Regs -> Int]
      /\ \A r \in Regs : refs[r] = h.refs[r] + (IF r \in h.regs[h.active] THEN 1 ELSE 0)
  BY CountFacts DEF HostType
<1>2. PinActive(h, o) = k
  BY DEF PinActive, HostType
<1> HIDE DEF refs
<1>3. k \in HostType
  BY <1>1 DEF HostType
<1>4. /\ k.state = h.state /\ k.next = h.next /\ k.pending = h.pending /\ k.active = h.active
      /\ k.records = h.records /\ k.retained = h.retained /\ k.regs = h.regs
      /\ k.lease = [h.lease EXCEPT ![o] = h.active] /\ k.refs = refs
  BY DEF HostType
<1> QED BY <1>1, <1>2, <1>3, <1>4

LEMMA ReleaseHandleFacts ==
    ASSUME NEW h \in HostType, NEW g \in Gens
    PROVE  /\ ReleaseHandle(h, g) \in HostType
           /\ ReleaseHandle(h, g).state = h.state /\ ReleaseHandle(h, g).next = h.next
           /\ ReleaseHandle(h, g).pending = h.pending /\ ReleaseHandle(h, g).active = h.active
           /\ ReleaseHandle(h, g).retained = h.retained \ {g}
           /\ ReleaseHandle(h, g).records = {x \in h.records :
                  x = h.active \/ x \in h.retained \ {g} \/ x \in Pinned(h)}
           /\ ReleaseHandle(h, g).regs = h.regs /\ ReleaseHandle(h, g).lease = h.lease
           /\ \A r \in Regs : ReleaseHandle(h, g).refs[r] =
                 h.refs[r] - (IF g # h.active /\ r \in h.regs[g] THEN 1 ELSE 0)
<1> DEFINE refs == IF g = h.active THEN h.refs ELSE Count(h.refs, h.regs[g], -1)
           k == [h EXCEPT !.retained = @ \ {g}, !.refs = refs]
<1>1. /\ refs \in [Regs -> Int]
      /\ \A r \in Regs :
            refs[r] = h.refs[r] - (IF g # h.active /\ r \in h.regs[g] THEN 1 ELSE 0)
  BY CountFacts DEF HostType
<1>2. ReleaseHandle(h, g) = Collected(k)
  BY DEF ReleaseHandle, HostType
<1> HIDE DEF refs
<1>3. k \in HostType
  BY <1>1 DEF HostType
<1>4. /\ k.state = h.state /\ k.next = h.next /\ k.pending = h.pending /\ k.active = h.active
      /\ k.records = h.records /\ k.retained = h.retained \ {g} /\ k.regs = h.regs
      /\ k.lease = h.lease /\ k.refs = refs
  BY DEF HostType
<1> HIDE DEF k
<1>5. Pinned(k) = Pinned(h)
  BY <1>4 DEF Pinned
<1>6. \A x \in h.records :
          Kept(k, x) <=> x = h.active \/ x \in h.retained \ {g} \/ x \in Pinned(h)
  BY <1>4, <1>5 DEF Kept
<1> QED BY <1>1, <1>2, <1>3, <1>4, <1>6, CollectedFacts

LEMMA ReleasePinFacts ==
    ASSUME NEW h \in HostType, NEW o \in Owners, h.lease[o] # 0
    PROVE  /\ ReleasePin(h, o) \in HostType
           /\ ReleasePin(h, o).state = h.state /\ ReleasePin(h, o).next = h.next
           /\ ReleasePin(h, o).pending = h.pending /\ ReleasePin(h, o).active = h.active
           /\ ReleasePin(h, o).retained = h.retained
           /\ ReleasePin(h, o).lease = [h.lease EXCEPT ![o] = 0]
           /\ ReleasePin(h, o).records = {g \in h.records :
                  \/ g = h.active \/ g \in h.retained
                  \/ \E p \in Owners \ {o} : g = h.lease[p] /\ g # 0}
           /\ ReleasePin(h, o).regs = h.regs
           /\ \A r \in Regs : ReleasePin(h, o).refs[r] =
                 h.refs[r] - (IF r \in h.regs[h.lease[o]] THEN 1 ELSE 0)
<1> DEFINE refs == Count(h.refs, h.regs[h.lease[o]], -1)
           k == [h EXCEPT !.lease = [@ EXCEPT ![o] = 0], !.refs = refs]
<1>1. /\ refs \in [Regs -> Int]
      /\ \A r \in Regs : refs[r] = h.refs[r] - (IF r \in h.regs[h.lease[o]] THEN 1 ELSE 0)
  BY CountFacts DEF HostType
<1>2. ReleasePin(h, o) = Collected(k)
  BY DEF ReleasePin, HostType
<1> HIDE DEF refs
<1>3. k \in HostType
  BY <1>1 DEF HostType
<1>4. /\ k.state = h.state /\ k.next = h.next /\ k.pending = h.pending /\ k.active = h.active
      /\ k.records = h.records /\ k.retained = h.retained /\ k.regs = h.regs
      /\ k.lease = [h.lease EXCEPT ![o] = 0] /\ k.refs = refs
  BY DEF HostType
<1> HIDE DEF k
<1>5. \A g : g \in Pinned(k) <=> \E p \in Owners \ {o} : g = h.lease[p] /\ g # 0
  BY <1>4 DEF Pinned, HostType
<1>6. \A g \in h.records : Kept(k, g) <=>
          \/ g = h.active \/ g \in h.retained
          \/ \E p \in Owners \ {o} : g = h.lease[p] /\ g # 0
  BY <1>4, <1>5 DEF Kept
<1> QED BY <1>1, <1>2, <1>3, <1>4, <1>6, CollectedFacts

-----------------------------------------------------------------------------
(* The shape of the ledger.                                                *)

\* Generations are prepared in order; the records are what is active, retained or pinned,
\* and a candidate is not among them.
Shape(h) ==
    /\ h.state = "preparing" <=> h.pending # 0
    /\ h.state = "ready" => h.active # 0
    /\ h.state = "empty" => h.active = 0
    /\ h.pending # 0 => h.next = h.pending + 1
    /\ \A g \in h.records : g < h.next /\ (h.pending # 0 => g < h.pending)
    /\ h.active = 0 => h.records = {}
    /\ h.active # 0 => h.active \in h.records
    /\ h.retained \subseteq h.records /\ Pinned(h) \subseteq h.records
    /\ \A g \in h.records : Kept(h, g)

LEMMA PrepareShape ==
    ASSUME NEW h \in HostType, NEW regs \in SUBSET Regs, h.next <= MaxGen, Shape(h), Available(h)
    PROVE  Shape(Prepare(h, regs))
<1> DEFINE k == Prepare(h, regs)
<1>1. h.next \in Nat \ {0} /\ h.records \subseteq Nat
  BY MaxGenAssumption DEF HostType, Gens
<1>3. /\ k.state = "preparing" /\ k.next = h.next + 1
      /\ k.pending = h.next /\ k.active = h.active
      /\ k.records = h.records /\ k.retained = h.retained /\ k.lease = h.lease
  BY PrepareFacts
<1> HIDE DEF k
<1>2. Pinned(k) = Pinned(h)
  BY <1>3 DEF Pinned
<1>4. h.pending = 0
  BY DEF Shape, Available
<1>5. \A g \in k.records : Kept(k, g)
  BY <1>2, <1>3 DEF Shape, Kept
<1>9. Shape(k)
  BY <1>1, <1>2, <1>3, <1>4, <1>5 DEF Shape
<1> QED BY <1>9 DEF k

LEMMA DiscardShape ==
    ASSUME NEW h \in HostType, Shape(h) PROVE Shape(Discard(h))
<1>1. Pinned(Discard(h)) = Pinned(h)
  BY DiscardFacts DEF Pinned
<1> QED BY <1>1, DiscardFacts DEF Shape, Kept

LEMMA BrokenShape ==
    ASSUME NEW h \in HostType, Shape(h) PROVE Shape(Broken(h))
<1>1. Pinned(Broken(h)) = Pinned(h)
  BY BrokenFacts DEF Pinned
<1> QED BY <1>1, BrokenFacts DEF Shape, Kept

LEMMA ConfirmShape ==
    ASSUME NEW h \in HostType, Shape(h), h.pending # 0 PROVE Shape(Confirm(h))
<1> DEFINE k == Confirm(h)
<1>1. h.pending \in Gens /\ h.pending \in Nat /\ h.next \in Nat /\ h.records \subseteq Nat
  BY MaxGenAssumption DEF HostType, Gens
<1>2. /\ k.state = "ready" /\ k.next = h.next /\ k.pending = 0 /\ k.active = h.pending
      /\ k.retained = h.retained \cup {h.pending}
      /\ k.records = {g \in h.records \cup {h.pending} :
             g = h.pending \/ g \in h.retained \/ g \in Pinned(h)}
  BY <1>1, ConfirmFacts
<1>3. Pinned(k) = Pinned(h)
  BY <1>1, ConfirmFacts DEF Pinned
<1> HIDE DEF k
<1>4. \A g \in k.records : Kept(k, g)
  BY <1>2, <1>3 DEF Kept
<1>5. \A g \in k.records : g < k.next
  BY <1>1, <1>2 DEF Shape
<1>6. k.retained \subseteq k.records
  BY <1>2 DEF Shape
<1>7. Pinned(k) \subseteq k.records
  BY <1>2, <1>3 DEF Shape
<1>9. Shape(k)
  BY <1>1, <1>2, <1>4, <1>5, <1>6, <1>7 DEF Shape
<1> QED BY <1>9 DEF k

LEMMA PinActiveShape ==
    ASSUME NEW h \in HostType, Shape(h), h.active # 0, NEW o \in Owners, h.lease[o] = 0
    PROVE  Shape(PinActive(h, o))
<1> DEFINE k == PinActive(h, o)
<1>1. /\ k.state = h.state /\ k.next = h.next /\ k.pending = h.pending /\ k.active = h.active
      /\ k.records = h.records /\ k.retained = h.retained
      /\ k.lease = [h.lease EXCEPT ![o] = h.active] /\ h.lease \in [Owners -> Gens \cup {0}]
  BY PinActiveFacts DEF HostType
<1> HIDE DEF k
<1>2. Pinned(k) = Pinned(h) \cup {h.active}
  BY <1>1 DEF Pinned
<1>3. \A g \in k.records : Kept(k, g)
  BY <1>1, <1>2 DEF Shape, Kept
<1>9. Shape(k)
  BY <1>1, <1>2, <1>3 DEF Shape
<1> QED BY <1>9 DEF k

LEMMA ReleaseHandleShape ==
    ASSUME NEW h \in HostType, Shape(h), NEW g \in Gens PROVE Shape(ReleaseHandle(h, g))
<1> DEFINE k == ReleaseHandle(h, g)
<1>1. /\ k.state = h.state /\ k.next = h.next /\ k.pending = h.pending /\ k.active = h.active
      /\ k.retained = h.retained \ {g}
      /\ k.records = {x \in h.records :
             x = h.active \/ x \in h.retained \ {g} \/ x \in Pinned(h)}
  BY ReleaseHandleFacts
<1>2. Pinned(k) = Pinned(h)
  BY ReleaseHandleFacts DEF Pinned
<1> HIDE DEF k
<1>3. \A x \in k.records : Kept(k, x)
  BY <1>1, <1>2 DEF Kept
<1>4. k.retained \subseteq k.records /\ Pinned(k) \subseteq k.records
  BY <1>1, <1>2 DEF Shape
<1>9. Shape(k)
  BY <1>1, <1>3, <1>4 DEF Shape
<1> QED BY <1>9 DEF k

LEMMA ReleasePinShape ==
    ASSUME NEW h \in HostType, Shape(h), NEW o \in Owners, h.lease[o] # 0
    PROVE  Shape(ReleasePin(h, o))
<1> DEFINE k == ReleasePin(h, o)
<1>1. /\ k.state = h.state /\ k.next = h.next /\ k.pending = h.pending /\ k.active = h.active
      /\ k.retained = h.retained
      /\ k.records = {g \in h.records :
             \/ g = h.active \/ g \in h.retained
             \/ \E p \in Owners \ {o} : g = h.lease[p] /\ g # 0}
      /\ k.lease = [h.lease EXCEPT ![o] = 0] /\ h.lease \in [Owners -> Gens \cup {0}]
  BY ReleasePinFacts DEF HostType
<1> HIDE DEF k
<1>2. \A g : g \in Pinned(k) <=> \E p \in Owners \ {o} : g = h.lease[p] /\ g # 0
  BY <1>1 DEF Pinned
<1>3. Pinned(k) \subseteq Pinned(h)
  BY <1>2 DEF Pinned
<1>4. \A g \in k.records : Kept(k, g)
  BY <1>1, <1>2 DEF Kept
<1>5. k.retained \subseteq k.records
  BY <1>1 DEF Shape
<1>6. Pinned(k) \subseteq k.records
  BY <1>1, <1>2, <1>3 DEF Shape
<1>9. Shape(k)
  BY <1>1, <1>4, <1>5, <1>6 DEF Shape
<1> QED BY <1>9 DEF k

-----------------------------------------------------------------------------
(* The reference counts.                                                   *)

\* Who counts a registration.
Holders(h, r) == {g \in h.records : r \in h.regs[g] /\ (g = h.active \/ g \in h.retained)}
Leases(h, r) == {o \in Owners : h.lease[o] # 0 /\ r \in h.regs[h.lease[o]]}
Exact(h) == \A r \in Regs : h.refs[r] = Cardinality(Holders(h, r)) + Cardinality(Leases(h, r))

LEMMA CountedFinite ==
    ASSUME NEW h \in HostType, NEW r
    PROVE  /\ IsFiniteSet(Holders(h, r)) /\ Cardinality(Holders(h, r)) \in Nat
           /\ IsFiniteSet(Leases(h, r)) /\ Cardinality(Leases(h, r)) \in Nat
<1>1. IsFiniteSet(Gens)
  BY MaxGenAssumption, FS_Interval DEF Gens
<1>2. Holders(h, r) \in SUBSET Gens
  BY DEF Holders, HostType
<1>3. IsFiniteSet({"main"} \cup {"cell"})
  BY FS_Singleton, FS_AddElement
<1>4. Owners = {"main"} \cup {"cell"}
  BY DEF Owners
<1>5. Leases(h, r) \in SUBSET Owners
  BY DEF Leases
<1>6. IsFiniteSet(Holders(h, r)) /\ IsFiniteSet(Leases(h, r))
  BY <1>1, <1>2, <1>3, <1>4, <1>5, FS_Subset
<1> QED BY <1>6, FS_CardinalityType

\* One more, one less.
LEMMA OneMore ==
    ASSUME NEW S, IsFiniteSet(S), NEW x, x \notin S
    PROVE  Cardinality(S \cup {x}) = Cardinality(S) + 1
BY FS_AddElement

LEMMA OneLess ==
    ASSUME NEW S, IsFiniteSet(S), NEW x \in S
    PROVE  Cardinality(S \ {x}) = Cardinality(S) - 1
BY FS_RemoveElement

\* What leaves the ledger's references alone.
LEMMA SameCounts ==
    ASSUME NEW h, NEW k, Exact(h), k.refs = h.refs, k.lease = h.lease, k.records = h.records,
           k.active = h.active, k.retained = h.retained,
           \A g \in h.records : k.regs[g] = h.regs[g],
           \A o \in Owners : h.lease[o] # 0 => k.regs[h.lease[o]] = h.regs[h.lease[o]]
    PROVE  Exact(k)
<1>1. ASSUME NEW r \in Regs PROVE Holders(k, r) = Holders(h, r) /\ Leases(k, r) = Leases(h, r)
  BY DEF Holders, Leases
<1> QED BY <1>1 DEF Exact

\* The candidate takes one reference to each of its registrations; the superseded
\* generation gives its own back unless it is still retained.
LEMMA ConfirmExact ==
    ASSUME NEW h \in HostType, Shape(h), Exact(h), h.pending # 0 PROVE Exact(Confirm(h))
<1> DEFINE k == Confirm(h)
           back == h.active # 0 /\ h.active \notin h.retained
<1>1. h.pending \in Gens /\ h.pending \in Nat /\ h.records \subseteq Nat
  BY DEF HostType, Gens
<1>2. h.pending \notin h.records
  BY <1>1 DEF Shape
<1>3. /\ k.active = h.pending /\ k.retained = h.retained \cup {h.pending}
      /\ k.records = {g \in h.records \cup {h.pending} :
             g = h.pending \/ g \in h.retained \/ g \in Pinned(h)}
      /\ k.regs = h.regs /\ k.lease = h.lease
      /\ \A r \in Regs : k.refs[r] =
                 h.refs[r] + (IF r \in h.regs[h.pending] THEN 1 ELSE 0)
                 - (IF back /\ r \in h.regs[h.active] THEN 1 ELSE 0)
  BY <1>1, ConfirmFacts
<1> HIDE DEF k
<1>4. ASSUME NEW r \in Regs
      PROVE  k.refs[r] = Cardinality(Holders(k, r)) + Cardinality(Leases(k, r))
  <2> DEFINE S == Holders(h, r)
             T == IF back /\ r \in h.regs[h.active] THEN S \ {h.active} ELSE S
             U == IF r \in h.regs[h.pending] THEN T \cup {h.pending} ELSE T
  <2>1. Leases(k, r) = Leases(h, r)
    BY <1>3 DEF Leases
  <2>2. /\ IsFiniteSet(S) /\ Cardinality(S) \in Nat /\ Cardinality(Leases(h, r)) \in Nat
        /\ h.refs[r] = Cardinality(S) + Cardinality(Leases(h, r))
    BY CountedFinite DEF Exact
  <2>3. IsFiniteSet(T) /\ Cardinality(T) =
            Cardinality(S) - (IF back /\ r \in h.regs[h.active] THEN 1 ELSE 0)
    <3>1. CASE back /\ r \in h.regs[h.active]
      <4>1. h.active \in S
        BY <3>1 DEF Holders, Shape
      <4>2. IsFiniteSet(S \ {h.active}) /\ Cardinality(S \ {h.active}) = Cardinality(S) - 1
        BY <2>2, <4>1, OneLess, FS_RemoveElement
      <4> HIDE DEF S
      <4> QED BY <3>1, <4>2
    <3>2. CASE ~(back /\ r \in h.regs[h.active])
      <4> HIDE DEF S
      <4> QED BY <2>2, <3>2
    <3> QED BY <3>1, <3>2
  <2>4. h.pending \notin T
    BY <1>2 DEF Holders
  <2>5. Holders(k, r) = U
    BY <1>1, <1>2, <1>3 DEF Holders, Shape
  <2> HIDE DEF S, T
  <2>6. Cardinality(U) = Cardinality(T) + (IF r \in h.regs[h.pending] THEN 1 ELSE 0)
    <3>1. CASE r \in h.regs[h.pending]
      <4>1. Cardinality(T \cup {h.pending}) = Cardinality(T) + 1
        BY <2>3, <2>4, OneMore
      <4> QED BY <3>1, <4>1
    <3>2. CASE r \notin h.regs[h.pending]
      BY <2>2, <2>3, <3>2
    <3> QED BY <3>1, <3>2
  <2> HIDE DEF U, back
  <2> QED BY <1>3, <2>1, <2>2, <2>3, <2>5, <2>6
<1>5. Exact(k)
  BY <1>4 DEF Exact
<1> QED BY <1>5 DEF k

\* A lease counts the registrations of what it pins.
LEMMA PinActiveExact ==
    ASSUME NEW h \in HostType, Exact(h), h.active # 0, NEW o \in Owners, h.lease[o] = 0
    PROVE  Exact(PinActive(h, o))
<1> DEFINE k == PinActive(h, o)
<1>1. /\ k.active = h.active /\ k.records = h.records /\ k.retained = h.retained
      /\ k.regs = h.regs /\ k.lease = [h.lease EXCEPT ![o] = h.active]
      /\ h.lease \in [Owners -> Gens \cup {0}]
      /\ \A r \in Regs : k.refs[r] = h.refs[r] + (IF r \in h.regs[h.active] THEN 1 ELSE 0)
  BY PinActiveFacts DEF HostType
<1> HIDE DEF k
<1>2. ASSUME NEW r \in Regs
      PROVE  k.refs[r] = Cardinality(Holders(k, r)) + Cardinality(Leases(k, r))
  <2> DEFINE S == Leases(h, r)
  <2>1. Holders(k, r) = Holders(h, r)
    BY <1>1 DEF Holders
  <2>2. /\ IsFiniteSet(S) /\ Cardinality(S) \in Nat /\ Cardinality(Holders(h, r)) \in Nat
        /\ h.refs[r] = Cardinality(S) + Cardinality(Holders(h, r))
    BY CountedFinite DEF Exact
  <2>3. Leases(k, r) = IF r \in h.regs[h.active] THEN S \cup {o} ELSE S
    BY <1>1 DEF Leases
  <2>4. o \notin S
    BY DEF Leases
  <2> HIDE DEF S
  <2>5. Cardinality(S \cup {o}) = Cardinality(S) + 1
    BY <2>2, <2>4, OneMore
  <2> QED BY <1>1, <2>1, <2>2, <2>3, <2>5
<1>3. Exact(k)
  BY <1>2 DEF Exact
<1> QED BY <1>3 DEF k

\* A released generation keeps its references while it is active.
LEMMA ReleaseHandleExact ==
    ASSUME NEW h \in HostType, Shape(h), Exact(h), NEW g \in h.retained
    PROVE  Exact(ReleaseHandle(h, g))
<1> DEFINE k == ReleaseHandle(h, g)
<1>0. g \in Gens /\ g \in h.records
  BY DEF HostType, Shape
<1>1. /\ k.active = h.active /\ k.retained = h.retained \ {g}
      /\ k.records = {x \in h.records :
             x = h.active \/ x \in h.retained \ {g} \/ x \in Pinned(h)}
      /\ k.regs = h.regs /\ k.lease = h.lease
      /\ \A r \in Regs : k.refs[r] =
             h.refs[r] - (IF g # h.active /\ r \in h.regs[g] THEN 1 ELSE 0)
  BY <1>0, ReleaseHandleFacts
<1> HIDE DEF k
<1>2. ASSUME NEW r \in Regs
      PROVE  k.refs[r] = Cardinality(Holders(k, r)) + Cardinality(Leases(k, r))
  <2> DEFINE S == Holders(h, r)
             gone == g # h.active /\ r \in h.regs[g]
  <2>1. Leases(k, r) = Leases(h, r)
    BY <1>1 DEF Leases
  <2>2. /\ IsFiniteSet(S) /\ Cardinality(S) \in Nat /\ Cardinality(Leases(h, r)) \in Nat
        /\ h.refs[r] = Cardinality(S) + Cardinality(Leases(h, r))
    BY CountedFinite DEF Exact
  <2>3. Holders(k, r) = IF gone THEN S \ {g} ELSE S
    BY <1>0, <1>1 DEF Holders
  <2>4. gone => g \in S
    BY <1>0 DEF Holders
  <2> HIDE DEF S
  <2>5. gone => Cardinality(S \ {g}) = Cardinality(S) - 1
    BY <2>2, <2>4, OneLess
  <2> QED BY <1>1, <2>1, <2>2, <2>3, <2>5
<1>3. Exact(k)
  BY <1>2 DEF Exact
<1> QED BY <1>3 DEF k

\* A lease that ends gives back what it counted.
LEMMA ReleasePinExact ==
    ASSUME NEW h \in HostType, Exact(h), NEW o \in Owners, h.lease[o] # 0
    PROVE  Exact(ReleasePin(h, o))
<1> DEFINE k == ReleasePin(h, o)
<1>1. /\ k.active = h.active /\ k.retained = h.retained
      /\ k.records = {g \in h.records :
             \/ g = h.active \/ g \in h.retained
             \/ \E p \in Owners \ {o} : g = h.lease[p] /\ g # 0}
      /\ k.regs = h.regs /\ k.lease = [h.lease EXCEPT ![o] = 0]
      /\ h.lease \in [Owners -> Gens \cup {0}]
      /\ \A r \in Regs : k.refs[r] =
             h.refs[r] - (IF r \in h.regs[h.lease[o]] THEN 1 ELSE 0)
  BY ReleasePinFacts DEF HostType
<1> HIDE DEF k
<1>2. ASSUME NEW r \in Regs
      PROVE  k.refs[r] = Cardinality(Holders(k, r)) + Cardinality(Leases(k, r))
  <2> DEFINE S == Leases(h, r)
  <2>1. Holders(k, r) = Holders(h, r)
    BY <1>1 DEF Holders
  <2>2. /\ IsFiniteSet(S) /\ Cardinality(S) \in Nat /\ Cardinality(Holders(h, r)) \in Nat
        /\ h.refs[r] = Cardinality(S) + Cardinality(Holders(h, r))
    BY CountedFinite DEF Exact
  <2>3. Leases(k, r) = IF r \in h.regs[h.lease[o]] THEN S \ {o} ELSE S
    BY <1>1 DEF Leases
  <2>4. r \in h.regs[h.lease[o]] => o \in S
    BY DEF Leases
  <2> HIDE DEF S
  <2>5. r \in h.regs[h.lease[o]] => Cardinality(S \ {o}) = Cardinality(S) - 1
    BY <2>2, <2>4, OneLess
  <2> QED BY <1>1, <2>1, <2>2, <2>3, <2>5
<1>3. Exact(k)
  BY <1>2 DEF Exact
<1> QED BY <1>3 DEF k

-----------------------------------------------------------------------------
(* What the steps make of the ledger.                                      *)

Ledger == host \in HostType /\ Shape(host) /\ Exact(host)

\* The operations the steps apply, each where it may be applied.
HostMove ==
    \/ host' = host \/ host' = Discard(host) \/ host' = Broken(host)
    \/ \E regs \in SUBSET Regs :
          /\ host.next <= MaxGen /\ Available(host)
          /\ host' = Prepare(host, regs) \/ host' = Broken(Prepare(host, regs))
    \/ /\ host.pending # 0
       /\ \/ host' = Confirm(host)
          \/ \E o \in Owners : host.lease[o] = 0 /\ host' = PinActive(Confirm(host), o)
    \/ host.active # 0 /\ \E o \in Owners : host.lease[o] = 0 /\ host' = PinActive(host, o)
    \/ \E g \in host.retained : host' = ReleaseHandle(host, g)
    \/ \E o \in Owners : host.lease[o] # 0 /\ host' = ReleasePin(host, o)

LEMMA PrepareExact ==
    ASSUME NEW h \in HostType, NEW regs \in SUBSET Regs, h.next <= MaxGen, Shape(h), Exact(h)
    PROVE  Exact(Prepare(h, regs))
<1> DEFINE k == Prepare(h, regs)
<1>1. /\ k.refs = h.refs /\ k.lease = h.lease /\ k.records = h.records /\ k.active = h.active
      /\ k.retained = h.retained /\ k.regs = [h.regs EXCEPT ![h.next] = regs]
  BY PrepareFacts
<1> HIDE DEF k
<1>2. h.next \in Nat /\ h.records \subseteq Nat /\ h.regs \in [Gens -> SUBSET Regs]
      /\ h.records \subseteq Gens
  BY MaxGenAssumption DEF HostType, Gens
<1>3. \A g \in h.records : k.regs[g] = h.regs[g]
  BY <1>1, <1>2 DEF Shape
<1>4. \A o \in Owners : h.lease[o] # 0 => h.lease[o] \in h.records
  BY DEF Shape, Pinned
<1>5. Exact(k)
  BY <1>1, <1>3, <1>4, SameCounts
<1> QED BY <1>5 DEF k

LEMMA HostMoveKeepsLedger == ASSUME Ledger, HostMove PROVE Ledger'
<1> DEFINE Good(h) == h \in HostType /\ Shape(h) /\ Exact(h)
<1>0. Good(host)
  BY DEF Ledger
<1>1. ASSUME NEW h, Good(h) PROVE Good(Discard(h)) /\ Good(Broken(h))
  <2>1. Exact(Discard(h)) /\ Exact(Broken(h))
    BY <1>1, DiscardFacts, BrokenFacts, SameCounts
  <2> QED BY <1>1, <2>1, DiscardFacts, BrokenFacts, DiscardShape, BrokenShape
<1>2. ASSUME NEW regs \in SUBSET Regs, host.next <= MaxGen, Available(host)
      PROVE  Good(Prepare(host, regs)) /\ Good(Broken(Prepare(host, regs)))
  <2>1. Good(Prepare(host, regs))
    BY <1>0, <1>2, PrepareFacts, PrepareShape, PrepareExact
  <2> QED BY <1>1, <2>1
<1>3. ASSUME host.pending # 0
      PROVE  /\ Good(Confirm(host)) /\ Confirm(host).active # 0
             /\ Confirm(host).lease = host.lease
  <2>1. host.pending \in Gens /\ 0 \notin Gens
    BY <1>0, <1>3 DEF HostType, Gens
  <2> QED BY <1>0, <1>3, <2>1, ConfirmFacts, ConfirmShape, ConfirmExact
<1>4. ASSUME NEW h, Good(h), h.active # 0, NEW o \in Owners, h.lease[o] = 0
      PROVE  Good(PinActive(h, o))
  BY <1>4, PinActiveFacts, PinActiveShape, PinActiveExact
<1>5. ASSUME NEW g \in host.retained PROVE Good(ReleaseHandle(host, g))
  <2>1. g \in Gens
    BY <1>0 DEF HostType
  <2> QED BY <1>0, <1>5, <2>1, ReleaseHandleFacts, ReleaseHandleShape, ReleaseHandleExact
<1>6. ASSUME NEW o \in Owners, host.lease[o] # 0 PROVE Good(ReleasePin(host, o))
  BY <1>0, <1>6, ReleasePinFacts, ReleasePinShape, ReleasePinExact
<1> HIDE DEF Good
<1>7. Good(host')
  BY <1>0, <1>1, <1>2, <1>3, <1>4, <1>5, <1>6 DEF HostMove
<1> QED BY <1>7 DEF Good, Ledger

-----------------------------------------------------------------------------
(* The control: types, the promotion under way, the leases.                *)

CallsTyped ==
    /\ calls \in [Callers -> CallType]
    /\ \A c \in Callers :
          /\ calls[c].op = "load" => calls[c].graph \subseteq Units /\ calls[c].asked \subseteq Units
          /\ calls[c].op = "cell" =>
                calls[c].graph \subseteq Methods /\ calls[c].asked \subseteq Methods
RestTyped ==
    /\ target \in TargetType /\ spots \in SpotsType /\ pub \in PubType /\ svc \in SvcType
    /\ plan \in PlanType /\ CallsTyped
    /\ main \in {"none", "running", "captured", "lost"} /\ cleanup \subseteq Owners
    /\ remote \in RemoteType /\ seen \in SeenType

\* The promotion under way: its client still waits, no cleanup is owed and the command of
\* MAIN stands where it stood when the promotion began.
PlanStands ==
    /\ plan.op = "none" <=> plan.step = "idle"
    /\ plan.op = "none" => host.state # "preparing"
    /\ plan.op # "none" =>
          /\ plan.who \in Callers /\ calls[plan.who].op = plan.op
          /\ cleanup = {} /\ Boundary
          /\ host.state = IF plan.step = "own" THEN "ready" ELSE "preparing"

\* A promoted cell holds its lease until it is published.
Pinning(o) == plan.op = "cell" /\ plan.step = "own" /\ o = Lessee

\* Every lease has somebody who will release it, and what is owed is a lease.
LeasesOwed ==
    /\ \A o \in Owners : (o \in cleanup \/ Pinning(o)) => host.lease[o] # 0
    /\ host.state # "broken" =>
          \A o \in Owners : host.lease[o] # 0 =>
             o \in cleanup \/ Pinning(o) \/ (o = "main" /\ main # "none")

Control == RestTyped /\ PlanStands /\ LeasesOwed

LEMMA RegsFacts ==
    ASSUME NEW call \in CallType, RestTyped,
           \/ call.op = "load" /\ call.graph \subseteq Units
           \/ call.op = "cell" /\ call.graph \subseteq Methods
    PROVE  CandidateRegs(call) \in SUBSET Regs
<1>1. \A m \in SUBSET Methods : NotebookModule(m) \subseteq Regs
  BY DEF Regs
<1>2. Units \subseteq Regs /\ pub.base \subseteq Units /\ pub.methods \subseteq Methods
  BY DEF Regs, RestTyped, PubType
<1> QED BY <1>1, <1>2 DEF CandidateRegs

\* What each action does to the ledger is one of the moves.
LEMMA NextMovesHost == ASSUME Ledger, Control, Next PROVE HostMove
<1> USE DEF Control
<1>0. /\ plan.op # "none" /\ plan.step # "own" => host.pending # 0
      /\ 0 \notin Gens /\ Owners = {"main", "cell"} /\ Lessee \in Owners
  BY DEF PlanStands, Ledger, Shape, Gens, Owners, Lessee
<1>1. ASSUME NEW c \in Callers, BeginPromotion(c) \/ PromotionOverUnknown(c) PROVE HostMove
  <2>1. CandidateRegs(calls[c]) \in SUBSET Regs
    <3>1. calls[c] \in CallType
      BY DEF RestTyped, CallsTyped
    <3>2. \/ calls[c].op = "load" /\ calls[c].graph \subseteq Units
          \/ calls[c].op = "cell" /\ calls[c].graph \subseteq Methods
      BY <1>1 DEF RestTyped, CallsTyped, BeginPromotion, PromotionOverUnknown
    <3> QED BY <3>1, <3>2, RegsFacts
  <2> QED BY <1>1, <2>1, Zenon DEF BeginPromotion, PromotionOverUnknown, HostMove
<1>2. ASSUME StageFails \/ RootFails \/ DiscardRoot \/ OwnershipRefused \/ LoseReply \/ MainLost
      PROVE  HostMove
  BY <1>2, Zenon DEF StageFails, RootFails, DiscardRoot, OwnershipRefused, LoseReply, MainLost, HostMove
<1>3. ASSUME Swap PROVE HostMove
  <2>1. host.pending # 0
    BY <1>0, <1>3 DEF Swap, At
  <2>2. host.lease[Lessee] = 0
    <3>1. /\ plan.op # "none" /\ plan.step = "swap" /\ Lessee \in Owners
          /\ Lessee = "main" => main = "none"
      BY <1>0, <1>3 DEF Swap, At, PlanStands, Boundary, Lessee
    <3> QED BY <3>1 DEF PlanStands, LeasesOwed, Pinning
  <2> QED BY <1>0, <1>3, <2>1, <2>2 DEF Swap, HostMove
<1>4. ASSUME PublishNext PROVE HostMove
  BY <1>4 DEF PublishNext, CanRelease, HostMove
<1>5. ASSUME NEW c \in Callers, ReleaseGeneration(c) PROVE HostMove
  BY <1>5 DEF ReleaseGeneration, CanRelease, HostMove
<1>6. ASSUME NEW o \in Owners, CleanUp(o) PROVE HostMove
  BY <1>6 DEF CleanUp, LeasesOwed, HostMove
<1>7. ASSUME MainStarts \/ CaptureCell PROVE HostMove
  <2>1. CASE pub.gen = 0
    BY <1>7, <2>1 DEF MainStarts, CaptureCell, PinPublished, HostMove
  <2>2. CASE pub.gen # 0
    <3>1. host.active # 0 /\ host.state # "broken" /\ cleanup = {} /\ plan.op = "none"
      BY <1>7, <2>2 DEF MainStarts, CaptureCell, Available, Idle
    <3>2. CASE MainStarts
      <4>1. host.lease["main"] = 0
        BY <1>0, <3>1, <3>2 DEF MainStarts, LeasesOwed, Pinning
      <4> QED BY <1>0, <2>2, <3>1, <3>2, <4>1 DEF MainStarts, PinPublished, HostMove
    <3>3. CASE CaptureCell
      <4>1. host.lease["cell"] = 0
        BY <1>0, <3>1 DEF LeasesOwed, Pinning
      <4> QED BY <1>0, <2>2, <3>1, <3>3, <4>1 DEF CaptureCell, PinPublished, HostMove
    <3> QED BY <1>7, <3>2, <3>3
  <2> QED BY <2>1, <2>2
<1>8. ASSUME NEW c \in Callers,
             \/ \E unit \in Units, strict \in BOOLEAN : CallLoad(c, unit, strict)
             \/ \E method \in Methods : CallCell(c, method)
             \/ CallRelease(c) \/ Rejected(c) \/ ReleaseOverUnknown(c)
      PROVE  HostMove
  BY <1>8, Zenon DEF CallLoad, CallCell, CallRelease, Rejected, ReleaseOverUnknown, HostMove
<1>9. ASSUME \/ Stage \/ PrepareRoot \/ Conflict \/ InstallSlots \/ SwapFails \/ RestoreSlots
             \/ PublishFirst \/ MainStops \/ MainResumes \/ MainEnds
      PROVE  HostMove
  BY <1>9, Zenon DEF Stage, PrepareRoot, Conflict, InstallSlots, SwapFails, RestoreSlots,
     PublishFirst, MainStops, MainResumes, MainEnds, HostMove
<1>10. ASSUME \/ \E o \in Owners : CleanUpLost(o)
              \/ \E r \in Marks : AddMark(r) \/ RemoveMark(r)
       PROVE  HostMove
  BY <1>10, Zenon DEF CleanUpLost, AddMark, RemoveMark, InstallLost, SetMarks, HostMove
<1> QED
  BY <1>1, <1>2, <1>3, <1>4, <1>5, <1>6, <1>7, <1>8, <1>9, <1>10, Zenon DEF Next

\* Types step by step.
LEMMA EffectTyped == ASSUME Ledger, RestTyped PROVE Effect \in RemoteType
<1>1. \A h, gens : SlotsOf(h, spots.marks, gens) \subseteq Marks
  BY DEF SlotsOf, RestTyped, SpotsType
<1>2. PromotedSlots \subseteq Marks
  BY DEF PromotedSlots, KeptMarks, SlotsOf, RestTyped, SpotsType
<1>3. SlotsFor(ReleaseHandle(host, pub.gen)) \subseteq Marks
  BY <1>1 DEF SlotsFor
<1>4. host.pending \in Gens \cup {0} /\ plan.before \subseteq Marks /\ remote \in RemoteType
  BY DEF Ledger, HostType, RestTyped, PlanType
<1> QED BY <1>2, <1>3, <1>4 DEF Effect, RemoteType

LEMMA ReleasedTyped ==
    ASSUME RestTyped, NEW h \in HostType PROVE Released(h) \in SpotsType
<1>1. SlotsFor(h) \subseteq Marks /\ h.records \subseteq Gens
  BY DEF SlotsFor, SlotsOf, RestTyped, SpotsType, HostType
<1> QED BY <1>1 DEF Released, RestTyped, SpotsType

LEMMA AnswerTyped ==
    ASSUME RestTyped, NEW c, Answer(c)
    PROVE  plan' \in PlanType /\ plan'.op = "none" /\ plan'.step = "idle" /\ CallsTyped'
<1>1. NoPlan \in PlanType /\ NoPlan.op = "none" /\ NoPlan.step = "idle"
  BY DEF NoPlan, PlanType, Steps
<1>2. NoCall \in CallType /\ NoCall.op = "none"
  BY DEF NoCall, CallType
<1> QED BY <1>1, <1>2 DEF Answer, RestTyped, CallsTyped

LEMMA NewRouteTyped == ASSUME RestTyped, NewRoute PROVE CallsTyped'
<1>1. NoCall \in CallType /\ NoCall.op = "none"
  BY DEF NoCall, CallType
<1> QED BY <1>1 DEF NewRoute, CallsTyped

\* The clients.
LEMMA CallTyped ==
    ASSUME RestTyped, NEW c \in Callers, NEW call \in CallType,
           call.op = "load" => call.graph \subseteq Units /\ call.asked \subseteq Units,
           call.op = "cell" => call.graph \subseteq Methods /\ call.asked \subseteq Methods,
           calls' = [calls EXCEPT ![c] = call],
           UNCHANGED <<host, target, spots, pub, svc, plan, main, cleanup, remote, seen>>
    PROVE  RestTyped'
<1>1. CallsTyped'
  BY DEF RestTyped, CallsTyped
<1> QED BY <1>1 DEF RestTyped

LEMMA ClientTyped ==
    ASSUME Ledger, Control, Ledger', NEW c \in Callers,
           \/ \E unit \in Units, strict \in BOOLEAN : CallLoad(c, unit, strict)
           \/ \E method \in Methods : CallCell(c, method)
           \/ CallRelease(c) \/ Rejected(c)
           \/ BeginPromotion(c) \/ PromotionOverUnknown(c)
           \/ ReleaseGeneration(c) \/ ReleaseOverUnknown(c)
    PROVE  RestTyped'
<1>0. RestTyped
  BY DEF Control
<1>1. ASSUME NEW unit \in Units, NEW strict \in BOOLEAN, CallLoad(c, unit, strict) PROVE RestTyped'
  <2> DEFINE call == [op |-> "load", asked |-> {unit}, graph |-> Upsert(svc.units, unit),
                      rev |-> svc.rev, gen |-> 0, strict |-> strict]
  <2>1. Upsert(svc.units, unit) \subseteq Units /\ svc.rev \in Nat
    BY <1>0 DEF RestTyped, SvcType, Upsert
  <2>2. /\ call \in CallType /\ call.graph \subseteq Units /\ call.asked \subseteq Units
        /\ call.op # "cell"
    BY <2>1 DEF CallType
  <2>3. /\ calls' = [calls EXCEPT ![c] = call]
        /\ UNCHANGED <<host, target, spots, pub, svc, plan, main, cleanup, remote, seen>>
    BY <1>1 DEF CallLoad
  <2> HIDE DEF call
  <2> QED BY <1>0, <2>2, <2>3, CallTyped
<1>2. ASSUME NEW method \in Methods, CallCell(c, method) PROVE RestTyped'
  <2> DEFINE call == [op |-> "cell", asked |-> {method}, graph |-> pub.methods \cup {method},
                      rev |-> pub.rev, gen |-> 0, strict |-> TRUE]
  <2>1. pub.methods \cup {method} \subseteq Methods /\ pub.rev \in Nat
    BY <1>0 DEF RestTyped, PubType
  <2>2. /\ call \in CallType /\ call.graph \subseteq Methods /\ call.asked \subseteq Methods
        /\ call.op # "load"
    BY <2>1 DEF CallType
  <2>3. /\ calls' = [calls EXCEPT ![c] = call]
        /\ UNCHANGED <<host, target, spots, pub, svc, plan, main, cleanup, remote, seen>>
    BY <1>2 DEF CallCell
  <2> HIDE DEF call
  <2> QED BY <1>0, <2>2, <2>3, CallTyped
<1>3. ASSUME CallRelease(c) PROVE RestTyped'
  <2> DEFINE call == [op |-> "release", asked |-> {}, graph |-> {},
                      rev |-> svc.rev, gen |-> svc.owned, strict |-> TRUE]
  <2>1. svc.rev \in Nat /\ svc.owned \in Gens \cup {0}
    BY <1>0 DEF RestTyped, SvcType
  <2>2. call \in CallType /\ call.op # "load" /\ call.op # "cell"
    BY <2>1 DEF CallType
  <2>3. /\ calls' = [calls EXCEPT ![c] = call]
        /\ UNCHANGED <<host, target, spots, pub, svc, plan, main, cleanup, remote, seen>>
    BY <1>3 DEF CallRelease
  <2> HIDE DEF call
  <2> QED BY <1>0, <2>2, <2>3, CallTyped
<1>4. ASSUME Rejected(c) \/ PromotionOverUnknown(c) \/ ReleaseOverUnknown(c) PROVE RestTyped'
  <2>1. plan' \in PlanType /\ CallsTyped'
    BY <1>0, <1>4, AnswerTyped, Zenon DEF Rejected, PromotionOverUnknown, ReleaseOverUnknown
  <2>2. UNCHANGED <<target, spots, pub, svc, main, cleanup, remote, seen>>
    BY <1>4, Zenon DEF Rejected, PromotionOverUnknown, ReleaseOverUnknown
  <2> QED BY <1>0, <2>1, <2>2 DEF RestTyped
<1>5. ASSUME BeginPromotion(c) PROVE RestTyped'
  <2>1. plan' \in PlanType
    BY <1>0, <1>5 DEF BeginPromotion, RestTyped, SpotsType, PlanType, Steps
  <2>2. UNCHANGED <<target, spots, pub, svc, calls, main, cleanup, remote, seen>>
    BY <1>5 DEF BeginPromotion
  <2> QED BY <1>0, <2>1, <2>2 DEF RestTyped, CallsTyped
<1>6. ASSUME ReleaseGeneration(c) PROVE RestTyped'
  <2>1. plan' \in PlanType /\ CallsTyped'
    BY <1>0, <1>6, AnswerTyped DEF ReleaseGeneration
  <2>2. spots' \in SpotsType
    BY <1>0, <1>6, ReleasedTyped DEF ReleaseGeneration, Ledger
  <2>3. svc' \in SvcType
    <3>1. svc' = [svc EXCEPT !.owned = 0, !.rev = @ + 1] /\ svc \in SvcType
      BY <1>0, <1>6 DEF ReleaseGeneration, RestTyped
    <3>2. svc.rev + 1 \in Nat /\ 0 \in Gens \cup {0}
      BY <3>1 DEF SvcType
    <3> QED BY ONLY <3>1, <3>2 DEF SvcType
  <2>4. UNCHANGED <<target, pub, main, cleanup, remote, seen>>
    BY <1>6 DEF ReleaseGeneration
  <2> QED BY <1>0, <2>1, <2>2, <2>3, <2>4 DEF RestTyped
<1> QED BY <1>1, <1>2, <1>3, <1>4, <1>5, <1>6

\* The promotion.
LEMMA GoToTyped ==
    ASSUME RestTyped, NEW step \in Steps, GoTo(step)
    PROVE  plan' \in PlanType /\ plan'.op = plan.op /\ plan'.who = plan.who /\ plan'.step = step
BY DEF GoTo, RestTyped, PlanType

LEMMA PublishTyped ==
    ASSUME Ledger, Control, At("own"), Publish
    PROVE  /\ pub' \in PubType /\ svc' \in SvcType /\ plan' \in PlanType /\ seen' \in SeenType
           /\ CallsTyped' /\ main' \in {"none", "running", "captured", "lost"}
           /\ cleanup' \subseteq Owners
<1> DEFINE call == calls[plan.who]
<1>0. /\ RestTyped /\ call \in CallType /\ plan.op \in {"load", "cell"} /\ call.op = plan.op
      /\ call.op = "load" => call.graph \subseteq Units /\ call.asked \subseteq Units
      /\ call.op = "cell" => call.graph \subseteq Methods /\ call.asked \subseteq Methods
      /\ plan.who \in Callers
  BY DEF Control, RestTyped, CallsTyped, PlanStands, At, PlanType
<1>1. host.active \in Gens \cup {0}
  BY DEF Ledger, HostType
<1> DEFINE fresh == [gen |-> host.active, rev |-> pub.rev + 1,
                     base |-> IF call.op = "load" THEN call.graph ELSE pub.base,
                     methods |-> IF call.op = "load" THEN pub.methods ELSE call.graph]
           units == [units |-> call.graph, rev |-> svc.rev + 1, owned |-> host.active]
           acked == {a \in seen.acked : \A u \in call.asked \cap Units :
                        a \in Units => a.module # u.module} \cup call.asked
<1>2. /\ pub' = fresh /\ svc' = (IF call.op = "load" THEN units ELSE svc)
      /\ seen' = [seen EXCEPT !.acked = acked] /\ plan' = NoPlan
  BY DEF Publish
<1>3. fresh \in PubType
  BY <1>0, <1>1 DEF RestTyped, PubType
<1>4. call.op = "load" => units \in SvcType
  BY <1>0, <1>1 DEF RestTyped, SvcType
<1>5. seen' \in SeenType
  <2>1. acked \subseteq Units \cup Methods
    BY <1>0 DEF RestTyped, SeenType
  <2> HIDE DEF acked
  <2> QED BY <1>0, <1>2, <2>1 DEF RestTyped, SeenType
<1>6. NoPlan \in PlanType /\ NoCall \in CallType /\ NoCall.op = "none"
  BY DEF NoPlan, PlanType, Steps, NoCall, CallType
<1>7. calls' = [calls EXCEPT ![plan.who] = NoCall] \/ calls' = [c \in Callers |-> NoCall]
  BY DEF Publish
<1>8. CallsTyped'
  BY <1>0, <1>6, <1>7 DEF RestTyped, CallsTyped
<1>9. main' \in {main, "running"} /\ cleanup' \in {cleanup, cleanup \cup {Lessee}}
  BY Zenon DEF Publish
<1>10. Lessee \in Owners
  BY DEF Lessee, Owners
<1> HIDE DEF fresh, units, acked, call
<1> QED BY <1>0, <1>2, <1>3, <1>4, <1>5, <1>6, <1>8, <1>9, <1>10 DEF RestTyped

LEMMA PromotionTyped ==
    ASSUME Ledger, Control, Ledger',
           \/ Stage \/ StageFails \/ PrepareRoot \/ RootFails
           \/ Conflict \/ InstallSlots \/ Swap \/ SwapFails \/ RestoreSlots \/ DiscardRoot
           \/ PublishFirst \/ PublishNext \/ OwnershipRefused \/ LoseReply
    PROVE  RestTyped'
<1>0. /\ RestTyped /\ Effect \in RemoteType
      /\ plan \in PlanType /\ spots \in SpotsType /\ target \in TargetType
      /\ remote \in RemoteType /\ seen \in SeenType
  BY EffectTyped DEF Control, RestTyped
<1>1. At("stage") \/ At("root") => CandRegs \subseteq Regs
  <2>1. At("stage") \/ At("root") => host.pending \in Gens
    BY DEF At, Control, PlanStands, Ledger, Shape, HostType
  <2> QED BY <2>1 DEF CandRegs, Ledger, HostType
<1>2. KeptMarks \subseteq Marks /\ PromotedSlots \subseteq Marks
  BY <1>0 DEF KeptMarks, PromotedSlots, SlotsOf, SpotsType
<1>3. ASSUME Stage PROVE RestTyped'
  <2>1. plan' \in PlanType
    BY <1>0, <1>3, GoToTyped DEF Stage, Steps
  <2>2. target' \in TargetType
    BY <1>0, <1>1, <1>3 DEF Stage, TargetType
  <2> QED BY <1>0, <1>3, <2>1, <2>2 DEF Stage, RestTyped, CallsTyped
<1>4. ASSUME StageFails PROVE RestTyped'
  <2>1. plan' \in PlanType /\ CallsTyped'
    BY <1>0, <1>4, AnswerTyped DEF StageFails
  <2>2. target' \in TargetType
    BY <1>0, <1>1, <1>4 DEF StageFails, TargetType
  <2> QED BY <1>0, <1>4, <2>1, <2>2 DEF StageFails, RestTyped
<1>5. ASSUME PrepareRoot PROVE RestTyped'
  <2>1. plan' \in PlanType
    BY <1>0, <1>5, GoToTyped DEF PrepareRoot, Steps
  <2>2. target' \in TargetType
    BY <1>0, <1>1, <1>5 DEF PrepareRoot, TargetType
  <2> QED BY <1>0, <1>5, <2>1, <2>2 DEF PrepareRoot, RestTyped, CallsTyped
<1>6. ASSUME RootFails PROVE RestTyped'
  <2>1. plan' \in PlanType /\ CallsTyped'
    BY <1>0, <1>6, AnswerTyped DEF RootFails
  <2>2. target' \in TargetType
    BY <1>0, <1>1, <1>6 DEF RootFails, TargetType
  <2> QED BY <1>0, <1>6, <2>1, <2>2 DEF RootFails, RestTyped
<1>7. ASSUME Conflict \/ SwapFails PROVE RestTyped'
  <2>1. plan' \in PlanType
    BY <1>0, <1>7, GoToTyped DEF Conflict, SwapFails, Steps
  <2>2. UNCHANGED <<target, spots, pub, svc, calls, main, cleanup, remote, seen>>
    BY <1>7 DEF Conflict, SwapFails
  <2> QED BY <1>0, <2>1, <2>2 DEF RestTyped, CallsTyped
<1>8. ASSUME InstallSlots PROVE RestTyped'
  <2>1. plan' \in PlanType
    BY <1>0, <1>2, <1>8 DEF InstallSlots, PlanType, Steps
  <2>2. spots' \in SpotsType
    BY <1>0, <1>2, <1>8 DEF InstallSlots, SpotsType
  <2>3. remote' = Effect /\ UNCHANGED <<target, pub, svc, calls, main, cleanup, seen>>
    BY <1>8 DEF InstallSlots
  <2> QED BY <1>0, <2>1, <2>2, <2>3 DEF RestTyped, CallsTyped
<1>9. ASSUME Swap PROVE RestTyped'
  <2>1. plan' \in PlanType
    BY <1>0, <1>9, GoToTyped DEF Swap, Steps
  <2>2. host.pending \in Gens
    BY <1>9 DEF Swap, At, Control, PlanStands, Ledger, Shape, HostType
  <2>3. spots' = [spots EXCEPT !.views = @ \cup {host.pending}, !.marks = plan.marks,
                              !.removed = @ \cup (spots.marks \ plan.marks)]
    BY <1>9 DEF Swap
  <2>4. spots' \in SpotsType
    BY <1>0, <2>2, <2>3 DEF PlanType, SpotsType
  <2>5. remote' = Effect /\ UNCHANGED <<target, pub, svc, calls, main, cleanup, seen>>
    BY <1>9 DEF Swap
  <2> QED BY <1>0, <2>1, <2>4, <2>5 DEF RestTyped, CallsTyped
<1>10. ASSUME RestoreSlots PROVE RestTyped'
  <2>1. plan' \in PlanType
    BY <1>0, <1>10 DEF RestoreSlots, PlanType, SpotsType, Steps
  <2>2. spots' \in SpotsType
    BY <1>0, <1>10 DEF RestoreSlots, SpotsType, PlanType
  <2>3. remote' = Effect /\ UNCHANGED <<target, pub, svc, calls, main, cleanup, seen>>
    BY <1>10 DEF RestoreSlots
  <2> QED BY <1>0, <2>1, <2>2, <2>3 DEF RestTyped, CallsTyped
<1>11. ASSUME DiscardRoot PROVE RestTyped'
  <2>1. plan' \in PlanType /\ CallsTyped'
    BY <1>0, <1>11, AnswerTyped DEF DiscardRoot
  <2> QED BY <1>0, <1>11, <2>1 DEF DiscardRoot, RestTyped
<1>12. ASSUME PublishFirst PROVE RestTyped'
  BY <1>0, <1>12, PublishTyped DEF PublishFirst, RestTyped
<1>13. ASSUME PublishNext PROVE RestTyped'
  <2>1. spots' \in SpotsType
    <3>1. pub.gen \in Gens
      BY <1>0, <1>13 DEF PublishNext, RestTyped, PubType
    <3>2. ReleaseHandle(host, pub.gen) \in HostType
      BY <3>1, ReleaseHandleFacts DEF Ledger
    <3> QED BY <1>0, <1>13, <3>2, ReleasedTyped DEF PublishNext
  <2>2. /\ pub' \in PubType /\ svc' \in SvcType /\ plan' \in PlanType /\ seen' \in SeenType
        /\ CallsTyped' /\ main' \in {"none", "running", "captured", "lost"}
        /\ cleanup' \subseteq Owners
    BY <1>13, PublishTyped DEF PublishNext
  <2>3. remote' = Effect /\ target' = target
    BY <1>13 DEF PublishNext
  <2> QED BY <1>0, <2>1, <2>2, <2>3 DEF RestTyped
<1>14. ASSUME OwnershipRefused PROVE RestTyped'
  <2>1. plan' \in PlanType /\ CallsTyped'
    BY <1>0, <1>14, AnswerTyped DEF OwnershipRefused
  <2> QED BY <1>0, <1>14, <2>1 DEF OwnershipRefused, RestTyped
<1>15. ASSUME LoseReply PROVE RestTyped'
  <2>1. plan' \in PlanType /\ CallsTyped'
    BY <1>0, <1>15, AnswerTyped DEF LoseReply
  <2>2. spots' \in SpotsType /\ seen' \in SeenType
    BY <1>0, <1>15 DEF LoseReply, SpotsType, SeenType
  <2>3. remote' \in {remote, Effect} /\ UNCHANGED <<target, pub, svc, main, cleanup>>
    BY <1>15 DEF LoseReply
  <2> QED BY <1>0, <2>1, <2>2, <2>3 DEF RestTyped
<1> QED
  BY <1>3, <1>4, <1>5, <1>6, <1>7, <1>8, <1>9, <1>10, <1>11, <1>12, <1>13, <1>14, <1>15

\* The other plans and the commands.
LEMMA InstallLostTyped ==
    ASSUME RestTyped, NEW slots \in SUBSET Marks, InstallLost(slots) PROVE RestTyped'
<1>1. /\ spots \in SpotsType /\ seen \in SeenType /\ remote \in RemoteType
  BY DEF RestTyped
<1>2. spots' \in SpotsType /\ seen' \in SeenType /\ remote' \in RemoteType
  BY <1>1 DEF InstallLost, SpotsType, SeenType, RemoteType
<1>3. UNCHANGED <<host, target, pub, svc, plan, calls, main, cleanup>>
  BY DEF InstallLost
<1> QED BY <1>2, <1>3 DEF RestTyped, CallsTyped

LEMMA SetMarksTyped ==
    ASSUME RestTyped, NEW marks \in SUBSET Marks, NEW removed \in SUBSET Marks,
           SetMarks(marks, removed)
    PROVE  RestTyped'
<1>1. Remarked(marks) \subseteq Marks
  BY DEF Remarked, SlotsOf
<1>2. /\ spots \in SpotsType /\ remote \in RemoteType
  BY DEF RestTyped
<1>3. spots' \in SpotsType /\ remote' \in RemoteType
  BY <1>1, <1>2 DEF SetMarks, SpotsType, RemoteType
<1>4. UNCHANGED <<host, target, pub, svc, plan, calls, main, cleanup, seen>>
  BY DEF SetMarks
<1> QED BY <1>3, <1>4 DEF RestTyped, CallsTyped

LEMMA OthersTyped ==
    ASSUME Ledger, Control, Ledger',
           \/ \E o \in Owners : CleanUp(o) \/ CleanUpLost(o)
           \/ \E r \in Marks : AddMark(r) \/ RemoveMark(r)
           \/ MainStarts \/ MainStops \/ MainResumes \/ MainEnds \/ MainLost \/ CaptureCell
    PROVE  RestTyped'
<1>0. RestTyped /\ spots \in SpotsType /\ remote \in RemoteType /\ seen \in SeenType
  BY DEF Control, RestTyped
<1>1. \A h : SlotsFor(h) \subseteq Marks
  BY <1>0 DEF SlotsFor, SlotsOf, SpotsType
<1>2. ASSUME NEW o \in Owners, CleanUp(o) PROVE RestTyped'
  <2>1. spots' \in SpotsType
    <3>1. spots' = Released(host') /\ host' \in HostType
      BY <1>2 DEF CleanUp, Ledger
    <3>2. SlotsFor(host') \subseteq Marks /\ host'.records \subseteq Gens
      BY <1>1, <3>1 DEF HostType
    <3>3. spots' = [spots EXCEPT !.slots = SlotsFor(host'), !.views = host'.records]
      BY <1>2 DEF CleanUp, Released
    <3> QED BY <1>0, <3>2, <3>3 DEF SpotsType
  <2>2. remote' \in RemoteType
    BY <1>0, <1>1, <1>2 DEF CleanUp, RemoteType
  <2>3. /\ UNCHANGED <<target, pub, svc, plan, calls, main, seen>>
        /\ cleanup' \subseteq cleanup
    BY <1>2 DEF CleanUp
  <2> QED BY <1>0, <2>1, <2>2, <2>3 DEF RestTyped, CallsTyped
<1>3. ASSUME NEW o \in Owners, CleanUpLost(o) PROVE RestTyped'
  BY <1>0, <1>1, <1>3, InstallLostTyped DEF CleanUpLost
<1>4. ASSUME NEW r \in Marks, AddMark(r) \/ RemoveMark(r) PROVE RestTyped'
  <2>1. \A m : Remarked(m) \subseteq m
    BY DEF Remarked, SlotsOf
  <2>2. /\ spots.marks \cup {r} \in SUBSET Marks /\ spots.marks \ {r} \in SUBSET Marks
        /\ spots.removed \in SUBSET Marks /\ spots.removed \cup {r} \in SUBSET Marks
    BY <1>0 DEF SpotsType
  <2>3. /\ Remarked(spots.marks \cup {r}) \in SUBSET Marks
        /\ Remarked(spots.marks \ {r}) \in SUBSET Marks
    BY <2>1, <2>2
  <2> QED BY <1>0, <1>4, <2>2, <2>3, SetMarksTyped, InstallLostTyped, Zenon DEF AddMark, RemoveMark
<1>5. ASSUME MainStarts \/ MainResumes PROVE RestTyped'
  <2>1. CallsTyped'
    BY <1>0, <1>5, NewRouteTyped DEF MainStarts, MainResumes
  <2>2. main' = "running" /\ UNCHANGED <<target, spots, pub, svc, plan, cleanup, remote, seen>>
    BY <1>5 DEF MainStarts, MainResumes
  <2> QED BY <1>0, <2>1, <2>2 DEF RestTyped
<1>6. ASSUME MainStops \/ CaptureCell PROVE RestTyped'
  <2>1. /\ main' \in {main, "captured"} /\ cleanup' \subseteq cleanup \cup {"cell"}
        /\ UNCHANGED <<target, spots, pub, svc, plan, calls, remote, seen>>
    BY <1>6, Zenon DEF MainStops, CaptureCell
  <2> QED BY <1>0, <2>1 DEF RestTyped, CallsTyped, Owners
<1>7. ASSUME MainEnds PROVE RestTyped'
  <2>1. /\ main' = "none" /\ cleanup' \subseteq cleanup \cup {"main"}
        /\ UNCHANGED <<target, spots, pub, svc, plan, calls, remote, seen>>
    BY <1>7 DEF MainEnds
  <2> QED BY <1>0, <2>1 DEF RestTyped, CallsTyped, Owners
<1>8. ASSUME MainLost PROVE RestTyped'
  <2>1. seen' \in SeenType
    BY <1>0, <1>8 DEF MainLost, SeenType
  <2>2. /\ main' = "lost" /\ UNCHANGED <<target, spots, pub, svc, plan, calls, cleanup, remote>>
    BY <1>8 DEF MainLost
  <2> QED BY <1>0, <2>1, <2>2 DEF RestTyped, CallsTyped
<1> QED BY <1>2, <1>3, <1>4, <1>5, <1>6, <1>7, <1>8

LEMMA NextTypes == ASSUME Ledger, Control, Ledger', Next PROVE RestTyped'
BY ClientTyped, PromotionTyped, OthersTyped, Zenon DEF Next

\* The promotion under way and the leases, step by step.
LEMMA Idled ==
    ASSUME NEW c, Answer(c), host'.state # "preparing" PROVE PlanStands'
BY DEF Answer, NoPlan, PlanStands

LEMMA Rests ==
    ASSUME PlanStands, plan.op = "none", plan' = plan, host'.state # "preparing"
    PROVE  PlanStands'
BY DEF PlanStands

LEMMA Advances ==
    ASSUME Control, NEW from, At(from), plan'.op = plan.op, plan'.who = plan.who,
           NEW to \in Steps \ {"idle"}, plan'.step = to,
           host'.state = IF to = "own" THEN "ready" ELSE "preparing",
           UNCHANGED <<calls, main, cleanup>>
    PROVE  PlanStands'
BY DEF Control, PlanStands, At, Boundary

LEMMA StepKeepsPlan == ASSUME Ledger, Control, RestTyped', Ledger', Next PROVE PlanStands'
<1>0. /\ PlanStands /\ RestTyped /\ host \in HostType /\ Shape(host) /\ plan \in PlanType
      /\ plan.op # "none" => /\ cleanup = {} /\ Boundary
                             /\ plan.step # "own" => host.state = "preparing"
      /\ plan.op = "none" => host.state # "preparing"
  BY DEF Control, RestTyped, Ledger, PlanStands
<1>1. ASSUME NEW c \in Callers,
             \/ \E unit \in Units, strict \in BOOLEAN : CallLoad(c, unit, strict)
             \/ \E method \in Methods : CallCell(c, method)
             \/ CallRelease(c)
      PROVE  PlanStands'
  <2>1. plan.op = "none" /\ plan' = plan /\ host' = host
    BY <1>1, Zenon DEF CallLoad, CallCell, CallRelease, Idle
  <2> QED BY <1>0, <2>1, Rests
<1>2. ASSUME NEW c \in Callers, Rejected(c) \/ ReleaseOverUnknown(c) PROVE PlanStands'
  <2>1. plan.op = "none" /\ host' = host /\ Answer(c)
    BY <1>2, Zenon DEF Rejected, ReleaseOverUnknown, Idle
  <2> QED BY <1>0, <2>1, Idled
<1>3. ASSUME NEW c \in Callers, BeginPromotion(c) PROVE PlanStands'
  <2>1. /\ calls[c].op \in {"load", "cell"} /\ cleanup = {} /\ Boundary
        /\ plan'.op = calls[c].op /\ plan'.who = c /\ plan'.step = "stage"
        /\ UNCHANGED <<calls, main, cleanup>>
    BY <1>3 DEF BeginPromotion, Idle
  <2>2. host'.state = "preparing"
    BY <1>3 DEF BeginPromotion, Prepare, Ledger, HostType
  <2> QED BY <2>1, <2>2 DEF PlanStands, Boundary
<1>4. ASSUME NEW c \in Callers, PromotionOverUnknown(c) PROVE PlanStands'
  <2>1. host'.state = "broken" /\ Answer(c)
    BY <1>4 DEF PromotionOverUnknown, Broken, Ledger, HostType
  <2> QED BY <2>1, Idled
<1>5. ASSUME NEW c \in Callers, ReleaseGeneration(c) PROVE PlanStands'
  <2>1. plan.op = "none" /\ Answer(c) /\ host' = ReleaseHandle(host, calls[c].gen)
        /\ calls[c].gen \in Gens
    BY <1>0, <1>5 DEF ReleaseGeneration, Idle, CanRelease, HostType
  <2>2. host'.state = host.state
    BY <1>0, <2>1, ReleaseHandleFacts
  <2> QED BY <1>0, <2>1, <2>2, Idled
<1>6. ASSUME StageFails \/ RootFails \/ DiscardRoot PROVE PlanStands'
  <2>1. host' = Discard(host) /\ Answer(plan.who)
    BY <1>6, Zenon DEF StageFails, RootFails, DiscardRoot
  <2>2. host'.state # "preparing"
    BY <1>0, <2>1, DiscardFacts
  <2> QED BY <2>1, <2>2, Idled
<1>7. ASSUME OwnershipRefused \/ LoseReply PROVE PlanStands'
  <2>1. host' = Broken(host) /\ Answer(plan.who)
    BY <1>7, Zenon DEF OwnershipRefused, LoseReply
  <2>2. host'.state # "preparing"
    BY <1>0, <2>1, BrokenFacts
  <2> QED BY <2>1, <2>2, Idled
<1>8. ASSUME Stage \/ PrepareRoot \/ Conflict \/ SwapFails PROVE PlanStands'
  <2>1. /\ UNCHANGED <<host, calls, main, cleanup>>
        /\ \/ At("stage") /\ GoTo("root")
           \/ At("root") /\ GoTo("slots")
           \/ At("slots") /\ GoTo("discard")
           \/ At("swap") /\ GoTo("restore")
    BY <1>8, Zenon DEF Stage, PrepareRoot, Conflict, SwapFails
  <2>2. PICK from \in Steps, to \in Steps \ {"idle", "own"} :
            At(from) /\ from # "own" /\ GoTo(to)
    BY <2>1 DEF Steps
  <2>3. host'.state = "preparing"
    BY <1>0, <2>1, <2>2 DEF At
  <2>4. plan'.op = plan.op /\ plan'.who = plan.who /\ plan'.step = to
    BY <1>0, <2>2, GoToTyped
  <2> QED BY <2>1, <2>2, <2>3, <2>4, Advances
<1>9. ASSUME InstallSlots \/ RestoreSlots PROVE PlanStands'
  <2>1. PICK from \in {"slots", "restore"}, to \in {"swap", "discard"} :
            /\ At(from) /\ plan'.op = plan.op /\ plan'.who = plan.who /\ plan'.step = to
            /\ UNCHANGED <<host, calls, main, cleanup>>
    BY <1>0, <1>9 DEF InstallSlots, RestoreSlots, PlanType
  <2>2. host'.state = "preparing" /\ to \in Steps \ {"idle"} /\ to # "own"
    BY <1>0, <2>1 DEF At, Steps
  <2> QED BY <2>1, <2>2, Advances
<1>10. ASSUME Swap PROVE PlanStands'
  <2>1. At("swap") /\ GoTo("own") /\ UNCHANGED <<calls, main, cleanup>>
    BY <1>10 DEF Swap
  <2>2. host.pending # 0
    BY <1>0, <2>1 DEF At, Shape
  <2>3. host'.state = "ready"
    <3>1. host.pending \in Gens /\ 0 \notin Gens
      BY <1>0, <2>2 DEF HostType, Gens
    <3>2. Confirm(host) \in HostType /\ Confirm(host).state = "ready" /\ Confirm(host).active # 0
      BY <1>0, <3>1, ConfirmFacts
    <3>3. Lessee \in Owners
      BY DEF Lessee, Owners
    <3>4. host' = Confirm(host) \/ host' = PinActive(Confirm(host), Lessee)
      BY <1>10 DEF Swap
    <3>5. PinActive(Confirm(host), Lessee).state = "ready"
      <4> DEFINE k == Confirm(host)
      <4>1. k \in HostType /\ k.state = "ready" /\ k.active # 0
        BY <3>2
      <4> HIDE DEF k
      <4>2. PinActive(k, Lessee).state = "ready"
        BY <3>3, <4>1, PinActiveFacts
      <4> QED BY <4>2 DEF k
    <3> QED BY <3>2, <3>4, <3>5
  <2>4. plan'.op = plan.op /\ plan'.who = plan.who /\ plan'.step = "own"
    BY <1>0, <2>1, GoToTyped DEF Steps
  <2> QED BY <2>1, <2>3, <2>4, Advances DEF Steps
<1>11. ASSUME PublishFirst \/ PublishNext PROVE PlanStands'
  <2>1. host.state = "ready"
    BY <1>0, <1>11 DEF PublishFirst, PublishNext, At, PlanStands
  <2>2. host'.state = "ready"
    <3>1. CASE host' = host
      BY <2>1, <3>1
    <3>2. CASE PublishNext
      <4>1. host' = ReleaseHandle(host, pub.gen) /\ pub.gen \in Gens
        BY <1>0, <3>2 DEF PublishNext, CanRelease, HostType
      <4> QED BY <1>0, <2>1, <4>1, ReleaseHandleFacts
    <3> QED BY <1>11, <3>1, <3>2 DEF PublishFirst
  <2>3. plan' = NoPlan
    BY <1>11 DEF PublishFirst, PublishNext, Publish
  <2> QED BY <2>2, <2>3 DEF PlanStands, NoPlan
<1>12. ASSUME NEW o \in Owners, CleanUp(o) PROVE PlanStands'
  <2>1. plan.op = "none" /\ plan' = plan /\ host' = ReleasePin(host, o) /\ host.lease[o] # 0
    BY <1>12 DEF CleanUp, Control, LeasesOwed
  <2>2. host'.state = host.state
    BY <1>0, <2>1, ReleasePinFacts
  <2> QED BY <1>0, <2>1, <2>2, Rests
<1>13. ASSUME \/ \E o \in Owners : CleanUpLost(o)
              \/ \E r \in Marks : AddMark(r) \/ RemoveMark(r)
       PROVE  PlanStands'
  <2>1. plan.op = "none" /\ plan' = plan /\ host' = host
    BY <1>13, Zenon DEF CleanUpLost, AddMark, RemoveMark, InstallLost, SetMarks, Idle
  <2> QED BY <1>0, <2>1, Rests
<1>14. ASSUME MainStarts \/ MainResumes \/ CaptureCell \/ MainStops \/ MainEnds \/ MainLost
       PROVE  PlanStands'
  <2>1. plan.op = "none" /\ plan' = plan
    BY <1>0, <1>14 DEF MainStarts, MainResumes, CaptureCell, MainStops, MainEnds, MainLost, Idle,
       Boundary
  <2>2. host'.state \in {host.state, "broken"}
    <3>1. CASE MainStarts \/ CaptureCell
      <4>1. PICK o \in Owners : host' = PinPublished(host, o)
        BY <3>1 DEF MainStarts, CaptureCell, Owners
      <4>2. pub.gen # 0 => host.active # 0
        BY <3>1 DEF MainStarts, CaptureCell
      <4> QED BY <1>0, <4>1, <4>2, PinActiveFacts DEF PinPublished
    <3>2. CASE MainResumes \/ MainStops \/ MainEnds
      BY <3>2, Zenon DEF MainResumes, MainStops, MainEnds
    <3>3. CASE MainLost
      <4>1. host' = host \/ host' = Broken(host)
        BY <3>3 DEF MainLost
      <4> QED BY <1>0, <4>1, BrokenFacts
    <3> QED BY <1>14, <3>1, <3>2, <3>3
  <2> QED BY <1>0, <2>1, <2>2, Rests
<1> QED
  BY <1>1, <1>2, <1>3, <1>4, <1>5, <1>6, <1>7, <1>8, <1>9, <1>10, <1>11, <1>12, <1>13, <1>14,
     Zenon DEF Next

\* Steps that neither take, owe nor give back a lease.
LEMMA LeasesRest ==
    ASSUME LeasesOwed, plan.step # "own", plan'.step # "own", host'.lease = host.lease,
           host'.state # "broken" => host.state # "broken", UNCHANGED <<main, cleanup>>
    PROVE  LeasesOwed'
BY DEF LeasesOwed, Pinning

\* What breaks the universe leaves its leases to nobody.
LEMMA LeasesBreak ==
    ASSUME LeasesOwed, plan'.step # "own", host'.lease = host.lease, host'.state = "broken",
           cleanup' = cleanup
    PROVE  LeasesOwed'
BY DEF LeasesOwed, Pinning

LEMMA StepKeepsLeases ==
    ASSUME Ledger, Control, RestTyped', PlanStands', Ledger', Next PROVE LeasesOwed'
<1>0. /\ LeasesOwed /\ PlanStands /\ host \in HostType /\ Shape(host) /\ RestTyped
      /\ plan.op = "none" => plan.step = "idle" /\ plan.step # "own"
      /\ plan.op # "none" => cleanup = {} /\ Boundary
      /\ host.lease \in [Owners -> Gens \cup {0}] /\ 0 \notin Gens
      /\ Owners = {"main", "cell"} /\ Lessee \in Owners
  BY DEF Control, Ledger, PlanStands, HostType, Gens, Owners, Lessee
<1>1. ASSUME NEW c \in Callers,
             \/ \E unit \in Units, strict \in BOOLEAN : CallLoad(c, unit, strict)
             \/ \E method \in Methods : CallCell(c, method)
             \/ CallRelease(c)
      PROVE  LeasesOwed'
  <2>1. plan.op = "none" /\ UNCHANGED <<plan, host, main, cleanup>>
    BY <1>1, Zenon DEF CallLoad, CallCell, CallRelease, Idle
  <2> QED BY <1>0, <2>1, LeasesRest
<1>2. ASSUME NEW c \in Callers, Rejected(c) \/ ReleaseOverUnknown(c) PROVE LeasesOwed'
  <2>1. plan.op = "none" /\ plan' = NoPlan /\ UNCHANGED <<host, main, cleanup>>
    BY <1>2, Zenon DEF Rejected, ReleaseOverUnknown, Idle, Answer
  <2> QED BY <1>0, <2>1, LeasesRest DEF NoPlan
<1>3. ASSUME NEW c \in Callers, BeginPromotion(c) \/ PromotionOverUnknown(c) PROVE LeasesOwed'
  <2>1. /\ plan.op = "none" /\ UNCHANGED <<main, cleanup>> /\ host.next <= MaxGen
        /\ calls[c].op \in {"load", "cell"} /\ Available(host)
    BY <1>3, Zenon DEF BeginPromotion, PromotionOverUnknown, Idle
  <2>2. plan'.step # "own"
    <3>1. CASE BeginPromotion(c)
      BY <3>1 DEF BeginPromotion
    <3>2. CASE PromotionOverUnknown(c)
      BY <3>2 DEF PromotionOverUnknown, Answer, NoPlan
    <3> QED BY <1>3, <3>1, <3>2
  <2>3. CandidateRegs(calls[c]) \in SUBSET Regs
    BY <1>0, <2>1, RegsFacts DEF RestTyped, CallsTyped
  <2>4. host'.lease = host.lease /\ host.state # "broken"
    <3>1. /\ Prepare(host, CandidateRegs(calls[c])) \in HostType
          /\ Prepare(host, CandidateRegs(calls[c])).lease = host.lease
      BY <1>0, <2>1, <2>3, PrepareFacts
    <3>2. \/ host' = Prepare(host, CandidateRegs(calls[c]))
          \/ host' = Broken(Prepare(host, CandidateRegs(calls[c])))
      BY <1>3, Zenon DEF BeginPromotion, PromotionOverUnknown
    <3> QED BY <2>1, <3>1, <3>2, BrokenFacts DEF Available
  <2> QED BY <1>0, <2>1, <2>2, <2>4, LeasesRest
<1>4. ASSUME NEW c \in Callers, ReleaseGeneration(c) PROVE LeasesOwed'
  <2>1. /\ plan.op = "none" /\ plan' = NoPlan /\ host' = ReleaseHandle(host, calls[c].gen)
        /\ calls[c].gen \in Gens /\ UNCHANGED <<main, cleanup>>
    BY <1>0, <1>4 DEF ReleaseGeneration, Idle, CanRelease, HostType, Answer
  <2>2. host'.state = host.state /\ host'.lease = host.lease
    BY <1>0, <2>1, ReleaseHandleFacts
  <2> QED BY <1>0, <2>1, <2>2, LeasesRest DEF NoPlan
<1>5. ASSUME StageFails \/ RootFails \/ DiscardRoot PROVE LeasesOwed'
  <2>1. /\ host' = Discard(host) /\ plan' = NoPlan /\ UNCHANGED <<main, cleanup>>
        /\ plan.step # "own" /\ plan.op # "none"
    BY <1>5 DEF StageFails, RootFails, DiscardRoot, Answer, At
  <2>2. host'.lease = host.lease /\ host.state # "broken"
    BY <1>0, <2>1, DiscardFacts DEF PlanStands
  <2> QED BY <1>0, <2>1, <2>2, LeasesRest DEF NoPlan
<1>6. ASSUME OwnershipRefused \/ LoseReply PROVE LeasesOwed'
  <2>1. host' = Broken(host) /\ plan' = NoPlan /\ cleanup' = cleanup
    BY <1>6, Zenon DEF OwnershipRefused, LoseReply, Answer
  <2>2. host'.state = "broken" /\ host'.lease = host.lease
    BY <1>0, <2>1, BrokenFacts
  <2> QED BY <1>0, <2>1, <2>2, LeasesBreak DEF NoPlan
<1>7. ASSUME Stage \/ PrepareRoot \/ Conflict \/ SwapFails \/ InstallSlots \/ RestoreSlots
      PROVE  LeasesOwed'
  <2>1. UNCHANGED <<host, main, cleanup>>
    BY <1>7, Zenon DEF Stage, PrepareRoot, Conflict, SwapFails, InstallSlots, RestoreSlots
  <2>2. plan.step # "own"
    BY <1>7, Zenon DEF Stage, PrepareRoot, Conflict, SwapFails, InstallSlots, RestoreSlots, At
  <2>3. plan'.step # "own"
    BY <1>0, <1>7 DEF Stage, PrepareRoot, Conflict, SwapFails, InstallSlots, RestoreSlots, GoTo,
       RestTyped, PlanType
  <2> QED BY <1>0, <2>1, <2>2, <2>3, LeasesRest
<1>8. ASSUME Swap PROVE LeasesOwed'
  <2>1. /\ At("swap") /\ plan'.step = "own" /\ plan'.op = plan.op /\ UNCHANGED <<main, cleanup>>
        /\ plan.op \in {"load", "cell"}
    BY <1>0, <1>8 DEF Swap, At, GoTo, RestTyped, PlanType
  <2>2. cleanup = {} /\ host.pending \in Gens /\ host.state # "broken" /\ Lessee' = Lessee
    BY <1>0, <2>1 DEF At, PlanStands, Shape, HostType, Lessee
  <2>3. /\ Confirm(host) \in HostType /\ Confirm(host).lease = host.lease
        /\ Confirm(host).active \in Gens
    BY <1>0, <2>2, ConfirmFacts
  <2> DEFINE k == Confirm(host)
  <2>31. k.active # 0
    BY <1>0, <2>3
  <2>32. /\ PinActive(k, Lessee).lease = [k.lease EXCEPT ![Lessee] = k.active]
         /\ PinActive(k, Lessee).active = k.active
    BY <1>0, <2>3, <2>31, PinActiveFacts
  <2>33. host' = IF plan.op = "cell" THEN PinActive(k, Lessee) ELSE k
    BY <1>8 DEF Swap
  <2> HIDE DEF k
  <2>4. host'.lease = IF plan.op = "cell" THEN [host.lease EXCEPT ![Lessee] = host'.active]
                      ELSE host.lease
    BY <2>3, <2>32, <2>33 DEF k
  <2>5. plan.op = "cell" => host'.active # 0
    BY <2>31, <2>32, <2>33
  <2>6. CASE plan.op = "cell"
    BY <1>0, <2>1, <2>2, <2>4, <2>5, <2>6 DEF LeasesOwed, Pinning, At
  <2>7. CASE plan.op = "load"
    BY <1>0, <2>1, <2>2, <2>4, <2>7 DEF LeasesOwed, Pinning, At
  <2> QED BY <2>1, <2>6, <2>7
<1>9. ASSUME PublishFirst \/ PublishNext PROVE LeasesOwed'
  <2>1. /\ At("own") /\ plan' = NoPlan
        /\ \/ calls[plan.who].op = "load" /\ UNCHANGED <<main, cleanup>>
           \/ /\ calls[plan.who].op # "load"
              /\ \/ cleanup' = cleanup \cup {Lessee} /\ main' = main
                 \/ main = "none" /\ main' = "running" /\ cleanup' = cleanup
    BY <1>9 DEF PublishFirst, PublishNext, Publish
  <2>2. host'.lease = host.lease /\ host'.state = host.state
    <3>1. CASE host' = host
      BY <3>1
    <3>2. CASE PublishNext
      <4>1. host' = ReleaseHandle(host, pub.gen) /\ pub.gen \in Gens
        BY <1>0, <3>2 DEF PublishNext, CanRelease, HostType
      <4> QED BY <1>0, <4>1, ReleaseHandleFacts
    <3> QED BY <1>9, <3>1, <3>2 DEF PublishFirst
  <2>3. /\ calls[plan.who].op = plan.op /\ plan.op \in {"load", "cell"}
        /\ cleanup = {} /\ main \in {"none", "captured"} /\ host.state = "ready"
        /\ plan.step = "own"
    BY <1>0, <2>1 DEF At, PlanStands, RestTyped, PlanType, Boundary
  <2>4. plan'.op = "none"
    BY <2>1 DEF NoPlan
  <2>5. CASE plan.op = "load"
    BY <1>0, <2>1, <2>2, <2>3, <2>4, <2>5 DEF LeasesOwed, Pinning
  <2>6. CASE plan.op = "cell" /\ cleanup' = cleanup \cup {Lessee} /\ main' = main
    BY <1>0, <2>2, <2>3, <2>4, <2>6 DEF LeasesOwed, Pinning
  <2>7. CASE plan.op = "cell" /\ main = "none" /\ main' = "running" /\ cleanup' = cleanup
    <3>1. Lessee = "main"
      BY <2>7 DEF Lessee
    <3> QED BY <1>0, <2>2, <2>3, <2>4, <2>7, <3>1 DEF LeasesOwed, Pinning
  <2> QED BY <2>1, <2>3, <2>5, <2>6, <2>7
<1>10. ASSUME NEW o \in Owners, CleanUp(o) PROVE LeasesOwed'
  <2>1. /\ plan.op = "none" /\ plan' = plan /\ host' = ReleasePin(host, o) /\ host.lease[o] # 0
        /\ cleanup' = cleanup \ {o} /\ main' = main /\ host.state # "broken"
    BY <1>0, <1>10 DEF CleanUp, LeasesOwed, Available
  <2>2. host'.state = host.state /\ host'.lease = [host.lease EXCEPT ![o] = 0]
    BY <1>0, <2>1, ReleasePinFacts
  <2> QED BY <1>0, <2>1, <2>2 DEF LeasesOwed, Pinning
<1>11. ASSUME \/ \E o \in Owners : CleanUpLost(o)
              \/ \E r \in Marks : AddMark(r) \/ RemoveMark(r)
       PROVE  LeasesOwed'
  <2>1. plan.op = "none" /\ UNCHANGED <<plan, host, main, cleanup>>
    BY <1>11, Zenon DEF CleanUpLost, AddMark, RemoveMark, InstallLost, SetMarks, Idle
  <2> QED BY <1>0, <2>1, LeasesRest
<1>12. ASSUME MainStarts \/ CaptureCell PROVE LeasesOwed'
  <2>1. /\ plan.op = "none" /\ plan' = plan /\ cleanup = {}
        /\ pub.gen # 0 => host.active # 0 /\ host.state # "broken"
    BY <1>12 DEF MainStarts, CaptureCell, Available, Idle
  <2>2. host.active \in Gens \cup {0}
    BY <1>0 DEF HostType
  <2>3. CASE MainStarts
    <3>1. /\ host' = PinPublished(host, "main") /\ main = "none" /\ main' = "running"
          /\ cleanup' = cleanup
      BY <2>3 DEF MainStarts
    <3>2. /\ host'.state = host.state
          /\ host'.lease = IF pub.gen = 0 THEN host.lease
                           ELSE [host.lease EXCEPT !["main"] = host.active]
      BY <1>0, <2>1, <3>1, PinActiveFacts DEF PinPublished
    <3> QED BY <1>0, <2>1, <3>1, <3>2 DEF LeasesOwed, Pinning
  <2>4. CASE CaptureCell
    <3>1. /\ host' = PinActive(host, "cell") /\ main' = main /\ host.active # 0
          /\ cleanup' = cleanup \cup {"cell"}
      BY <2>4 DEF CaptureCell, PinPublished
    <3>2. /\ host'.state = host.state
          /\ host'.lease = [host.lease EXCEPT !["cell"] = host.active]
      BY <1>0, <3>1, PinActiveFacts
    <3> QED BY <1>0, <2>1, <3>1, <3>2 DEF LeasesOwed, Pinning
  <2> QED BY <1>12, <2>3, <2>4
<1>13. ASSUME MainResumes \/ MainStops PROVE LeasesOwed'
  <2>1. /\ UNCHANGED <<plan, host, cleanup>> /\ main # "none" /\ main' # "none"
        /\ plan.op = "none"
    BY <1>0, <1>13 DEF MainResumes, MainStops, Boundary, Idle
  <2> QED BY <1>0, <2>1 DEF LeasesOwed, Pinning
<1>14. ASSUME MainEnds PROVE LeasesOwed'
  <2>1. /\ UNCHANGED <<plan, host>> /\ plan.op = "none"
        /\ cleanup' = IF host.lease["main"] = 0 THEN cleanup ELSE cleanup \cup {"main"}
    BY <1>0, <1>14 DEF MainEnds, Boundary
  <2> QED BY <1>0, <2>1 DEF LeasesOwed, Pinning
<1>15. ASSUME MainLost PROVE LeasesOwed'
  <2>1. /\ UNCHANGED <<plan, cleanup>> /\ plan.op = "none" /\ main = "running" /\ main' = "lost"
    BY <1>0, <1>15 DEF MainLost, Boundary
  <2>2. CASE host' = host
    BY <1>0, <2>1, <2>2 DEF LeasesOwed, Pinning
  <2>3. CASE host' = Broken(host)
    <3>1. host'.state = "broken" /\ host'.lease = host.lease
      BY <1>0, <2>3, BrokenFacts
    <3> QED BY <1>0, <2>1, <3>1, LeasesBreak
  <2> QED BY <1>15, <2>2, <2>3 DEF MainLost
<1> QED
  BY <1>1, <1>2, <1>3, <1>4, <1>5, <1>6, <1>7, <1>8, <1>9, <1>10, <1>11, <1>12, <1>13, <1>14,
     <1>15, Zenon DEF Next

-----------------------------------------------------------------------------

LEMMA StutterKeeps ==
    ASSUME UNCHANGED vars PROVE Ledger /\ Control => Ledger' /\ Control'
BY DEF vars, Ledger, Control, RestTyped, CallsTyped, PlanStands, LeasesOwed, Pinning, Lessee, Boundary

LEMMA NextKeepsControl == ASSUME Ledger, Control, [Next]_vars PROVE Ledger' /\ Control'
<1>1. CASE Next
  <2>1. Ledger'
    BY <1>1, NextMovesHost, HostMoveKeepsLedger
  <2>2. RestTyped'
    BY <1>1, <2>1, NextTypes
  <2>3. PlanStands'
    BY <1>1, <2>1, <2>2, StepKeepsPlan
  <2>4. LeasesOwed'
    BY <1>1, <2>1, <2>2, <2>3, StepKeepsLeases
  <2> QED BY <2>1, <2>2, <2>3, <2>4 DEF Control
<1>2. CASE UNCHANGED vars
  BY <1>2, StutterKeeps
<1> QED BY <1>1, <1>2

LEMMA InitControl == ASSUME Init PROVE Ledger /\ Control
<1>1. host \in HostType
  BY MaxGenAssumption DEF Init, HostType
<1>2. /\ host.state = "empty" /\ host.pending = 0 /\ host.active = 0 /\ host.records = {}
      /\ host.retained = {} /\ host.refs = [r \in Regs |-> 0]
      /\ host.lease = [o \in Owners |-> 0]
  BY DEF Init
<1>3. Pinned(host) = {}
  BY <1>2 DEF Pinned
<1>4. Shape(host)
  BY <1>2, <1>3 DEF Shape
<1>5. Exact(host)
  <2>1. ASSUME NEW r \in Regs PROVE Holders(host, r) = {} /\ Leases(host, r) = {}
    BY <1>2 DEF Holders, Leases
  <2>2. Cardinality({}) = 0
    BY FS_EmptySet
  <2> QED BY <1>2, <2>1, <2>2 DEF Exact
<1>6. RestTyped
  <2>1. NoPlan \in PlanType /\ NoCall \in CallType /\ NoCall.op = "none"
    BY DEF NoPlan, PlanType, Steps, NoCall, CallType
  <2>2. CallsTyped
    BY <2>1 DEF Init, CallsTyped
  <2>3. target \in TargetType /\ spots \in SpotsType /\ remote \in RemoteType
    BY DEF Init, TargetType, SpotsType, RemoteType
  <2>4. pub \in PubType /\ svc \in SvcType /\ seen \in SeenType
    BY DEF Init, PubType, SvcType, SeenType
  <2> QED BY <2>1, <2>2, <2>3, <2>4 DEF Init, RestTyped
<1>7. PlanStands /\ LeasesOwed
  BY <1>2 DEF Init, NoPlan, PlanStands, LeasesOwed, Pinning
<1> QED BY <1>1, <1>4, <1>5, <1>6, <1>7 DEF Ledger, Control

LEMMA ControlInvariant == Spec => [](Ledger /\ Control)
BY InitControl, NextKeepsControl, PTL DEF Spec

\* _registration_refcounts is exact in every reachable state, through prepare, confirm,
\* discard, pins, both releases and every loss: each registration is counted once for each
\* generation that is active or retained with it and once for each lease, for any number of
\* generations, registrations and clients.
THEOREM CountsExact == Spec => []RefcountsExact
<1>1. Ledger => RefcountsExact
  BY DEF Ledger, Exact, Holders, Leases, RefcountsExact
<1> QED BY <1>1, ControlInvariant, PTL

-----------------------------------------------------------------------------
(* What each step changes, for the invariants that follow.                 *)

\* Steps that leave the ledger's records and roots alone.
Steady == /\ host'.records = host.records /\ host'.active = host.active /\ host'.next = host.next
          /\ host'.regs = host.regs /\ host'.lease = host.lease

LEMMA CallSteps ==
    ASSUME NEW c \in Callers,
           \/ \E unit \in Units, strict \in BOOLEAN : CallLoad(c, unit, strict)
           \/ \E method \in Methods : CallCell(c, method)
           \/ CallRelease(c)
    PROVE  plan.op = "none" /\ UNCHANGED <<host, target, spots, pub, svc, plan, main, cleanup, remote, seen>>
BY Zenon DEF CallLoad, CallCell, CallRelease, Idle

LEMMA AnsweredSteps ==
    ASSUME NEW c \in Callers, Rejected(c) \/ ReleaseOverUnknown(c)
    PROVE  /\ plan.op = "none" /\ plan' = NoPlan /\ calls' = [calls EXCEPT ![c] = NoCall]
           /\ UNCHANGED <<host, target, spots, pub, svc, main, cleanup, remote, seen>>
BY Zenon DEF Rejected, ReleaseOverUnknown, Idle, Answer

LEMMA BeginStep ==
    ASSUME Ledger, Control, NEW c \in Callers, BeginPromotion(c)
    PROVE  /\ plan.op = "none" /\ plan.step = "idle" /\ Current(calls[c]) /\ ~spots.unknown
           /\ calls[c].op \in {"load", "cell"} /\ host.state \in {"empty", "ready"}
           /\ plan' = [op |-> calls[c].op, who |-> c, step |-> "stage",
                       marks |-> spots.marks, before |-> spots.slots]
           /\ host'.state = "preparing" /\ host'.pending = host.next /\ host'.next = host.next + 1
           /\ host'.records = host.records /\ host'.active = host.active
           /\ host'.retained = host.retained /\ host'.lease = host.lease
           /\ host'.regs = [host.regs EXCEPT ![host.next] = CandidateRegs(calls[c])]
           /\ host.next \in Gens /\ CandidateRegs(calls[c]) \in SUBSET Regs
           /\ UNCHANGED <<target, spots, pub, svc, calls, main, cleanup, remote, seen>>
<1>1. CandidateRegs(calls[c]) \in SUBSET Regs
  BY RegsFacts DEF BeginPromotion, Control, RestTyped, CallsTyped
<1>2. host.next <= MaxGen /\ host' = Prepare(host, CandidateRegs(calls[c]))
  BY DEF BeginPromotion
<1>3. host.next \in Gens
  BY <1>2, MaxGenAssumption DEF Ledger, HostType, Gens
<1> QED
  BY <1>1, <1>2, <1>3, PrepareFacts
     DEF BeginPromotion, Idle, Available, Ledger, Control, PlanStands

LEMMA BeginBroken ==
    ASSUME Ledger, Control, NEW c \in Callers, PromotionOverUnknown(c)
    PROVE  /\ host'.state = "broken" /\ host'.pending = 0 /\ host'.next = host.next + 1
           /\ host'.records = host.records /\ host'.active = host.active
           /\ host'.lease = host.lease
           /\ host'.regs = [host.regs EXCEPT ![host.next] = CandidateRegs(calls[c])]
           /\ plan.op = "none" /\ plan' = NoPlan /\ calls' = [calls EXCEPT ![c] = NoCall]
           /\ UNCHANGED <<target, spots, pub, svc, main, cleanup, remote, seen>>
<1>1. CandidateRegs(calls[c]) \in SUBSET Regs
  BY RegsFacts DEF PromotionOverUnknown, Control, RestTyped, CallsTyped
<1>2. host.next <= MaxGen /\ host' = Broken(Prepare(host, CandidateRegs(calls[c])))
  BY DEF PromotionOverUnknown
<1>3. /\ plan.op = "none" /\ plan' = NoPlan /\ calls' = [calls EXCEPT ![c] = NoCall]
      /\ UNCHANGED <<target, spots, pub, svc, main, cleanup, remote, seen>>
  BY DEF PromotionOverUnknown, Idle, Answer
<1> QED BY <1>1, <1>2, <1>3, PrepareFacts, BrokenFacts DEF Ledger

LEMMA DiscardSteps ==
    ASSUME Ledger, Control, StageFails \/ RootFails \/ DiscardRoot
    PROVE  /\ Steady /\ host'.pending = 0 /\ host'.state \in {"empty", "ready"}
           /\ host.state = "preparing" /\ plan.op # "none" /\ plan.step \in {"stage", "root", "discard"}
           /\ plan' = NoPlan /\ calls' = [calls EXCEPT ![plan.who] = NoCall]
           /\ UNCHANGED <<spots, pub, svc, main, cleanup, seen>>
<1>1. /\ host' = Discard(host) /\ plan' = NoPlan /\ calls' = [calls EXCEPT ![plan.who] = NoCall]
      /\ UNCHANGED <<spots, pub, svc, main, cleanup, seen>>
  BY Zenon DEF StageFails, RootFails, DiscardRoot, Answer
<1>2. plan.op # "none" /\ plan.step \in {"stage", "root", "discard"}
  BY DEF StageFails, RootFails, DiscardRoot, At
<1> QED BY <1>1, <1>2, DiscardFacts DEF Ledger, Control, PlanStands, Steady

LEMMA BreakSteps ==
    ASSUME Ledger, Control, OwnershipRefused \/ LoseReply
    PROVE  /\ Steady /\ host'.pending = 0 /\ host'.state = "broken"
           /\ plan' = NoPlan /\ calls' = [calls EXCEPT ![plan.who] = NoCall] /\ plan.op # "none"
           /\ spots'.views = spots.views /\ seen'.acked = seen.acked
           /\ UNCHANGED <<target, pub, svc, main, cleanup>>
<1>1. /\ host' = Broken(host) /\ plan' = NoPlan /\ calls' = [calls EXCEPT ![plan.who] = NoCall]
      /\ UNCHANGED <<target, pub, svc, main, cleanup>>
  BY Zenon DEF OwnershipRefused, LoseReply, Answer
<1>2. spots'.views = spots.views /\ seen'.acked = seen.acked /\ plan.op # "none"
  BY DEF OwnershipRefused, LoseReply, At, Control, RestTyped, SpotsType, SeenType
<1> QED BY <1>1, <1>2, BrokenFacts DEF Ledger, Steady

LEMMA SwapStep ==
    ASSUME Ledger, Control, Swap
    PROVE  /\ plan.step = "swap" /\ plan.op # "none" /\ host.pending \in Gens
           /\ host.state = "preparing" /\ host'.state = "ready"
           /\ host'.active = host.pending /\ host'.pending = 0 /\ host'.next = host.next
           /\ host'.regs = host.regs /\ host'.records \subseteq host.records \cup {host.pending}
           /\ plan' = [plan EXCEPT !.step = "own"]
           /\ remote' = [remote EXCEPT !.root = host.pending, !.prepared = 0]
           /\ spots' = [spots EXCEPT !.views = @ \cup {host.pending}, !.marks = plan.marks,
                              !.removed = @ \cup (spots.marks \ plan.marks)]
           /\ UNCHANGED <<target, pub, svc, calls, main, cleanup, seen>>
<1>1. /\ plan.step = "swap" /\ plan.op # "none" /\ host.state = "preparing"
      /\ host.pending \in Gens /\ 0 \notin Gens
  BY DEF Swap, At, Control, PlanStands, Ledger, Shape, HostType, Gens
<1>2. /\ Confirm(host) \in HostType /\ Confirm(host).active = host.pending
      /\ Confirm(host).state = "ready" /\ Confirm(host).pending = 0
      /\ Confirm(host).next = host.next /\ Confirm(host).regs = host.regs
      /\ Confirm(host).records \subseteq host.records \cup {host.pending}
  BY <1>1, ConfirmFacts DEF Ledger
<1>3. Lessee \in Owners
  BY DEF Lessee, Owners
<1>4. host' = Confirm(host) \/ host' = PinActive(Confirm(host), Lessee)
  BY DEF Swap
<1>5. /\ host'.state = "ready"
      /\ host'.active = host.pending /\ host'.pending = 0 /\ host'.next = host.next
      /\ host'.regs = host.regs /\ host'.records \subseteq host.records \cup {host.pending}
  <2> DEFINE k == Confirm(host)
  <2>1. /\ PinActive(k, Lessee).state = k.state /\ PinActive(k, Lessee).next = k.next
        /\ PinActive(k, Lessee).pending = k.pending /\ PinActive(k, Lessee).active = k.active
        /\ PinActive(k, Lessee).records = k.records /\ PinActive(k, Lessee).regs = k.regs
    BY <1>1, <1>2, <1>3, PinActiveFacts
  <2> HIDE DEF k
  <2>2. host' = k \/ host' = PinActive(k, Lessee)
    BY <1>4 DEF k
  <2>3. /\ k.active = host.pending
        /\ k.state = "ready" /\ k.pending = 0
        /\ k.next = host.next /\ k.regs = host.regs
        /\ k.records \subseteq host.records \cup {host.pending}
    BY <1>2 DEF k
  <2> QED BY <2>1, <2>2, <2>3
<1>6. remote' = [remote EXCEPT !.root = host.pending, !.prepared = 0]
  BY <1>1 DEF Swap, Effect
<1> QED BY <1>1, <1>5, <1>6 DEF Swap, GoTo

\* What a publication leaves alone.
LEMMA PublishFirstStep ==
    ASSUME Ledger, Control, PublishFirst
    PROVE  /\ Steady /\ host' = host /\ host.state = "ready" /\ plan.step = "own" /\ plan.op # "none"
           /\ pub.gen = 0 /\ plan' = NoPlan /\ UNCHANGED <<target, spots, remote>> /\ Publish
BY DEF PublishFirst, At, Publish, Control, PlanStands, Steady

LEMMA PublishNextStep ==
    ASSUME Ledger, Control, PublishNext
    PROVE  /\ pub.gen \in Gens /\ pub.gen # 0 /\ plan.step = "own" /\ plan.op # "none"
           /\ host.state = "ready" /\ host'.state = "ready"
           /\ host'.active = host.active /\ host'.next = host.next /\ host'.pending = host.pending
           /\ host'.regs = host.regs /\ host'.lease = host.lease
           /\ host'.records \subseteq host.records
           /\ spots' = [spots EXCEPT !.slots = SlotsFor(host'), !.views = host'.records]
           /\ remote' = [remote EXCEPT !.slots = SlotsFor(host')]
           /\ plan' = NoPlan /\ target' = target /\ Publish
<1>1. /\ plan.step = "own" /\ plan.op # "none" /\ pub.gen # 0 /\ host.state = "ready"
      /\ pub.gen \in Gens /\ host' = ReleaseHandle(host, pub.gen) /\ Publish /\ plan' = NoPlan
      /\ target' = target
  BY DEF PublishNext, At, Control, PlanStands, RestTyped, PubType, Publish
<1>2. /\ spots' = [spots EXCEPT !.slots = SlotsFor(host'), !.views = host'.records]
      /\ remote' = [remote EXCEPT !.slots = SlotsFor(host')]
  BY <1>1 DEF PublishNext, Effect, Released
<1> QED BY <1>1, <1>2, ReleaseHandleFacts DEF Ledger

LEMMA ReleaseStep ==
    ASSUME Ledger, Control, NEW c \in Callers, ReleaseGeneration(c)
    PROVE  /\ calls[c].gen \in Gens /\ svc.owned = calls[c].gen /\ pub.gen = calls[c].gen
           /\ host.state # "broken" /\ host'.state = host.state /\ host'.active = host.active
           /\ host'.next = host.next /\ host'.pending = host.pending
           /\ host'.regs = host.regs /\ host'.lease = host.lease
           /\ host'.records = {x \in host.records : \/ x = host.active
                                                    \/ x \in host.retained \ {calls[c].gen}
                                                    \/ x \in Pinned(host)}
           /\ spots' = [spots EXCEPT !.slots = SlotsFor(host'), !.views = host'.records]
           /\ svc' = [svc EXCEPT !.owned = 0, !.rev = @ + 1]
           /\ plan.op = "none" /\ plan' = NoPlan /\ calls' = [calls EXCEPT ![c] = NoCall]
           /\ UNCHANGED <<target, pub, main, cleanup, remote, seen>>
<1>1. /\ host' = ReleaseHandle(host, calls[c].gen) /\ calls[c].gen \in Gens
      /\ plan.op = "none" /\ host.state # "broken"
      /\ svc.owned = calls[c].gen /\ pub.gen = calls[c].gen
  BY DEF ReleaseGeneration, CanRelease, Ledger, HostType, Idle, Current
<1>2. /\ spots' = [spots EXCEPT !.slots = SlotsFor(host'), !.views = host'.records]
      /\ svc' = [svc EXCEPT !.owned = 0, !.rev = @ + 1]
      /\ plan' = NoPlan /\ calls' = [calls EXCEPT ![c] = NoCall]
      /\ UNCHANGED <<target, pub, main, cleanup, remote, seen>>
  BY <1>1 DEF ReleaseGeneration, Released, Answer
<1> QED BY <1>1, <1>2, ReleaseHandleFacts DEF Ledger

LEMMA CleanUpStep ==
    ASSUME Ledger, Control, NEW o \in Owners, CleanUp(o)
    PROVE  /\ host'.state = host.state /\ host.state # "broken" /\ host'.active = host.active
           /\ host'.next = host.next /\ host'.pending = host.pending /\ host'.regs = host.regs
           /\ host'.records \subseteq host.records
           /\ spots' = [spots EXCEPT !.slots = SlotsFor(host'), !.views = host'.records]
           /\ remote' = [remote EXCEPT !.slots = SlotsFor(host')]
           /\ plan.op = "none" /\ UNCHANGED <<target, pub, svc, plan, calls, main, seen>>
<1>1. /\ host' = ReleasePin(host, o) /\ host.lease[o] # 0 /\ plan.op = "none"
      /\ host.state # "broken"
  BY DEF CleanUp, Control, LeasesOwed, Available
<1>2. /\ spots' = [spots EXCEPT !.slots = SlotsFor(host'), !.views = host'.records]
      /\ remote' = [remote EXCEPT !.slots = SlotsFor(host')]
      /\ UNCHANGED <<target, pub, svc, plan, calls, main, seen>>
  BY <1>1 DEF CleanUp, Released
<1> DEFINE k == ReleasePin(host, o)
<1>3. /\ k.state = host.state /\ k.active = host.active /\ k.next = host.next
      /\ k.pending = host.pending /\ k.regs = host.regs
      /\ k.records \subseteq host.records
  <2>1. k.records = {g \in host.records :
                  \/ g = host.active \/ g \in host.retained
                  \/ \E p \in Owners \ {o} : g = host.lease[p] /\ g # 0}
    BY <1>1, ReleasePinFacts DEF Ledger
  <2>2. /\ k.state = host.state /\ k.active = host.active /\ k.next = host.next
        /\ k.pending = host.pending /\ k.regs = host.regs
    BY <1>1, ReleasePinFacts DEF Ledger
  <2> HIDE DEF k
  <2> QED BY <2>1, <2>2
<1>4. host' = k
  BY <1>1
<1> HIDE DEF k
<1> QED BY <1>1, <1>2, <1>3, <1>4

LEMMA PinSteps ==
    ASSUME Ledger, Control, MainStarts \/ CaptureCell
    PROVE  /\ host'.state = host.state /\ host'.active = host.active
           /\ host'.next = host.next /\ host'.pending = host.pending /\ host'.regs = host.regs
           /\ host'.records = host.records /\ plan.op = "none"
           /\ calls' \in {calls, [c \in Callers |-> NoCall]}
           /\ UNCHANGED <<target, spots, pub, svc, plan, remote, seen>>
<1>1. PICK o \in Owners : host' = PinPublished(host, o)
  BY DEF MainStarts, CaptureCell, Owners
<1>2. pub.gen # 0 => host.active # 0
  BY DEF MainStarts, CaptureCell
<1>3. /\ plan.op = "none" /\ calls' \in {calls, [c \in Callers |-> NoCall]}
      /\ UNCHANGED <<target, spots, pub, svc, plan, remote, seen>>
  BY Zenon DEF MainStarts, CaptureCell, Idle, NewRoute
<1> QED BY <1>1, <1>2, <1>3, PinActiveFacts DEF PinPublished, Ledger

LEMMA MainSteps ==
    ASSUME Ledger, Control, MainStops \/ MainResumes \/ MainEnds \/ MainLost
    PROVE  /\ Steady /\ host'.pending \in {host.pending, 0}
           /\ host'.state \in {host.state, "broken"} /\ plan.op = "none"
           /\ calls' \in {calls, [c \in Callers |-> NoCall]} /\ seen'.acked = seen.acked
           /\ UNCHANGED <<target, spots, pub, svc, plan, remote>>
<1>1. plan.op = "none" /\ calls' \in {calls, [c \in Callers |-> NoCall]}
      /\ UNCHANGED <<target, spots, pub, svc, plan, remote>>
  BY DEF MainStops, MainResumes, MainEnds, MainLost, NewRoute, Idle, Boundary, Control, PlanStands
<1>2. seen'.acked = seen.acked
  BY DEF MainStops, MainResumes, MainEnds, MainLost, Control, RestTyped, SeenType
<1>3. host' = host \/ host' = Broken(host)
  BY DEF MainStops, MainResumes, MainEnds, MainLost
<1>4. CASE host' = host
  BY <1>1, <1>2, <1>4 DEF Steady
<1>5. CASE host' = Broken(host)
  <2>1. Steady /\ host'.pending = 0 /\ host'.state = "broken"
    BY <1>5, BrokenFacts DEF Ledger, Steady
  <2> QED BY <1>1, <1>2, <2>1
<1> QED BY <1>3, <1>4, <1>5

-----------------------------------------------------------------------------
(* What the ledger holds is live in the target.                            *)

\* Views and registrations follow the records; the candidate's are there once staged; and
\* what a root has instantiated is what type probes recognise.
Live ==
    /\ host.records \subseteq spots.views
    /\ \A g \in host.records : host.regs[g] \subseteq target.registered
    /\ host.pending # 0 /\ plan.step # "stage" => CandRegs \subseteq target.registered
    /\ target.instantiated \subseteq target.registered \ target.failed

\* Host and target agree about the root until the universe breaks.
Agree ==
    host.state # "broken" =>
        /\ remote.root = host.active
        /\ plan.step \notin {"slots", "swap", "restore", "discard"} => remote.prepared = 0

LEMMA LiveRests ==
    ASSUME Live, host'.records \subseteq host.records, host'.regs = host.regs,
           host'.pending # 0 => host'.pending = host.pending /\ plan.step # "stage",
           host'.records \subseteq spots'.views, target' = target
    PROVE  Live'
BY DEF Live, CandRegs

LEMMA StepKeepsLive == ASSUME Ledger, Control, Ledger', Control', Live, Next PROVE Live'
<1>0. /\ plan.op = "none" => host.pending = 0 /\ plan.step = "idle"
      /\ host \in HostType /\ spots \in SpotsType /\ target \in TargetType
      /\ host.records \subseteq spots.views
      /\ host.state # "preparing" => host.pending = 0
      /\ plan.step # "own" /\ plan.op # "none" => host.pending # 0
  BY DEF Ledger, Shape, Control, PlanStands, RestTyped, Live
<1>1. ASSUME NEW c \in Callers,
             \/ \E unit \in Units, strict \in BOOLEAN : CallLoad(c, unit, strict)
             \/ \E method \in Methods : CallCell(c, method)
             \/ CallRelease(c)
      PROVE  Live'
  <2>1. plan.op = "none" /\ UNCHANGED <<host, target, spots>>
    BY <1>1, CallSteps
  <2> QED BY <1>0, <2>1, LiveRests
<1>2. ASSUME NEW c \in Callers, Rejected(c) \/ ReleaseOverUnknown(c) PROVE Live'
  <2>1. plan.op = "none" /\ UNCHANGED <<host, target, spots>>
    BY <1>2, AnsweredSteps
  <2> QED BY <1>0, <2>1, LiveRests
<1>3. ASSUME NEW c \in Callers, BeginPromotion(c) \/ PromotionOverUnknown(c) PROVE Live'
  <2>1. /\ host'.records = host.records
        /\ host'.regs = [host.regs EXCEPT ![host.next] = CandidateRegs(calls[c])]
        /\ host'.pending = 0 \/ plan'.step = "stage"
        /\ UNCHANGED <<target, spots>>
    BY <1>3, BeginStep, BeginBroken
  <2>2. \A g \in host.records : g # host.next /\ g \in Gens
    BY MaxGenAssumption DEF Ledger, Shape, HostType, Gens
  <2>3. \A g \in host.records : host'.regs[g] = host.regs[g]
    BY <1>0, <2>1, <2>2 DEF HostType
  <2> QED BY <2>1, <2>3 DEF Live
<1>4. ASSUME NEW c \in Callers, ReleaseGeneration(c) PROVE Live'
  <2>1. /\ host'.pending = host.pending /\ host'.regs = host.regs /\ plan.op = "none"
        /\ host'.records \subseteq host.records /\ target' = target
        /\ spots' = [spots EXCEPT !.slots = SlotsFor(host'), !.views = host'.records]
    BY <1>4, ReleaseStep
  <2> QED BY <1>0, <2>1, LiveRests DEF SpotsType
<1>5. ASSUME StageFails \/ RootFails \/ DiscardRoot PROVE Live'
  <2>1. Steady /\ host'.pending = 0 /\ spots' = spots
    BY <1>5, DiscardSteps
  <2>2. /\ target.registered \subseteq target'.registered
        /\ target'.instantiated = target.instantiated
        /\ target'.failed \cap target.instantiated \subseteq target.failed
    BY <1>0, <1>5 DEF StageFails, RootFails, DiscardRoot, TargetType
  <2> QED BY <2>1, <2>2 DEF Live, Steady
<1>6. ASSUME OwnershipRefused \/ LoseReply PROVE Live'
  <2>1. Steady /\ host'.pending = 0 /\ spots'.views = spots.views /\ target' = target
    BY <1>6, BreakSteps
  <2> QED BY <1>0, <2>1, LiveRests DEF Steady
<1>7. ASSUME Stage PROVE Live'
  <2>1. /\ host' = host /\ spots' = spots
        /\ target' = [target EXCEPT !.registered = @ \cup CandRegs]
    BY <1>7 DEF Stage
  <2> QED BY <1>0, <2>1 DEF Live, CandRegs, TargetType
<1>8. ASSUME PrepareRoot PROVE Live'
  <2>1. /\ host' = host /\ spots' = spots /\ plan.step # "stage" /\ host.pending # 0
        /\ target' = [target EXCEPT !.instantiated = @ \cup CandRegs, !.failed = @ \ CandRegs]
    BY <1>0, <1>8 DEF PrepareRoot, At
  <2> QED BY <1>0, <2>1 DEF Live, CandRegs, TargetType
<1>9. ASSUME Conflict \/ SwapFails \/ InstallSlots \/ RestoreSlots PROVE Live'
  <2>1. /\ host' = host /\ plan.step # "stage" /\ target' = target
        /\ spots'.views = spots.views
    BY <1>0, <1>9 DEF Conflict, SwapFails, InstallSlots, RestoreSlots, At, SpotsType
  <2> QED BY <1>0, <2>1, LiveRests
<1>10. ASSUME Swap PROVE Live'
  <2>1. /\ plan.step = "swap" /\ host'.pending = 0 /\ host.pending \in Gens
        /\ host'.regs = host.regs /\ host'.records \subseteq host.records \cup {host.pending}
        /\ target' = target /\ host.pending # 0
    BY <1>0, <1>10, SwapStep
  <2>2. spots'.views = spots.views \cup {host.pending}
    BY <1>0, <1>10, SwapStep DEF SpotsType
  <2> QED BY <2>1, <2>2 DEF Live, CandRegs
<1>11. ASSUME PublishFirst PROVE Live'
  <2>1. host' = host /\ plan.step # "stage" /\ UNCHANGED <<target, spots>>
    BY <1>11, PublishFirstStep
  <2> QED BY <1>0, <2>1, LiveRests
<1>12. ASSUME PublishNext PROVE Live'
  <2>1. /\ host'.pending = host.pending /\ host'.regs = host.regs /\ plan.step = "own"
        /\ host'.records \subseteq host.records /\ target' = target
        /\ spots' = [spots EXCEPT !.slots = SlotsFor(host'), !.views = host'.records]
    BY <1>12, PublishNextStep
  <2> QED BY <1>0, <2>1, LiveRests DEF SpotsType
<1>13. ASSUME NEW o \in Owners, CleanUp(o) PROVE Live'
  <2>1. /\ host'.pending = host.pending /\ host'.regs = host.regs /\ plan.op = "none"
        /\ host'.records \subseteq host.records /\ target' = target
        /\ spots' = [spots EXCEPT !.slots = SlotsFor(host'), !.views = host'.records]
    BY <1>13, CleanUpStep
  <2> QED BY <1>0, <2>1, LiveRests DEF SpotsType
<1>14. ASSUME \/ \E o \in Owners : CleanUpLost(o)
              \/ \E r \in Marks : AddMark(r) \/ RemoveMark(r)
       PROVE  Live'
  <2>1. plan.op = "none" /\ host' = host /\ target' = target
    BY <1>14, Zenon DEF CleanUpLost, AddMark, RemoveMark, InstallLost, SetMarks, Idle
  <2>2. spots'.views = spots.views
    BY <1>0, <1>14 DEF CleanUpLost, AddMark, RemoveMark, InstallLost, SetMarks, SpotsType
  <2> QED BY <1>0, <2>1, <2>2, LiveRests
<1>15. ASSUME MainStarts \/ CaptureCell PROVE Live'
  <2>1. /\ host'.pending = host.pending /\ host'.regs = host.regs /\ plan.op = "none"
        /\ host'.records = host.records /\ UNCHANGED <<target, spots>>
    BY <1>15, PinSteps
  <2> QED BY <1>0, <2>1, LiveRests
<1>16. ASSUME MainStops \/ MainResumes \/ MainEnds \/ MainLost PROVE Live'
  <2>1. /\ Steady /\ plan.op = "none" /\ UNCHANGED <<target, spots>>
        /\ host'.pending \in {host.pending, 0}
    BY <1>16, MainSteps
  <2> QED BY <1>0, <2>1, LiveRests DEF Steady
<1> QED
  BY <1>1, <1>2, <1>3, <1>4, <1>5, <1>6, <1>7, <1>8, <1>9, <1>10, <1>11, <1>12, <1>13, <1>14,
     <1>15, <1>16, Zenon DEF Next

LEMMA AgreeRests ==
    ASSUME Agree, host'.state # "broken" => host.state # "broken", host'.active = host.active,
           remote'.root = remote.root, remote'.prepared = remote.prepared,
           plan.step \notin {"slots", "swap", "restore", "discard"}
    PROVE  Agree'
BY DEF Agree

LEMMA StepKeepsAgree == ASSUME Ledger, Control, Ledger', Control', Agree, Next PROVE Agree'
<1>0. /\ plan.op = "none" => plan.step = "idle"
      /\ remote \in RemoteType /\ plan \in PlanType
  BY DEF Control, PlanStands, RestTyped
<1>1. ASSUME NEW c \in Callers,
             \/ \E unit \in Units, strict \in BOOLEAN : CallLoad(c, unit, strict)
             \/ \E method \in Methods : CallCell(c, method)
             \/ CallRelease(c)
      PROVE  Agree'
  <2>1. plan.op = "none" /\ UNCHANGED <<host, remote>>
    BY <1>1, CallSteps
  <2> QED BY <1>0, <2>1, AgreeRests
<1>2. ASSUME NEW c \in Callers, Rejected(c) \/ ReleaseOverUnknown(c) PROVE Agree'
  <2>1. plan.op = "none" /\ UNCHANGED <<host, remote>>
    BY <1>2, AnsweredSteps
  <2> QED BY <1>0, <2>1, AgreeRests
<1>3. ASSUME NEW c \in Callers, BeginPromotion(c) PROVE Agree'
  <2>1. plan.op = "none" /\ host'.active = host.active /\ remote' = remote
        /\ host.state \in {"empty", "ready"}
    BY <1>3, BeginStep
  <2> QED BY <1>0, <2>1, AgreeRests
<1>4. ASSUME NEW c \in Callers, PromotionOverUnknown(c) PROVE Agree'
  BY <1>4, BeginBroken DEF Agree
<1>5. ASSUME NEW c \in Callers, ReleaseGeneration(c) PROVE Agree'
  <2>1. plan.op = "none" /\ host'.active = host.active /\ remote' = remote
        /\ host'.state = host.state
    BY <1>5, ReleaseStep
  <2> QED BY <1>0, <2>1, AgreeRests
<1>6. ASSUME StageFails \/ RootFails PROVE Agree'
  <2>1. /\ Steady /\ host.state = "preparing"
    BY <1>6, DiscardSteps
  <2>2. plan.step \in {"stage", "root"} /\ remote' = remote
    BY <1>6 DEF StageFails, RootFails, At
  <2> QED BY <2>1, <2>2, AgreeRests DEF Steady
<1>7. ASSUME DiscardRoot PROVE Agree'
  <2>1. /\ Steady /\ host.state = "preparing"
    BY <1>7, DiscardSteps
  <2>2. remote' = [remote EXCEPT !.prepared = 0]
    BY <1>7 DEF DiscardRoot, At, Effect
  <2> QED BY <1>0, <2>1, <2>2 DEF Agree, Steady, RemoteType
<1>8. ASSUME OwnershipRefused \/ LoseReply PROVE Agree'
  BY <1>8, BreakSteps DEF Agree
<1>9. ASSUME Stage PROVE Agree'
  <2>1. UNCHANGED <<host, remote>> /\ plan.step = "stage"
    BY <1>9 DEF Stage, At
  <2> QED BY <2>1, AgreeRests
<1>10. ASSUME PrepareRoot \/ Conflict \/ InstallSlots \/ SwapFails \/ RestoreSlots PROVE Agree'
  <2>1. host' = host /\ plan'.step \in {"slots", "swap", "restore", "discard"}
    BY <1>0, <1>10 DEF PrepareRoot, Conflict, InstallSlots, SwapFails, RestoreSlots, GoTo, PlanType
  <2>2. remote'.root = remote.root
    BY <1>0, <1>10 DEF PrepareRoot, Conflict, InstallSlots, SwapFails, RestoreSlots, Effect, At,
       RemoteType
  <2> QED BY <2>1, <2>2 DEF Agree
<1>11. ASSUME Swap PROVE Agree'
  <2>1. host'.active = host.pending /\ remote' = [remote EXCEPT !.root = host.pending, !.prepared = 0]
    BY <1>11, SwapStep
  <2> QED BY <1>0, <2>1 DEF Agree, RemoteType
<1>12. ASSUME PublishFirst PROVE Agree'
  <2>1. host' = host /\ plan.step = "own" /\ UNCHANGED <<target, remote>>
    BY <1>12, PublishFirstStep
  <2> QED BY <1>0, <2>1, AgreeRests
<1>13. ASSUME PublishNext PROVE Agree'
  <2>1. /\ host'.state = host.state /\ host'.active = host.active /\ plan.step = "own"
        /\ remote' = [remote EXCEPT !.slots = SlotsFor(host')]
    BY <1>13, PublishNextStep
  <2>2. remote'.root = remote.root /\ remote'.prepared = remote.prepared
    BY <1>0, <2>1 DEF RemoteType
  <2> QED BY <2>1, <2>2, AgreeRests
<1>14. ASSUME NEW o \in Owners, CleanUp(o) PROVE Agree'
  <2>1. /\ host'.state = host.state /\ host'.active = host.active /\ plan.op = "none"
        /\ remote' = [remote EXCEPT !.slots = SlotsFor(host')]
    BY <1>14, CleanUpStep
  <2>2. remote'.root = remote.root /\ remote'.prepared = remote.prepared
    BY <1>0, <2>1 DEF RemoteType
  <2> QED BY <1>0, <2>1, <2>2, AgreeRests
<1>15. ASSUME \/ \E o \in Owners : CleanUpLost(o)
              \/ \E r \in Marks : AddMark(r) \/ RemoveMark(r)
       PROVE  Agree'
  <2>1. plan.op = "none" /\ host' = host
    BY <1>15, Zenon DEF CleanUpLost, AddMark, RemoveMark, InstallLost, SetMarks, Idle
  <2>2. remote'.root = remote.root /\ remote'.prepared = remote.prepared
    BY <1>0, <1>15 DEF CleanUpLost, AddMark, RemoveMark, InstallLost, SetMarks, RemoteType
  <2> QED BY <1>0, <2>1, <2>2, AgreeRests
<1>16. ASSUME MainStarts \/ CaptureCell PROVE Agree'
  <2>1. host'.state = host.state /\ host'.active = host.active /\ plan.op = "none" /\ remote' = remote
    BY <1>16, PinSteps
  <2> QED BY <1>0, <2>1, AgreeRests
<1>17. ASSUME MainStops \/ MainResumes \/ MainEnds \/ MainLost PROVE Agree'
  <2>1. /\ Steady /\ plan.op = "none" /\ remote' = remote
        /\ host'.state \in {host.state, "broken"}
    BY <1>17, MainSteps
  <2> QED BY <1>0, <2>1, AgreeRests DEF Steady
<1> QED
  BY <1>1, <1>2, <1>3, <1>4, <1>5, <1>6, <1>7, <1>8, <1>9, <1>10, <1>11, <1>12, <1>13, <1>14,
     <1>15, <1>16, <1>17, Zenon DEF Next

LEMMA LiveInvariant == Spec => [](Live /\ Agree)
<1>1. ASSUME Init PROVE Live /\ Agree
  <2>1. host.records = {} /\ host.pending = 0 /\ host.active = 0
    BY <1>1 DEF Init
  <2>2. target.instantiated = {} /\ remote.root = 0 /\ remote.prepared = 0
    BY <1>1 DEF Init
  <2> QED BY <2>1, <2>2 DEF Live, Agree
<1>2. Ledger /\ Control /\ Ledger' /\ Control' /\ Live /\ Agree /\ [Next]_vars => Live' /\ Agree'
  <2>1. ASSUME UNCHANGED vars, Live, Agree PROVE Live' /\ Agree'
    BY <2>1 DEF vars, Live, Agree, CandRegs
  <2> QED BY <2>1, StepKeepsLive, StepKeepsAgree
<1> QED BY <1>1, <1>2, ControlInvariant, PTL DEF Spec

\* Whatever was promoted and released since, what a paused command pinned keeps its record,
\* its debug view and its registrations in the target, for any number of generations: the
\* inductive invariant is that every record has them.
THEOREM PinnedLives == Spec => []PinnedStaysLive
<1>1. Ledger /\ Control /\ Live => PinnedStaysLive
  BY DEF Ledger, Shape, Pinned, Live, PinnedStaysLive
<1> QED BY <1>1, ControlInvariant, LiveInvariant, PTL

\* Host and target agree about the running root at every point of a promotion, no known
\* failure leaves a prepared root behind, and no compilation failure hides a registration
\* that a root has instantiated, for any number of generations, units and clients.
THEOREM RootsAgree == Spec => []TargetAgrees
<1>1. Ledger /\ Control /\ Live /\ Agree => TargetAgrees
  BY DEF Ledger, Shape, Control, PlanStands, Live, Agree, TargetAgrees, Quiet
<1> QED BY <1>1, ControlInvariant, LiveInvariant, PTL

-----------------------------------------------------------------------------
(* What is acknowledged is published.                                      *)

\* The service, the adapter and the history agree; the published generation is the active
\* one except while a promotion gives up its predecessor.
Inventory ==
    /\ svc.units = seen.acked \cap Units /\ pub.methods = seen.acked \cap Methods
    /\ pub.base = svc.units
    /\ pub.gen < host.next
    /\ pub.gen # 0 => host.regs[pub.gen] = pub.base \cup NotebookModule(pub.methods)
    /\ host.state # "broken" /\ plan.step # "own" => pub.gen = host.active

\* A prepared call was made from an inventory of its revision or an earlier one.
Prepared(c) ==
    /\ calls[c].op = "load" => \E u \in Units :
          /\ calls[c].asked = {u} /\ calls[c].rev <= svc.rev
          /\ calls[c].rev = svc.rev => calls[c].graph = Upsert(svc.units, u)
    /\ calls[c].op = "cell" => \E m \in Methods :
          /\ calls[c].asked = {m} /\ calls[c].rev <= pub.rev
          /\ calls[c].rev = pub.rev => calls[c].graph = pub.methods \cup {m}

\* The promotion's call is still current, and its candidate is what it prepared.
Candidate == IF plan.step = "own" THEN host.active ELSE host.pending
PromotesCall ==
    /\ plan.op = "load" => calls[plan.who].rev = svc.rev
    /\ plan.op = "cell" => calls[plan.who].rev = pub.rev
    /\ plan.op # "none" => host.regs[Candidate] = CandidateRegs(calls[plan.who])

Composes == Inventory /\ PromotesCall /\ \A c \in Callers : Prepared(c)

\* Steps that publish nothing and make no new call.
LEMMA ComposesRests ==
    ASSUME Composes, Control,
           calls' = calls \/ (\E c : calls' = [calls EXCEPT ![c] = NoCall])
                          \/ calls' = [c \in Callers |-> NoCall],
           UNCHANGED pub, svc'.units = svc.units, svc'.rev = svc.rev \/ svc'.rev = svc.rev + 1,
           plan.op = "none" \/ svc'.rev = svc.rev,
           seen'.acked = seen.acked, host'.next = host.next, host'.regs = host.regs,
           host'.active = host.active \/ plan'.step = "own",
           host'.state # "broken" => host.state # "broken",
           plan'.step # "own" => plan.step # "own" \/ host'.state = "broken",
           \/ plan'.op = "none"
           \/ /\ plan'.op = plan.op /\ plan.op # "none" /\ plan'.who = plan.who /\ calls' = calls
              /\ Candidate' = Candidate
    PROVE  Composes'
<1>0. NoCall.op = "none" /\ calls \in [Callers -> CallType] /\ svc \in SvcType
  BY DEF NoCall, Control, RestTyped, CallsTyped
<1>1. Inventory'
  BY DEF Composes, Inventory
<1>2. ASSUME NEW c \in Callers PROVE Prepared(c)'
  <2>1. calls'[c] = calls[c] \/ calls'[c].op = "none"
    BY <1>0
  <2>2. CASE calls'[c] = calls[c] /\ calls[c].op = "load"
    <3>1. PICK u \in Units : /\ calls[c].asked = {u} /\ calls[c].rev <= svc.rev
                             /\ calls[c].rev = svc.rev => calls[c].graph = Upsert(svc.units, u)
      BY <2>2 DEF Composes, Prepared
    <3>2. calls[c].rev \in Nat /\ svc.rev \in Nat
      BY <1>0 DEF CallType, SvcType
    <3>3. /\ calls[c].rev <= svc'.rev
          /\ calls[c].rev = svc'.rev => calls[c].graph = Upsert(svc'.units, u)
      BY <3>1, <3>2
    <3> QED BY <2>2, <3>1, <3>3 DEF Prepared
  <2>3. CASE calls'[c] = calls[c] /\ calls[c].op # "load"
    BY <2>3 DEF Composes, Prepared
  <2>4. CASE calls'[c].op = "none"
    BY <2>4 DEF Prepared
  <2> QED BY <2>1, <2>2, <2>3, <2>4
<1>3. PromotesCall'
  <2>1. CASE plan'.op = "none"
    BY <2>1 DEF PromotesCall
  <2>2. CASE plan'.op # "none"
    <3>1. /\ plan'.op = plan.op /\ plan.op # "none" /\ plan'.who = plan.who /\ calls' = calls
          /\ Candidate' = Candidate /\ svc'.rev = svc.rev
      BY <2>2
    <3>2. CandidateRegs(calls[plan.who])' = CandidateRegs(calls[plan.who])
      BY <3>1 DEF CandidateRegs
    <3> QED BY <3>1, <3>2 DEF Composes, PromotesCall
  <2> QED BY <2>1, <2>2
<1> QED BY <1>1, <1>2, <1>3 DEF Composes

\* A client prepares a call.
LEMMA CallComposes ==
    ASSUME Composes, Control, NEW c \in Callers,
           \/ \E unit \in Units, strict \in BOOLEAN : CallLoad(c, unit, strict)
           \/ \E method \in Methods : CallCell(c, method)
           \/ CallRelease(c)
    PROVE  Composes'
<1>0. /\ calls \in [Callers -> CallType] /\ svc.rev \in Nat /\ pub.rev \in Nat
      /\ plan.op = "none" /\ UNCHANGED <<host, pub, svc, plan, seen>>
  BY CallSteps DEF Control, RestTyped, CallsTyped, SvcType, PubType
<1>1. Inventory' /\ PromotesCall'
  BY <1>0 DEF Composes, Inventory, PromotesCall
<1>2. PICK call : /\ calls' = [calls EXCEPT ![c] = call]
                  /\ call.op = "load" => \E u \in Units :
                        call.asked = {u} /\ call.rev = svc.rev /\ call.graph = Upsert(svc.units, u)
                  /\ call.op = "cell" => \E m \in Methods :
                        call.asked = {m} /\ call.rev = pub.rev /\ call.graph = pub.methods \cup {m}
  <2>1. ASSUME NEW unit \in Units, NEW strict \in BOOLEAN, CallLoad(c, unit, strict)
        PROVE  \E call : /\ calls' = [calls EXCEPT ![c] = call]
                         /\ call.op = "load" /\ call.asked = {unit} /\ call.rev = svc.rev
                         /\ call.graph = Upsert(svc.units, unit)
    <3> DEFINE new == [op |-> "load", asked |-> {unit}, graph |-> Upsert(svc.units, unit),
                       rev |-> svc.rev, gen |-> 0, strict |-> strict]
    <3>1. calls' = [calls EXCEPT ![c] = new]
      BY <2>1, Zenon DEF CallLoad
    <3>2. /\ new.op = "load" /\ new.asked = {unit} /\ new.rev = svc.rev
          /\ new.graph = Upsert(svc.units, unit)
      OBVIOUS
    <3> HIDE DEF new
    <3> QED BY <3>1, <3>2
  <2>2. ASSUME NEW method \in Methods, CallCell(c, method)
        PROVE  \E call : /\ calls' = [calls EXCEPT ![c] = call]
                         /\ call.op = "cell" /\ call.asked = {method} /\ call.rev = pub.rev
                         /\ call.graph = pub.methods \cup {method}
    <3> DEFINE new == [op |-> "cell", asked |-> {method}, graph |-> pub.methods \cup {method},
                       rev |-> pub.rev, gen |-> 0, strict |-> TRUE]
    <3>1. calls' = [calls EXCEPT ![c] = new]
      BY <2>2, Zenon DEF CallCell
    <3>2. /\ new.op = "cell" /\ new.asked = {method} /\ new.rev = pub.rev
          /\ new.graph = pub.methods \cup {method}
      OBVIOUS
    <3> HIDE DEF new
    <3> QED BY <3>1, <3>2
  <2>3. ASSUME CallRelease(c)
        PROVE  \E call : calls' = [calls EXCEPT ![c] = call] /\ call.op = "release"
    <3> DEFINE new == [op |-> "release", asked |-> {}, graph |-> {},
                       rev |-> svc.rev, gen |-> svc.owned, strict |-> TRUE]
    <3>1. calls' = [calls EXCEPT ![c] = new]
      BY <2>3, Zenon DEF CallRelease
    <3>2. new.op = "release"
      OBVIOUS
    <3> HIDE DEF new
    <3> QED BY <3>1, <3>2
  <2> QED BY <2>1, <2>2, <2>3
<1>3. ASSUME NEW x \in Callers PROVE Prepared(x)'
  <2>1. CASE x # c
    BY <1>0, <1>2, <2>1 DEF Composes, Prepared
  <2>2. CASE x = c
    <3>1. calls'[c] = call
      BY <1>0, <1>2
    <3> QED BY <1>0, <1>2, <2>2, <3>1 DEF Prepared
  <2> QED BY <2>1, <2>2
<1> QED BY <1>1, <1>3 DEF Composes

\* A promotion begins from a current call.
LEMMA BeginComposes ==
    ASSUME Composes, Ledger, Control, NEW c \in Callers, BeginPromotion(c) PROVE Composes'
<1>0. /\ plan.step = "idle" /\ Current(calls[c]) /\ calls[c].op \in {"load", "cell"}
      /\ plan'.op = calls[c].op /\ plan'.who = c /\ plan'.step = "stage"
      /\ host.state # "broken" /\ host'.pending = host.next /\ host'.next = host.next + 1
      /\ host'.active = host.active
      /\ host'.regs = [host.regs EXCEPT ![host.next] = CandidateRegs(calls[c])]
      /\ host.next \in Gens /\ UNCHANGED <<pub, svc, calls, seen>>
  BY BeginStep
<1>1. host.next \in Nat /\ pub.gen \in Nat /\ host.regs \in [Gens -> SUBSET Regs]
      /\ pub.gen \in Gens \cup {0}
  BY <1>0, MaxGenAssumption DEF Ledger, HostType, Control, RestTyped, PubType, Gens
<1>2. Inventory'
  <2>1. pub.gen # host.next /\ pub.gen < host.next + 1
    BY <1>1 DEF Composes, Inventory
  <2>2. pub.gen # 0 => host'.regs[pub.gen] = host.regs[pub.gen]
    BY <1>0, <1>1, <2>1
  <2> QED BY <1>0, <2>1, <2>2 DEF Composes, Inventory
<1>3. PromotesCall'
  <2>1. host'.regs[host.next] = CandidateRegs(calls[c])
    BY <1>0, <1>1
  <2>2. Candidate' = host.next
    BY <1>0 DEF Candidate
  <2>3. CandidateRegs(calls[c])' = CandidateRegs(calls[c])
    BY <1>0 DEF CandidateRegs
  <2>4. /\ calls[c].op = "load" => calls[c].rev = svc.rev
        /\ calls[c].op = "cell" => calls[c].rev = pub.rev
    BY <1>0 DEF Current
  <2> QED BY <1>0, <2>1, <2>2, <2>3, <2>4 DEF PromotesCall
<1>4. \A x \in Callers : Prepared(x)'
  BY <1>0 DEF Composes, Prepared
<1> QED BY <1>2, <1>3, <1>4 DEF Composes

\* A publication acknowledges what its call asked for.
LEMMA PublishComposes ==
    ASSUME Composes, Ledger, Control, At("own"), Publish, host'.next = host.next,
           host'.regs = host.regs, host'.active = host.active
    PROVE  Composes'
<1> DEFINE call == calls[plan.who]
<1>0. /\ call \in CallType /\ plan.op \in {"load", "cell"} /\ call.op = plan.op
      /\ plan.who \in Callers /\ host.state = "ready" /\ plan.step = "own"
      /\ svc.rev \in Nat /\ pub.rev \in Nat /\ seen \in SeenType
      /\ calls \in [Callers -> CallType] /\ \A c \in Callers : calls[c].rev \in Nat
      /\ \A c \in Callers : calls[c].op = "cell" => calls[c].asked \subseteq Methods
  BY DEF Control, RestTyped, CallsTyped, PlanStands, At, PlanType, SvcType, PubType, CallType
<1>1. host.active \in Gens /\ host.active < host.next
  BY <1>0 DEF Ledger, Shape, HostType
<1>2. host.regs[host.active] = CandidateRegs(call)
  BY <1>0 DEF Composes, PromotesCall, Candidate
<1>3. /\ pub'.gen = host.active /\ pub'.rev = pub.rev + 1
      /\ pub'.base = (IF call.op = "load" THEN call.graph ELSE pub.base)
      /\ pub'.methods = (IF call.op = "load" THEN pub.methods ELSE call.graph)
      /\ call.op = "load" => svc'.units = call.graph /\ svc'.rev = svc.rev + 1
      /\ call.op # "load" => svc' = svc
      /\ seen'.acked = {a \in seen.acked : \A u \in call.asked \cap Units :
                          a \in Units => a.module # u.module} \cup call.asked
      /\ plan'.op = "none" /\ plan'.step = "idle"
  BY <1>0 DEF Publish, NoPlan, SeenType
<1>4. calls' = [calls EXCEPT ![plan.who] = NoCall] \/ calls' = [c \in Callers |-> NoCall]
  BY DEF Publish
<1>5. Inventory'
  <2>1. CASE call.op = "load"
    <3>1. PICK u \in Units : call.asked = {u} /\ call.graph = Upsert(svc.units, u)
      BY <1>0, <2>1 DEF Composes, PromotesCall, Prepared
    <3>2. seen'.acked = {a \in seen.acked : a \in Units => a.module # u.module} \cup {u}
      BY <1>3, <3>1
    <3>3. svc'.units = seen'.acked \cap Units
      BY <1>3, <2>1, <3>1, <3>2 DEF Composes, Inventory, Upsert
    <3>4. pub'.methods = seen'.acked \cap Methods
      BY <1>3, <2>1, <3>2, MethodAssumption DEF Composes, Inventory
    <3>5. host.regs[host.active] = pub'.base \cup NotebookModule(pub'.methods)
      BY <1>2, <1>3, <2>1 DEF CandidateRegs
    <3> QED BY <1>1, <1>3, <2>1, <3>3, <3>4, <3>5 DEF Inventory
  <2>2. CASE call.op = "cell"
    <3>1. PICK m \in Methods : call.asked = {m} /\ call.graph = pub.methods \cup {m}
      BY <1>0, <2>2 DEF Composes, PromotesCall, Prepared
    <3>2. seen'.acked = seen.acked \cup {m}
      BY <1>3, <3>1, MethodAssumption
    <3>3. svc'.units = seen'.acked \cap Units /\ pub'.methods = seen'.acked \cap Methods
      BY <1>3, <2>2, <3>1, <3>2, MethodAssumption DEF Composes, Inventory
    <3>4. pub'.base = svc'.units
      BY <1>3, <2>2 DEF Composes, Inventory
    <3>5. host.regs[host.active] = pub'.base \cup NotebookModule(pub'.methods)
      BY <1>2, <1>3, <2>2 DEF CandidateRegs
    <3> QED BY <1>1, <1>3, <3>3, <3>4, <3>5 DEF Inventory
  <2> QED BY <1>0, <2>1, <2>2
<1>6. PromotesCall'
  BY <1>3 DEF PromotesCall
<1>7. ASSUME NEW c \in Callers PROVE Prepared(c)'
  <2>1. calls'[c] = calls[c] \/ calls'[c].op = "none"
    BY <1>0, <1>4 DEF NoCall
  <2>2. CASE calls'[c].op = "none"
    BY <2>2 DEF Prepared
  <2>3. CASE calls'[c] = calls[c] /\ calls[c].op = "load"
    <3>1. PICK u \in Units : /\ calls[c].asked = {u} /\ calls[c].rev <= svc.rev
                             /\ calls[c].rev = svc.rev => calls[c].graph = Upsert(svc.units, u)
      BY <2>3 DEF Composes, Prepared
    <3>2. /\ calls[c].rev <= svc'.rev
          /\ calls[c].rev = svc'.rev => calls[c].graph = Upsert(svc'.units, u)
      BY <1>0, <1>3, <3>1
    <3> QED BY <2>3, <3>1, <3>2 DEF Prepared
  <2>4. CASE calls'[c] = calls[c] /\ calls[c].op = "cell"
    <3>1. PICK m \in Methods : calls[c].asked = {m} /\ calls[c].rev <= pub.rev
      BY <2>4 DEF Composes, Prepared
    <3>2. calls[c].rev <= pub'.rev /\ calls[c].rev # pub'.rev
      BY <1>0, <1>3, <3>1
    <3> QED BY <2>4, <3>1, <3>2 DEF Prepared
  <2>5. CASE calls'[c] = calls[c] /\ calls[c].op \notin {"load", "cell"}
    BY <2>5 DEF Prepared
  <2> QED BY <2>1, <2>2, <2>3, <2>4, <2>5
<1> QED BY <1>5, <1>6, <1>7 DEF Composes

\* A promotion over an unknown workspace: the candidate is retained as unknown.
LEMMA BrokenComposes ==
    ASSUME Composes, Ledger, Control, NEW c \in Callers, PromotionOverUnknown(c) PROVE Composes'
<1>0. /\ host'.state = "broken" /\ host'.next = host.next + 1
      /\ host'.regs = [host.regs EXCEPT ![host.next] = CandidateRegs(calls[c])]
      /\ plan' = NoPlan /\ calls' = [calls EXCEPT ![c] = NoCall] /\ UNCHANGED <<pub, svc, seen>>
  BY BeginBroken
<1>1. /\ host.next \in Nat /\ pub.gen \in Nat /\ host.regs \in [Gens -> SUBSET Regs]
      /\ pub.gen \in Gens \cup {0} /\ calls \in [Callers -> CallType]
      /\ NoPlan.op = "none" /\ NoCall.op = "none"
  BY MaxGenAssumption DEF Ledger, HostType, Control, RestTyped, CallsTyped, PubType, Gens, NoPlan,
     NoCall
<1>2. Inventory'
  <2>1. pub.gen # host.next /\ pub.gen < host.next + 1
    BY <1>1 DEF Composes, Inventory
  <2>2. pub.gen # 0 => host'.regs[pub.gen] = host.regs[pub.gen]
    BY <1>0, <1>1, <2>1
  <2> QED BY <1>0, <2>1, <2>2 DEF Composes, Inventory
<1>3. PromotesCall'
  BY <1>0, <1>1 DEF PromotesCall
<1>4. ASSUME NEW x \in Callers PROVE Prepared(x)'
  BY <1>0, <1>1 DEF Composes, Prepared
<1> QED BY <1>2, <1>3, <1>4 DEF Composes

LEMMA StepKeepsComposes == ASSUME Ledger, Control, Ledger', Control', Composes, Next PROVE Composes'
<1>0. /\ plan.op = "none" <=> plan.step = "idle"
      /\ plan \in PlanType /\ NoPlan.op = "none" /\ NoPlan.step = "idle"
      /\ svc \in SvcType /\ plan.who \in Callers \cup {""}
      /\ host.state # "broken" \/ host.state = "broken"
  BY DEF Control, PlanStands, RestTyped, NoPlan, PlanType
<1>1. ASSUME NEW c \in Callers,
             \/ \E unit \in Units, strict \in BOOLEAN : CallLoad(c, unit, strict)
             \/ \E method \in Methods : CallCell(c, method)
             \/ CallRelease(c)
      PROVE  Composes'
  BY <1>1, CallComposes
<1>2. ASSUME NEW c \in Callers, Rejected(c) \/ ReleaseOverUnknown(c) PROVE Composes'
  <2>1. /\ plan.op = "none" /\ plan' = NoPlan /\ calls' = [calls EXCEPT ![c] = NoCall]
        /\ UNCHANGED <<host, pub, svc, seen>>
    BY <1>2, AnsweredSteps
  <2> QED BY <1>0, <2>1, ComposesRests
<1>3. ASSUME NEW c \in Callers, BeginPromotion(c) PROVE Composes'
  BY <1>3, BeginComposes
<1>4. ASSUME NEW c \in Callers, PromotionOverUnknown(c) PROVE Composes'
  BY <1>4, BrokenComposes
<1>5. ASSUME NEW c \in Callers, ReleaseGeneration(c) PROVE Composes'
  <2>1. /\ plan.op = "none" /\ plan' = NoPlan /\ calls' = [calls EXCEPT ![c] = NoCall]
        /\ host'.active = host.active /\ host'.state = host.state /\ host'.next = host.next
        /\ host'.regs = host.regs /\ svc' = [svc EXCEPT !.owned = 0, !.rev = @ + 1]
        /\ UNCHANGED <<pub, seen>>
    BY <1>5, ReleaseStep
  <2>2. svc'.units = svc.units /\ svc'.rev = svc.rev + 1
    BY <1>0, <2>1 DEF SvcType
  <2> QED BY <1>0, <2>1, <2>2, ComposesRests
<1>6. ASSUME StageFails \/ RootFails \/ DiscardRoot PROVE Composes'
  <2>1. /\ Steady /\ host.state = "preparing" /\ plan.step \in {"stage", "root", "discard"}
        /\ plan' = NoPlan /\ calls' = [calls EXCEPT ![plan.who] = NoCall]
        /\ UNCHANGED <<pub, svc, seen>>
    BY <1>6, DiscardSteps
  <2> QED BY <1>0, <2>1, ComposesRests DEF Steady
<1>7. ASSUME OwnershipRefused \/ LoseReply PROVE Composes'
  <2>1. /\ Steady /\ host'.state = "broken" /\ seen'.acked = seen.acked
        /\ plan' = NoPlan /\ calls' = [calls EXCEPT ![plan.who] = NoCall]
        /\ UNCHANGED <<pub, svc>>
    BY <1>7, BreakSteps
  <2> QED BY <1>0, <2>1, ComposesRests DEF Steady
<1>8. ASSUME Stage \/ PrepareRoot \/ Conflict \/ InstallSlots \/ SwapFails \/ RestoreSlots
      PROVE  Composes'
  <2>1. UNCHANGED <<host, pub, svc, calls, seen>>
    BY <1>8, Zenon DEF Stage, PrepareRoot, Conflict, InstallSlots, SwapFails, RestoreSlots
  <2>2. plan.op # "none" /\ plan.step \in {"stage", "root", "slots", "swap", "restore"}
    BY <1>8 DEF Stage, PrepareRoot, Conflict, InstallSlots, SwapFails, RestoreSlots, At
  <2>3. /\ plan'.op = plan.op /\ plan'.who = plan.who
        /\ plan'.step \in {"root", "slots", "swap", "restore", "discard"}
    BY <1>0, <1>8 DEF Stage, PrepareRoot, Conflict, InstallSlots, SwapFails, RestoreSlots, GoTo,
       PlanType
  <2>4. Candidate' = Candidate
    BY <2>1, <2>2, <2>3 DEF Candidate
  <2> QED BY <2>1, <2>2, <2>3, <2>4, ComposesRests
<1>9. ASSUME Swap PROVE Composes'
  <2>1. /\ plan.step = "swap" /\ plan.op # "none" /\ host.state = "preparing"
        /\ host'.active = host.pending /\ host'.next = host.next /\ host'.regs = host.regs
        /\ plan' = [plan EXCEPT !.step = "own"] /\ UNCHANGED <<pub, svc, calls, seen>>
    BY <1>9, SwapStep
  <2>2. plan'.op = plan.op /\ plan'.who = plan.who /\ plan'.step = "own"
    BY <1>0, <2>1 DEF PlanType
  <2>3. Candidate' = Candidate
    BY <2>1, <2>2 DEF Candidate
  <2> QED BY <2>1, <2>2, <2>3, ComposesRests
<1>10. ASSUME PublishFirst PROVE Composes'
  <2>1. At("own") /\ Publish /\ host' = host
    BY <1>10 DEF PublishFirst
  <2> QED BY <2>1, PublishComposes
<1>11. ASSUME PublishNext PROVE Composes'
  <2>1. host'.next = host.next /\ host'.regs = host.regs /\ host'.active = host.active
    BY <1>11, PublishNextStep
  <2>2. At("own") /\ Publish
    BY <1>11 DEF PublishNext
  <2> QED BY <2>1, <2>2, PublishComposes
<1>12. ASSUME NEW o \in Owners, CleanUp(o) PROVE Composes'
  <2>1. /\ host'.state = host.state /\ host'.active = host.active /\ plan.op = "none"
        /\ host'.next = host.next /\ host'.regs = host.regs
        /\ UNCHANGED <<pub, svc, plan, calls, seen>>
    BY <1>12, CleanUpStep
  <2> QED BY <2>1, ComposesRests
<1>13. ASSUME \/ \E o \in Owners : CleanUpLost(o)
              \/ \E r \in Marks : AddMark(r) \/ RemoveMark(r)
       PROVE  Composes'
  <2>1. plan.op = "none" /\ UNCHANGED <<host, pub, svc, plan, calls>>
    BY <1>13, Zenon DEF CleanUpLost, AddMark, RemoveMark, InstallLost, SetMarks, Idle
  <2>2. seen'.acked = seen.acked
    <3>1. seen' = seen \/ seen' = [seen EXCEPT !.lost = TRUE]
      BY <1>13, Zenon DEF CleanUpLost, AddMark, RemoveMark, InstallLost, SetMarks
    <3> QED BY <3>1 DEF Control, RestTyped, SeenType
  <2> QED BY <2>1, <2>2, ComposesRests
<1>14. ASSUME MainStarts \/ CaptureCell PROVE Composes'
  <2>1. /\ host'.state = host.state /\ host'.active = host.active /\ plan.op = "none"
        /\ host'.next = host.next /\ host'.regs = host.regs
        /\ calls' \in {calls, [c \in Callers |-> NoCall]} /\ UNCHANGED <<pub, svc, plan, seen>>
    BY <1>14, PinSteps
  <2> QED BY <2>1, ComposesRests
<1>15. ASSUME MainStops \/ MainResumes \/ MainEnds \/ MainLost PROVE Composes'
  <2>1. /\ Steady /\ host'.state \in {host.state, "broken"} /\ plan.op = "none"
        /\ calls' \in {calls, [c \in Callers |-> NoCall]} /\ seen'.acked = seen.acked
        /\ UNCHANGED <<pub, svc, plan>>
    BY <1>15, MainSteps
  <2> QED BY <2>1, ComposesRests DEF Steady
<1> QED
  BY <1>1, <1>2, <1>3, <1>4, <1>5, <1>6, <1>7, <1>8, <1>9, <1>10, <1>11, <1>12, <1>13, <1>14,
     <1>15, Zenon DEF Next

LEMMA ComposesInvariant == Spec => []Composes
<1>1. ASSUME Init PROVE Composes
  <2>1. /\ svc.units = {} /\ seen.acked = {} /\ pub.methods = {} /\ pub.base = {} /\ pub.gen = 0
        /\ host.next = 1 /\ host.active = 0
    BY <1>1 DEF Init
  <2>2. plan.op = "none" /\ \A c \in Callers : calls[c].op = "none"
    BY <1>1 DEF Init, NoPlan, NoCall
  <2> QED BY <2>1, <2>2 DEF Composes, Inventory, PromotesCall, Prepared
<1>2. Ledger /\ Control /\ Ledger' /\ Control' /\ Composes /\ [Next]_vars => Composes'
  <2>1. ASSUME UNCHANGED vars, Composes PROVE Composes'
    BY <2>1 DEF vars, Composes, Inventory, PromotesCall, Prepared, Candidate, CandidateRegs
  <2> QED BY <2>1, StepKeepsComposes
<1> QED BY <1>1, <1>2, ControlInvariant, PTL DEF Spec

\* No acknowledged load or cell is lost and the published generation is the active one when
\* no promotion is under way, for any number of clients, units, methods and generations:
\* what a call was prepared from is still current when its candidate is published.
THEOREM LoadsAreKept == Spec => []LoadsCompose
<1>1. Control /\ Composes => LoadsCompose
  BY DEF Control, PlanStands, Composes, Inventory, LoadsCompose, Quiet
<1> QED BY <1>1, ControlInvariant, ComposesInvariant, PTL

-----------------------------------------------------------------------------
(* The debugger's slots.                                                   *)

Settled ==
    /\ spots.views = host.records
    /\ spots.slots = SlotsOf(host, spots.marks, host.records)

\* The slots at every step of a promotion: those of the records before the slots are
\* installed and once they are restored, those of the kept marks until the swap, and those
\* of every view until the predecessor is given up.
SlotsInv ==
    ~spots.unknown /\ host.state # "broken" =>
        /\ remote.slots = spots.slots
        /\ plan.step \in {"idle", "stage", "root", "slots", "discard"} => Settled
        /\ plan.step \in {"stage", "root", "slots"} =>
              plan.before = spots.slots /\ plan.marks = spots.marks
        /\ plan.step \in {"swap", "restore"} =>
              /\ spots.views = host.records /\ spots.slots = PromotedSlots
              /\ plan.before = SlotsOf(host, spots.marks, host.records)
              /\ plan.marks = KeptMarks
        /\ plan.step = "own" =>
              /\ spots.slots = SlotsOf(host, spots.marks, spots.views)
              /\ plan.marks = spots.marks
              /\ pub.gen = 0 => spots.views = host.records

\* Slots depend on the registrations of the generations they are of.
LEMMA SameSlots ==
    ASSUME NEW h, NEW k, NEW marks, NEW gens, \A g \in gens : h.regs[g] = k.regs[g]
    PROVE  SlotsOf(h, marks, gens) = SlotsOf(k, marks, gens)
BY DEF SlotsOf

\* A step that leaves the workspace alone and the records with what they hold.
LEMMA SettledRests ==
    ASSUME SlotsInv, UNCHANGED spots, remote'.slots = remote.slots,
           host'.state # "broken" => host.state # "broken",
           host'.records = host.records, \A g \in host.records : host'.regs[g] = host.regs[g],
           plan.step \in {"idle", "stage", "root", "slots", "discard"},
           plan'.step \in {"idle", "stage", "root", "slots", "discard"},
           plan'.step \in {"stage", "root", "slots"} =>
               \/ plan'.before = spots.slots /\ plan'.marks = spots.marks
               \/ /\ plan.step \in {"stage", "root", "slots"}
                  /\ plan'.before = plan.before /\ plan'.marks = plan.marks
    PROVE  SlotsInv'
<1> SUFFICES ASSUME ~spots'.unknown, host'.state # "broken" PROVE SlotsInv'
  BY DEF SlotsInv
<1>1. remote'.slots = spots'.slots
  BY DEF SlotsInv
<1>2. SlotsOf(host, spots.marks, host.records)' = SlotsOf(host, spots.marks, host.records)
  BY DEF SlotsOf
<1>3. Settled'
  BY <1>2 DEF SlotsInv, Settled
<1>4. plan'.step \in {"stage", "root", "slots"} =>
          plan'.before = spots'.slots /\ plan'.marks = spots'.marks
  BY DEF SlotsInv
<1> QED BY <1>1, <1>3, <1>4 DEF SlotsInv

LEMMA SlotsBreak == ASSUME spots'.unknown \/ host'.state = "broken" PROVE SlotsInv'
BY DEF SlotsInv

\* A workspace released to the records of the ledger.
LEMMA SettledAnew ==
    ASSUME spots' = [spots EXCEPT !.slots = SlotsFor(host'), !.views = host'.records],
           spots \in SpotsType, remote'.slots = SlotsFor(host'), plan'.step = "idle"
    PROVE  SlotsInv'
<1>1. spots'.slots = SlotsFor(host') /\ spots'.views = host'.records /\ spots'.marks = spots.marks
  BY DEF SpotsType
<1>2. SlotsOf(host, spots.marks, host.records)' = SlotsFor(host')
  BY <1>1 DEF SlotsFor, SlotsOf
<1>3. Settled'
  BY <1>1, <1>2 DEF Settled
<1> QED BY <1>1, <1>3 DEF SlotsInv

LEMMA InstallStep == ASSUME Control, SlotsInv, InstallSlots PROVE SlotsInv'
<1>0. /\ plan \in PlanType /\ spots \in SpotsType /\ remote \in RemoteType
      /\ plan.step = "slots" /\ UNCHANGED <<host, pub>>
      /\ remote' = [remote EXCEPT !.slots = PromotedSlots]
      /\ spots' = [spots EXCEPT !.slots = PromotedSlots]
      /\ plan' = [plan EXCEPT !.step = "swap", !.marks = KeptMarks]
  BY DEF Control, RestTyped, InstallSlots, At, Effect
<1>1. /\ remote'.slots = PromotedSlots /\ spots'.slots = PromotedSlots
      /\ spots'.views = spots.views /\ spots'.marks = spots.marks
      /\ spots'.unknown = spots.unknown
      /\ plan'.step = "swap" /\ plan'.marks = KeptMarks /\ plan'.before = plan.before
  BY <1>0 DEF PlanType, SpotsType, RemoteType
<1>2. KeptMarks' = KeptMarks /\ PromotedSlots' = PromotedSlots
  BY <1>0, <1>1 DEF KeptMarks, CandRegs, PromotedSlots, SlotsOf
<1>3. SlotsOf(host, spots.marks, host.records)' = SlotsOf(host, spots.marks, host.records)
  BY <1>0, <1>1 DEF SlotsOf
<1> QED BY <1>0, <1>1, <1>2, <1>3 DEF SlotsInv, Settled

LEMMA SwapSlots ==
    ASSUME Ledger, Control, Ledger', SlotsInv, Inventory, Swap PROVE SlotsInv'
<1>0. /\ plan.step = "swap" /\ host.state = "preparing" /\ host.pending # 0
      /\ host'.active = host.pending /\ host'.regs = host.regs
      /\ host'.records \subseteq host.records \cup {host.pending}
      /\ plan' = [plan EXCEPT !.step = "own"]
      /\ remote' = [remote EXCEPT !.root = host.pending, !.prepared = 0]
      /\ spots' = [spots EXCEPT !.views = @ \cup {host.pending}, !.marks = plan.marks,
                         !.removed = @ \cup (spots.marks \ plan.marks)]
      /\ UNCHANGED pub
      /\ plan \in PlanType /\ spots \in SpotsType /\ remote \in RemoteType
  BY SwapStep DEF Ledger, Shape, Control, RestTyped
<1>1. /\ remote'.slots = remote.slots /\ spots'.slots = spots.slots
      /\ spots'.views = spots.views \cup {host.pending} /\ spots'.marks = plan.marks
      /\ spots'.unknown = spots.unknown
      /\ plan'.step = "own" /\ plan'.marks = plan.marks
  BY <1>0 DEF PlanType, SpotsType, RemoteType
<1>2. SlotsOf(host, spots.marks, spots.views)' =
          SlotsOf(host, plan.marks, spots.views \cup {host.pending})
  BY <1>0, <1>1 DEF SlotsOf
<1>3. ASSUME pub.gen = 0, spots.views = host.records PROVE spots'.views = host'.records
  <2>1. host.records = {}
    BY <1>0, <1>3 DEF Inventory, Ledger, Shape
  <2>2. host.pending \in host'.records
    BY <1>0 DEF Ledger, Shape
  <2> QED BY <1>0, <1>1, <1>3, <2>1, <2>2
<1> QED BY <1>0, <1>1, <1>2, <1>3 DEF SlotsInv, PromotedSlots

LEMMA RestoreStep == ASSUME Control, SlotsInv, RestoreSlots PROVE SlotsInv'
<1>0. /\ plan \in PlanType /\ spots \in SpotsType /\ remote \in RemoteType
      /\ plan.step = "restore" /\ UNCHANGED <<host, pub>>
      /\ remote' = [remote EXCEPT !.slots = plan.before]
      /\ spots' = [spots EXCEPT !.slots = plan.before]
      /\ plan' = [plan EXCEPT !.step = "discard", !.marks = spots.marks]
  BY DEF Control, RestTyped, RestoreSlots, At, Effect
<1>1. /\ remote'.slots = plan.before /\ spots'.slots = plan.before
      /\ spots'.views = spots.views /\ spots'.marks = spots.marks
      /\ spots'.unknown = spots.unknown /\ plan'.step = "discard"
  BY <1>0 DEF PlanType, SpotsType, RemoteType
<1>2. SlotsOf(host, spots.marks, host.records)' = SlotsOf(host, spots.marks, host.records)
  BY <1>0, <1>1 DEF SlotsOf
<1> QED BY <1>0, <1>1, <1>2 DEF SlotsInv, Settled

\* A user changes the breakpoints.
LEMMA MarkStep ==
    ASSUME Control, SlotsInv, ~spots.unknown, plan.step = "idle", NEW marks, NEW removed,
           SetMarks(marks, removed)
    PROVE  SlotsInv'
<1>0. /\ spots \in SpotsType /\ remote \in RemoteType /\ UNCHANGED <<host, plan>>
      /\ spots' = [spots EXCEPT !.marks = marks, !.removed = removed, !.slots = Remarked(marks)]
      /\ remote' = [remote EXCEPT !.slots = Remarked(marks)]
  BY DEF Control, RestTyped, SetMarks
<1>1. /\ remote'.slots = Remarked(marks) /\ spots'.slots = Remarked(marks)
      /\ spots'.views = spots.views /\ spots'.marks = marks
  BY <1>0 DEF SpotsType, RemoteType
<1>2. SlotsOf(host, spots.marks, host.records)' = SlotsOf(host, marks, host.records)
  BY <1>0, <1>1 DEF SlotsOf
<1>3. host.state # "broken" => Settled'
  BY <1>0, <1>1, <1>2 DEF SlotsInv, Settled, Remarked
<1> QED BY <1>0, <1>1, <1>3 DEF SlotsInv

LEMMA StepKeepsSlots ==
    ASSUME Ledger, Control, Ledger', Control', Composes, SlotsInv, Next PROVE SlotsInv'
<1>0. /\ plan.op = "none" <=> plan.step = "idle"
      /\ plan \in PlanType /\ spots \in SpotsType /\ remote \in RemoteType
      /\ NoPlan.step = "idle" /\ Inventory
  BY DEF Control, PlanStands, RestTyped, NoPlan, Composes
<1>1. ASSUME NEW c \in Callers,
             \/ \E unit \in Units, strict \in BOOLEAN : CallLoad(c, unit, strict)
             \/ \E method \in Methods : CallCell(c, method)
             \/ CallRelease(c)
      PROVE  SlotsInv'
  <2>1. plan.op = "none" /\ UNCHANGED <<host, spots, plan, remote>>
    BY <1>1, CallSteps
  <2> QED BY <1>0, <2>1, SettledRests
<1>2. ASSUME NEW c \in Callers, Rejected(c) \/ ReleaseOverUnknown(c) PROVE SlotsInv'
  <2>1. plan.op = "none" /\ plan' = NoPlan /\ UNCHANGED <<host, spots, remote>>
    BY <1>2, AnsweredSteps
  <2> QED BY <1>0, <2>1, SettledRests
<1>3. ASSUME NEW c \in Callers, BeginPromotion(c) PROVE SlotsInv'
  <2>1. /\ plan.step = "idle" /\ host.state \in {"empty", "ready"}
        /\ plan' = [op |-> calls[c].op, who |-> c, step |-> "stage",
                    marks |-> spots.marks, before |-> spots.slots]
        /\ host'.records = host.records /\ host.next \in Gens
        /\ host'.regs = [host.regs EXCEPT ![host.next] = CandidateRegs(calls[c])]
        /\ UNCHANGED <<spots, remote>>
    BY <1>3, BeginStep
  <2>2. plan'.step = "stage" /\ plan'.before = spots.slots /\ plan'.marks = spots.marks
    BY <2>1
  <2>3. \A g \in host.records : g # host.next /\ g \in Gens
    BY <2>1 DEF Ledger, Shape, HostType, Gens
  <2>4. \A g \in host.records : host'.regs[g] = host.regs[g]
    BY <2>1, <2>3 DEF Ledger, HostType
  <2> QED BY <2>1, <2>2, <2>4, SettledRests
<1>4. ASSUME NEW c \in Callers, PromotionOverUnknown(c) PROVE SlotsInv'
  BY <1>4, BeginBroken, SlotsBreak
<1>5. ASSUME NEW c \in Callers, ReleaseGeneration(c) PROVE SlotsInv'
  <2>1. /\ pub.gen = calls[c].gen /\ plan.op = "none" /\ host.state # "broken"
        /\ host'.regs = host.regs
        /\ host'.records = {x \in host.records : \/ x = host.active
                                                 \/ x \in host.retained \ {calls[c].gen}
                                                 \/ x \in Pinned(host)}
        /\ spots' = [spots EXCEPT !.slots = SlotsFor(host'), !.views = host'.records]
        /\ plan' = NoPlan /\ remote' = remote
    BY <1>5, ReleaseStep
  <2>2. pub.gen = host.active
    BY <1>0, <2>1 DEF Inventory
  <2>3. host'.records = host.records
    BY <2>1, <2>2 DEF Ledger, Shape, Kept
  <2>4. SlotsFor(host') = SlotsOf(host, spots.marks, host.records)
    BY <2>1, <2>3 DEF SlotsFor, SlotsOf
  <2>5. ~spots.unknown
    BY <1>5 DEF ReleaseGeneration
  <2>6. remote.slots = SlotsFor(host')
    BY <1>0, <2>1, <2>4, <2>5 DEF SlotsInv, Settled
  <2> QED BY <1>0, <2>1, <2>6, SettledAnew
<1>6. ASSUME StageFails \/ RootFails \/ DiscardRoot PROVE SlotsInv'
  <2>1. /\ Steady /\ host.state = "preparing" /\ plan.step \in {"stage", "root", "discard"}
        /\ plan' = NoPlan /\ spots' = spots
    BY <1>6, DiscardSteps
  <2>2. remote'.slots = remote.slots
    BY <1>0, <1>6 DEF StageFails, RootFails, DiscardRoot, At, Effect, RemoteType
  <2> QED BY <1>0, <2>1, <2>2, SettledRests DEF Steady
<1>7. ASSUME OwnershipRefused \/ LoseReply PROVE SlotsInv'
  BY <1>7, BreakSteps, SlotsBreak
<1>8. ASSUME Stage \/ PrepareRoot \/ Conflict PROVE SlotsInv'
  <2>1. UNCHANGED <<host, spots>>
    BY <1>8, Zenon DEF Stage, PrepareRoot, Conflict
  <2>2. plan.step \in {"stage", "root", "slots"} /\ remote'.slots = remote.slots
    BY <1>0, <1>8 DEF Stage, PrepareRoot, Conflict, At, Effect, RemoteType
  <2>3. /\ plan'.marks = plan.marks /\ plan'.before = plan.before
        /\ plan'.step \in {"root", "slots", "discard"}
    BY <1>0, <1>8 DEF Stage, PrepareRoot, Conflict, GoTo, PlanType
  <2> QED BY <2>1, <2>2, <2>3, SettledRests
<1>9. ASSUME InstallSlots PROVE SlotsInv'
  BY <1>9, InstallStep
<1>10. ASSUME Swap PROVE SlotsInv'
  BY <1>0, <1>10, SwapSlots
<1>11. ASSUME SwapFails PROVE SlotsInv'
  <2>1. UNCHANGED <<host, spots, pub, remote>> /\ plan.step = "swap"
        /\ plan' = [plan EXCEPT !.step = "restore"]
    BY <1>11 DEF SwapFails, At, GoTo
  <2>2. /\ plan'.step = "restore" /\ plan'.marks = plan.marks /\ plan'.before = plan.before
    BY <1>0, <2>1 DEF PlanType
  <2>3. /\ PromotedSlots' = PromotedSlots /\ KeptMarks' = KeptMarks
        /\ SlotsOf(host, spots.marks, host.records)' = SlotsOf(host, spots.marks, host.records)
    BY <2>1 DEF PromotedSlots, KeptMarks, CandRegs, SlotsOf
  <2> QED BY <2>1, <2>2, <2>3 DEF SlotsInv
<1>12. ASSUME RestoreSlots PROVE SlotsInv'
  BY <1>12, RestoreStep
<1>13. ASSUME PublishFirst PROVE SlotsInv'
  <2>1. /\ host' = host /\ plan.step = "own" /\ pub.gen = 0 /\ plan' = NoPlan
        /\ UNCHANGED <<spots, remote>>
    BY <1>13, PublishFirstStep
  <2>2. SlotsOf(host, spots.marks, host.records)' = SlotsOf(host, spots.marks, host.records)
    BY <2>1 DEF SlotsOf
  <2> QED BY <1>0, <2>1, <2>2 DEF SlotsInv, Settled
<1>14. ASSUME PublishNext PROVE SlotsInv'
  <2>1. /\ spots' = [spots EXCEPT !.slots = SlotsFor(host'), !.views = host'.records]
        /\ remote' = [remote EXCEPT !.slots = SlotsFor(host')] /\ plan' = NoPlan
    BY <1>14, PublishNextStep
  <2>2. remote'.slots = SlotsFor(host')
    BY <1>0, <2>1 DEF RemoteType
  <2> QED BY <1>0, <2>1, <2>2, SettledAnew
<1>15. ASSUME NEW o \in Owners, CleanUp(o) PROVE SlotsInv'
  <2>1. /\ spots' = [spots EXCEPT !.slots = SlotsFor(host'), !.views = host'.records]
        /\ remote' = [remote EXCEPT !.slots = SlotsFor(host')] /\ plan.op = "none" /\ plan' = plan
    BY <1>15, CleanUpStep
  <2>2. remote'.slots = SlotsFor(host')
    BY <1>0, <2>1 DEF RemoteType
  <2> QED BY <1>0, <2>1, <2>2, SettledAnew
<1>16. ASSUME NEW slots, InstallLost(slots) PROVE SlotsInv'
  BY <1>0, <1>16, SlotsBreak DEF InstallLost, SpotsType
<1>17. ASSUME NEW o \in Owners, CleanUpLost(o) PROVE SlotsInv'
  BY <1>16, <1>17 DEF CleanUpLost
<1>18. ASSUME NEW r \in Marks, AddMark(r) \/ RemoveMark(r) PROVE SlotsInv'
  <2>1. plan.step = "idle" /\ ~spots.unknown
    BY <1>0, <1>18 DEF AddMark, RemoveMark, Idle
  <2>2. \/ \E marks, removed : SetMarks(marks, removed)
        \/ \E slots : InstallLost(slots)
    BY <1>18 DEF AddMark, RemoveMark
  <2> QED BY <1>16, <2>1, <2>2, MarkStep
<1>19. ASSUME MainStarts \/ CaptureCell PROVE SlotsInv'
  <2>1. /\ host'.state = host.state /\ plan.op = "none" /\ host'.regs = host.regs
        /\ host'.records = host.records /\ UNCHANGED <<spots, plan, remote>>
    BY <1>19, PinSteps
  <2> QED BY <1>0, <2>1, SettledRests
<1>20. ASSUME MainStops \/ MainResumes \/ MainEnds \/ MainLost PROVE SlotsInv'
  <2>1. /\ Steady /\ host'.state \in {host.state, "broken"} /\ plan.op = "none"
        /\ UNCHANGED <<spots, plan, remote>>
    BY <1>20, MainSteps
  <2> QED BY <1>0, <2>1, SettledRests DEF Steady
<1> QED
  BY <1>1, <1>2, <1>3, <1>4, <1>5, <1>6, <1>7, <1>8, <1>9, <1>10, <1>11, <1>12, <1>13, <1>14,
     <1>15, <1>17, <1>18, <1>19, <1>20, Zenon DEF Next

LEMMA SlotsInvariant == Spec => []SlotsInv
<1>1. ASSUME Init PROVE SlotsInv
  <2>1. /\ host.records = {} /\ spots.views = {} /\ spots.slots = {} /\ remote.slots = {}
        /\ plan.step = "idle"
    BY <1>1 DEF Init, NoPlan
  <2>2. SlotsOf(host, spots.marks, {}) = {}
    BY DEF SlotsOf
  <2> QED BY <2>1, <2>2 DEF SlotsInv, Settled
<1>2. Ledger /\ Control /\ Ledger' /\ Control' /\ Composes /\ SlotsInv /\ [Next]_vars => SlotsInv'
  <2>1. ASSUME UNCHANGED vars, SlotsInv PROVE SlotsInv'
    BY <2>1 DEF vars, SlotsInv, Settled, PromotedSlots, KeptMarks, CandRegs, SlotsOf
  <2> QED BY <2>1, StepKeepsSlots
<1> QED BY <1>1, <1>2, ControlInvariant, ComposesInvariant, PTL DEF Spec

\* The debugger holds exactly the slots of the logical breakpoints in the generations that
\* are live, between promotions; and in the middle of one no root runs before the
\* breakpoints kept for it are installed, for any number of generations and breakpoints.
THEOREM SlotsAreKept == Spec => []SlotsMatch
<1>1. Ledger /\ Control /\ Live /\ Agree /\ SlotsInv => SlotsMatch
  <2> SUFFICES ASSUME Ledger, Control, Live, Agree, SlotsInv PROVE SlotsMatch
    OBVIOUS
  <2>1. SlotsFollowGenerations
    BY DEF SlotsFollowGenerations, Quiet, Control, PlanStands, SlotsInv, Settled
  <2>2. SlotsBeforeRoot
    <3> SUFFICES ASSUME host.state # "broken", ~spots.unknown, remote.root # 0
                 PROVE  SlotsOf(host, IF plan.op = "none" THEN spots.marks
                                      ELSE spots.marks \cap plan.marks, {remote.root})
                            \subseteq remote.slots
      BY DEF SlotsBeforeRoot
    <3>1. remote.root \in host.records /\ host.records \subseteq spots.views
      BY DEF Agree, Ledger, Shape, Live
    <3>2. \A marks : SlotsOf(host, marks, {remote.root}) \subseteq SlotsOf(host, marks, spots.views)
      BY <3>1 DEF SlotsOf
    <3>3. remote.slots = spots.slots /\ plan.step \in Steps
      BY DEF SlotsInv, Control, RestTyped, PlanType
    <3>4. plan.op = "none" <=> plan.step = "idle"
      BY DEF Control, PlanStands
    <3>5. CASE plan.step \in {"idle", "stage", "root", "slots", "discard", "own"}
      <4>1. spots.slots = SlotsOf(host, spots.marks, spots.views)
        BY <3>5 DEF SlotsInv, Settled
      <4> QED BY <3>2, <3>3, <4>1 DEF SlotsOf
    <3>6. CASE plan.step \in {"swap", "restore"}
      <4>1. spots.slots = PromotedSlots /\ plan.marks = KeptMarks
        BY <3>6 DEF SlotsInv
      <4>2. SlotsOf(host, KeptMarks, spots.views) \subseteq PromotedSlots
        BY DEF SlotsOf, PromotedSlots
      <4>3. spots.marks \cap KeptMarks = KeptMarks
        BY DEF KeptMarks
      <4> QED BY <3>2, <3>3, <3>4, <3>6, <4>1, <4>2, <4>3
    <3> QED BY <3>3, <3>5, <3>6 DEF Steps
  <2> QED BY <2>1, <2>2 DEF SlotsMatch
<1> QED BY <1>1, ControlInvariant, LiveInvariant, SlotsInvariant, PTL

=============================================================================
