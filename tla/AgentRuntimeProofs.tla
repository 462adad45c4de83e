------------------------- MODULE AgentRuntimeProofs ------------------------
(***************************************************************************)
(* Proofs about AgentRuntime and the OperationRegistry in it, for all sets *)
(* of startups and runs and every value of the bounds: answers outlive the *)
(* process, dispatches are journalled, an abort covers its generation, and *)
(* there is one runtime, which somebody holds.                             *)
(***************************************************************************)
EXTENDS AgentRuntime, QueueLemmas, FiniteSetTheorems

USE DEF registryVars, serviceVars, processVars, targetVars

-----------------------------------------------------------------------------
(* Sequences.                                                              *)

In(x, q) == \E i \in 1 .. Len(q) : q[i] = x

LEMMA AppendIn ==
    ASSUME NEW S, NEW q \in Seq(S), NEW x \in S
    PROVE  /\ Append(q, x) \in Seq(S)
           /\ \A y : In(y, Append(q, x)) <=> (In(y, q) \/ y = x)
<1>1. /\ Append(q, x) \in Seq(S) /\ Len(Append(q, x)) = Len(q) + 1 /\ Len(q) \in Nat
      /\ \A i \in 1 .. Len(q) : Append(q, x)[i] = q[i]
      /\ Append(q, x)[Len(q) + 1] = x
  BY AppendProperties, LenProperties
<1> DEFINE a == Append(q, x)
<1> HIDE DEF a
<1>2. ASSUME NEW y, In(y, a) PROVE In(y, q) \/ y = x
  <2>1. PICK i \in 1 .. Len(q) + 1 : a[i] = y
    BY <1>1, <1>2 DEF In, a
  <2>2. CASE i = Len(q) + 1
    BY <1>1, <2>1, <2>2 DEF a
  <2>3. CASE i # Len(q) + 1
    <3>1. i \in 1 .. Len(q)
      BY <1>1, <2>3
    <3> QED BY <1>1, <2>1, <3>1 DEF In, a
  <2> QED BY <2>2, <2>3
<1>3. ASSUME NEW y, In(y, q) PROVE In(y, a)
  <2>1. PICK i \in 1 .. Len(q) : q[i] = y
    BY <1>3 DEF In
  <2>2. i \in 1 .. Len(a) /\ a[i] = y
    BY <1>1, <2>1 DEF a
  <2> QED BY <2>2 DEF In
<1>4. In(x, a)
  <2>1. Len(q) + 1 \in 1 .. Len(a) /\ a[Len(q) + 1] = x
    BY <1>1 DEF a
  <2> QED BY <2>1 DEF In
<1> QED BY <1>1, <1>2, <1>3, <1>4 DEF a

LEMMA TailIn ==
    ASSUME NEW S, NEW q \in Seq(S), q # <<>>
    PROVE  /\ Head(q) \in S /\ Tail(q) \in Seq(S) /\ In(Head(q), q)
           /\ \A y : In(y, Tail(q)) => In(y, q)
<1>1. /\ Len(q) \in Nat \ {0} /\ Head(q) = q[1] /\ Tail(q) \in Seq(S) /\ Head(q) \in S
      /\ Len(Tail(q)) = Len(q) - 1 /\ \A i \in 1 .. Len(q) - 1 : Tail(q)[i] = q[i + 1]
  BY HeadTailProperties, LenProperties, EmptySeq
<1>2. In(Head(q), q)
  BY <1>1 DEF In
<1>3. ASSUME NEW y, In(y, Tail(q)) PROVE In(y, q)
  <2>1. PICK i \in 1 .. Len(q) - 1 : q[i + 1] = y
    BY <1>1, <1>3 DEF In
  <2> QED BY <1>1, <2>1 DEF In
<1> QED BY <1>1, <1>2, <1>3

LEMMA EmptyIn == \A y : ~In(y, <<>>)
BY DEF In

\* What Among selects.
LEMMA AmongFacts ==
    ASSUME NEW T, NEW s \in Seq(T), NEW U
    PROVE  /\ Among(s, U) \in Seq(T \cap U)
           /\ \A y : In(y, Among(s, U)) <=> (In(y, s) /\ y \in U)
<1> DEFINE N == Len(s)
           step == [n \in 1 .. N |-> [q \in Seq(T \cap U) |->
                       IF s[n] \in U THEN Append(q, s[n]) ELSE q]]
           among == CHOOSE f : f = [n \in 0 .. N |->
                       IF n = 0 THEN <<>>
                       ELSE IF s[n] \in U THEN Append(f[n - 1], s[n]) ELSE f[n - 1]]
<1>1. N \in Nat /\ \A n \in 1 .. N : s[n] \in T
  BY LenProperties, ElementOfSeq
<1>2. <<>> \in Seq(T \cap U)
  OBVIOUS
<1>3. step \in StepFunctions(N, Seq(T \cap U))
  <2>1. ASSUME NEW n \in 1 .. N, NEW q \in Seq(T \cap U), s[n] \in U
        PROVE  Append(q, s[n]) \in Seq(T \cap U)
    BY <1>1, <2>1, AppendProperties
  <2> QED BY <2>1 DEF StepFunctions
<1>4. ASSUME NEW n \in 1 .. N, NEW q \in Seq(T \cap U)
      PROVE  step[n][q] = IF s[n] \in U THEN Append(q, s[n]) ELSE q
  OBVIOUS
<1> HIDE DEF N, step
<1>5. PICK f \in [0 .. N -> Seq(T \cap U)] :
          f[0] = <<>> /\ \A n \in 1 .. N : f[n] = step[n][f[n - 1]]
  <2>1. \E f : Iterates(f, N, Seq(T \cap U), <<>>, step)
    BY <1>1, <1>2, <1>3, Iterated
  <2> QED BY <2>1 DEF Iterates
<1>6. ASSUME NEW n \in 1 .. N
      PROVE  /\ f[n - 1] \in Seq(T \cap U)
             /\ f[n] = IF s[n] \in U THEN Append(f[n - 1], s[n]) ELSE f[n - 1]
  <2>1. n - 1 \in 0 .. N
    BY <1>1
  <2>2. f[n - 1] \in Seq(T \cap U)
    BY <2>1
  <2> QED BY <1>4, <1>5, <2>2
<1>7. f = [n \in 0 .. N |-> IF n = 0 THEN <<>>
                            ELSE IF s[n] \in U THEN Append(f[n - 1], s[n]) ELSE f[n - 1]]
  <2> DEFINE h == [n \in 0 .. N |-> IF n = 0 THEN <<>>
                     ELSE IF s[n] \in U THEN Append(f[n - 1], s[n]) ELSE f[n - 1]]
  <2>1. ASSUME NEW n \in 0 .. N PROVE f[n] = h[n]
    <3>1. CASE n = 0
      BY <1>5, <3>1
    <3>2. CASE n # 0
      <4>1. n \in 1 .. N
        BY <1>1, <3>2
      <4> QED BY <1>6, <3>2, <4>1
    <3> QED BY <3>1, <3>2
  <2>2. DOMAIN h = 0 .. N /\ h = [n \in DOMAIN h |-> h[n]]
    OBVIOUS
  <2>3. DOMAIN f = 0 .. N /\ f = [n \in DOMAIN f |-> f[n]]
    BY <1>5
  <2> HIDE DEF h
  <2>4. f = h
    BY <2>1, <2>2, <2>3
  <2> QED BY <2>4 DEF h
<1>8. /\ among[0] = <<>>
      /\ \A n \in 1 .. N : among[n] = IF s[n] \in U THEN Append(among[n - 1], s[n]) ELSE among[n - 1]
  <2>1. among = [n \in 0 .. N |-> IF n = 0 THEN <<>>
                     ELSE IF s[n] \in U THEN Append(among[n - 1], s[n]) ELSE among[n - 1]]
    BY <1>7
  <2> HIDE DEF among
  <2>2. 0 \in 0 .. N /\ \A n \in 1 .. N : n \in 0 .. N /\ n # 0
    BY <1>1
  <2> QED BY <2>1, <2>2
<1>9. Among(s, U) = among[N]
  BY DEF Among, N
<1> HIDE DEF among
<1> DEFINE Good == {n \in 0 .. N : /\ among[n] \in Seq(T \cap U)
                                   /\ \A y : In(y, among[n]) <=>
                                        (y \in U /\ \E i \in 1 .. n : s[i] = y)}
<1>10. 0 \in Good
  <2>1. among[0] \in Seq(T \cap U) /\ \A y : ~In(y, among[0])
    BY <1>2, <1>8, EmptyIn
  <2>2. \A y : ~ \E i \in 1 .. 0 : s[i] = y
    OBVIOUS
  <2>3. 0 \in 0 .. N
    BY <1>1
  <2> QED BY <2>1, <2>2, <2>3
<1>11. ASSUME NEW n \in 1 .. N, n - 1 \in Good PROVE n \in Good
  <2>1. /\ among[n - 1] \in Seq(T \cap U)
        /\ \A y : In(y, among[n - 1]) <=> (y \in U /\ \E i \in 1 .. n - 1 : s[i] = y)
    BY <1>11
  <2>2. \A y : (\E i \in 1 .. n : s[i] = y) <=> (y = s[n] \/ \E i \in 1 .. n - 1 : s[i] = y)
    <3>1. \A i : i \in 1 .. n <=> (i \in 1 .. n - 1 \/ i = n)
      BY <1>1
    <3> QED BY <3>1
  <2>3. n \in 0 .. N /\ s[n] \in T
    BY <1>1
  <2>4. CASE s[n] \in U
    <3>1. among[n] = Append(among[n - 1], s[n])
      BY <1>8, <2>4
    <3>2. /\ among[n] \in Seq(T \cap U)
          /\ \A y : In(y, among[n]) <=> (In(y, among[n - 1]) \/ y = s[n])
      BY <2>1, <2>3, <2>4, <3>1, AppendIn
    <3> QED BY <2>1, <2>2, <2>3, <2>4, <3>2
  <2>5. CASE s[n] \notin U
    <3>1. among[n] = among[n - 1]
      BY <1>8, <2>5
    <3> QED BY <2>1, <2>2, <2>3, <2>5, <3>1
  <2> QED BY <2>4, <2>5
<1>12. 0 .. N \subseteq Good
  <2> HIDE DEF Good
  <2> QED BY <1>1, <1>10, <1>11, InductionUpTo
<1>13. N \in Good
  <2> HIDE DEF Good
  <2> QED BY <1>1, <1>12
<1> QED BY <1>9, <1>13 DEF In, N

-----------------------------------------------------------------------------
(* The journal.                                                            *)

States == {"none"} \cup Live \cup Terminal
Started == {"running"} \cup Terminal
Events == {"submitted", "started", "provenance"} \cup Terminal
Records == [op : Ops, event : Events]

LEMMA FoldEventFacts ==
    ASSUME NEW state \in States, NEW event \in Events
    PROVE  /\ FoldEvent(state, event) \in States
           /\ FoldEvent(state, "submitted") = "queued"
           /\ FoldEvent(state, "provenance") = state
           /\ FoldEvent("queued", "started") = "running"
           /\ event \in Terminal /\ state # "none" => FoldEvent(state, event) = event
           /\ event \in Terminal => FoldEvent("none", event) = "none"
BY DEF FoldEvent, States, Events, Live, Terminal

Applied(records, n, o, state) ==
    IF records[n].op = o THEN FoldEvent(state, records[n].event) ELSE state

Follows(f, N, records, o) ==
    f[0] = "none" /\ \A n \in 1 .. N : f[n] = Applied(records, n, o, f[n - 1])

LEMMA ReplayIs ==
    ASSUME NEW records \in Seq(Records), NEW o
    PROVE  \E f : /\ f \in [0 .. Len(records) -> States] /\ Follows(f, Len(records), records, o)
                  /\ Replay(records, o) = f[Len(records)]
<1> DEFINE N == Len(records)
           step == [n \in 1 .. N |-> [state \in States |-> Applied(records, n, o, state)]]
           after == CHOOSE f : f = [n \in 0 .. N |->
                       IF n = 0 THEN "none"
                       ELSE IF records[n].op = o THEN FoldEvent(f[n - 1], records[n].event)
                       ELSE f[n - 1]]
<1>1. N \in Nat /\ \A n \in 1 .. N : records[n].op \in Ops /\ records[n].event \in Events
  <2>1. N \in Nat
    BY LenProperties
  <2>2. ASSUME NEW n \in 1 .. N PROVE records[n] \in Records
    BY ElementOfSeq
  <2> HIDE DEF N
  <2> QED BY <2>1, <2>2 DEF Records
<1>2. "none" \in States
  BY DEF States
<1>3. step \in StepFunctions(N, States)
  <2>1. ASSUME NEW n \in 1 .. N, NEW state \in States
        PROVE  Applied(records, n, o, state) \in States
    BY <1>1, FoldEventFacts DEF Applied
  <2> QED BY <2>1 DEF StepFunctions
<1>4. ASSUME NEW n \in 1 .. N, NEW state \in States
      PROVE  step[n][state] = Applied(records, n, o, state)
  OBVIOUS
<1> HIDE DEF N, step
<1>5. PICK f \in [0 .. N -> States] : f[0] = "none" /\ \A n \in 1 .. N : f[n] = step[n][f[n - 1]]
  <2>1. \E f : Iterates(f, N, States, "none", step)
    BY <1>1, <1>2, <1>3, Iterated
  <2> QED BY <2>1 DEF Iterates
<1>6. ASSUME NEW n \in 1 .. N PROVE f[n] = Applied(records, n, o, f[n - 1])
  <2>1. n - 1 \in 0 .. N
    BY <1>1
  <2>2. f[n - 1] \in States
    BY <2>1
  <2> QED BY <1>4, <1>5, <2>2
<1>7. f = [n \in 0 .. N |-> IF n = 0 THEN "none"
              ELSE IF records[n].op = o THEN FoldEvent(f[n - 1], records[n].event) ELSE f[n - 1]]
  <2> DEFINE h == [n \in 0 .. N |-> IF n = 0 THEN "none"
              ELSE IF records[n].op = o THEN FoldEvent(f[n - 1], records[n].event) ELSE f[n - 1]]
  <2>1. ASSUME NEW n \in 0 .. N PROVE f[n] = h[n]
    <3>1. CASE n = 0
      BY <1>5, <3>1
    <3>2. CASE n # 0
      <4>1. n \in 1 .. N
        BY <1>1, <3>2
      <4> QED BY <1>6, <3>2, <4>1 DEF Applied
    <3> QED BY <3>1, <3>2
  <2>2. DOMAIN h = 0 .. N /\ h = [n \in DOMAIN h |-> h[n]]
    OBVIOUS
  <2>3. DOMAIN f = 0 .. N /\ f = [n \in DOMAIN f |-> f[n]]
    BY <1>5
  <2> HIDE DEF h
  <2>4. f = h
    BY <2>1, <2>2, <2>3
  <2> QED BY <2>4 DEF h
<1>8. /\ after[0] = "none"
      /\ \A n \in 1 .. N : after[n] = Applied(records, n, o, after[n - 1])
  <2>1. after = [n \in 0 .. N |-> IF n = 0 THEN "none"
            ELSE IF records[n].op = o THEN FoldEvent(after[n - 1], records[n].event)
            ELSE after[n - 1]]
    BY <1>7
  <2> HIDE DEF after
  <2>2. 0 \in 0 .. N /\ \A n \in 1 .. N : n \in 0 .. N /\ n # 0
    BY <1>1
  <2> QED BY <2>1, <2>2 DEF Applied
<1>9. Replay(records, o) = after[N]
  BY DEF Replay, N
<1> HIDE DEF after
<1>10. \A n \in 0 .. N : f[n] = after[n]
  <2>1. AgreeUpTo(f, after, N)
    BY <1>5, <1>6, <1>8 DEF AgreeUpTo
  <2> QED BY <1>1, <2>1, IteratedOnce
<1>11. N \in 0 .. N
  BY <1>1
<1>12. Follows(f, N, records, o) /\ Replay(records, o) = f[N]
  BY <1>5, <1>6, <1>9, <1>10, <1>11 DEF Follows
<1> QED BY <1>5, <1>12 DEF N

\* What one more record makes of an operation.
LEMMA ReplayAppend ==
    ASSUME NEW records \in Seq(Records), NEW r \in Records, NEW o
    PROVE  /\ Replay(records, o) \in States
           /\ Append(records, r) \in Seq(Records)
           /\ Replay(Append(records, r), o) =
                  IF r.op = o THEN FoldEvent(Replay(records, o), r.event) ELSE Replay(records, o)
<1> DEFINE more == Append(records, r)
           N == Len(records)
<1>1. /\ more \in Seq(Records) /\ N \in Nat /\ Len(more) = N + 1 /\ more[N + 1] = r
      /\ \A n \in 1 .. N : more[n] = records[n]
  BY AppendProperties, LenProperties
<1>2. PICK f : /\ f \in [0 .. N -> States] /\ Follows(f, N, records, o) /\ Replay(records, o) = f[N]
  BY ReplayIs
<1> HIDE DEF more, N
<1>3. PICK g : Follows(g, N + 1, more, o) /\ Replay(more, o) = g[N + 1]
  BY <1>1, ReplayIs
<1>4. \A n \in 0 .. N : f[n] = g[n]
  <2>1. f[0] = g[0]
    BY <1>2, <1>3 DEF Follows
  <2>2. ASSUME NEW n \in 1 .. N, f[n - 1] = g[n - 1] PROVE f[n] = g[n]
    <3>1. n \in 1 .. N + 1 /\ more[n] = records[n]
      BY <1>1
    <3> QED BY <1>2, <1>3, <2>2, <3>1 DEF Follows, Applied
  <2>3. AgreeUpTo(f, g, N)
    BY <2>1, <2>2 DEF AgreeUpTo
  <2> QED BY <1>1, <2>3, IteratedOnce
<1>5. N \in 0 .. N /\ N + 1 \in 1 .. N + 1 /\ (N + 1) - 1 = N
  BY <1>1
<1>6. g[N + 1] = Applied(more, N + 1, o, g[N])
  BY <1>3, <1>5 DEF Follows
<1>7. Replay(more, o) = Applied(more, N + 1, o, Replay(records, o))
  BY <1>2, <1>3, <1>4, <1>5, <1>6
<1>8. Replay(records, o) \in States
  BY <1>2, <1>5
<1> QED BY <1>1, <1>7, <1>8 DEF Applied, more

LEMMA ReplayEmpty == \A o : Replay(<<>>, o) = "none"
<1> SUFFICES ASSUME NEW o PROVE Replay(<<>>, o) = "none"
  OBVIOUS
<1>1. <<>> \in Seq(Records) /\ Len(<<>>) = 0
  OBVIOUS
<1> DEFINE empty == <<>>
<1> HIDE DEF empty
<1>2. PICK f : Follows(f, Len(empty), empty, o) /\ Replay(empty, o) = f[Len(empty)]
  BY <1>1, ReplayIs DEF empty
<1>3. Replay(empty, o) = "none"
  BY <1>1, <1>2 DEF Follows, empty
<1> QED BY <1>3 DEF empty

LEMMA InSeq == ASSUME NEW S, NEW q \in Seq(S)
               PROVE  \A x : In(x, q) <=> \E i \in DOMAIN q : q[i] = x
BY LenProperties DEF In

LEMMA JournalledIs == ASSUME journal \in Seq(Records)
                      PROVE  \A o, e : Journalled(o, e) <=> In(Record(o, e), journal)
BY InSeq DEF Journalled

LEMMA SameRecord == \A o, e, p, f : Record(o, e) = Record(p, f) <=> o = p /\ e = f
BY DEF Record

LEMMA RecordType == ASSUME NEW o \in Ops, NEW e \in Events
                    PROVE  Record(o, e) \in Records /\ Record(o, e).op = o /\ Record(o, e).event = e
BY DEF Record, Records

\* The journal after one more record.
LEMMA OneRecord ==
    ASSUME journal \in Seq(Records), NEW o \in Ops, NEW e \in Events,
           journal' = Append(journal, Record(o, e))
    PROVE  /\ journal' \in Seq(Records)
           /\ OnDisk(o) \in States /\ OnDisk(o)' = FoldEvent(OnDisk(o), e)
           /\ \A p : p # o => OnDisk(p)' = OnDisk(p)
           /\ \A p, f : Journalled(p, f)' <=> (Journalled(p, f) \/ (p = o /\ f = e))
<1>1. Record(o, e) \in Records /\ Record(o, e).op = o /\ Record(o, e).event = e
  BY RecordType
<1>2. \A p : /\ OnDisk(p) \in States
             /\ OnDisk(p)' = IF p = o THEN FoldEvent(OnDisk(p), e) ELSE OnDisk(p)
  <2> SUFFICES ASSUME NEW p
               PROVE  /\ OnDisk(p) \in States
                      /\ OnDisk(p)' = IF p = o THEN FoldEvent(OnDisk(p), e) ELSE OnDisk(p)
    OBVIOUS
  <2>1. OnDisk(p) = Replay(journal, p) /\ OnDisk(p)' = Replay(journal', p)
    BY DEF OnDisk
  <2> QED BY <1>1, <2>1, ReplayAppend
<1>3. journal' \in Seq(Records)
  BY <1>1, ReplayAppend
<1>4. ASSUME NEW p, NEW f
      PROVE  Journalled(p, f)' <=> (Journalled(p, f) \/ (p = o /\ f = e))
  <2>1. Journalled(p, f) <=> In(Record(p, f), journal)
    BY JournalledIs
  <2>2. Journalled(p, f)' <=> In(Record(p, f), journal')
    BY <1>3, InSeq DEF Journalled
  <2>3. In(Record(p, f), journal') <=> (In(Record(p, f), journal) \/ Record(p, f) = Record(o, e))
    BY <1>1, AppendIn
  <2> QED BY <2>1, <2>2, <2>3, SameRecord
<1> QED BY <1>2, <1>3, <1>4

\* The journal after the two records of a submission that fails at once.
LEMMA TwoRecords ==
    ASSUME journal \in Seq(Records), NEW o \in Ops, OnDisk(o) = "none",
           journal' = journal \o <<Record(o, "submitted"), Record(o, "failed")>>
    PROVE  /\ journal' \in Seq(Records) /\ OnDisk(o)' = "failed"
           /\ \A p : p # o => OnDisk(p)' = OnDisk(p)
           /\ \A p, f : Journalled(p, f)' <=>
                  (Journalled(p, f) \/ (p = o /\ f \in {"submitted", "failed"}))
<1> DEFINE first == Record(o, "submitted")
           second == Record(o, "failed")
           middle == Append(journal, first)
<1>1. /\ first \in Records /\ first.op = o /\ first.event = "submitted"
      /\ second \in Records /\ second.op = o /\ second.event = "failed"
  BY RecordType DEF Events, Terminal
<1>2. journal' = Append(middle, second)
  BY <1>1
<1> HIDE DEF first, second
<1>3. middle \in Seq(Records) /\ journal' \in Seq(Records)
  <2>1. middle \in Seq(Records)
    BY <1>1, ReplayAppend
  <2> HIDE DEF middle
  <2> QED BY <1>1, <1>2, <2>1, ReplayAppend
<1>4. ASSUME NEW p
      PROVE  OnDisk(p)' = IF p = o THEN "failed" ELSE OnDisk(p)
  <2>1. OnDisk(p) = Replay(journal, p) /\ OnDisk(p)' = Replay(journal', p)
    BY DEF OnDisk
  <2>2. Replay(middle, p) = IF p = o THEN FoldEvent(Replay(journal, p), "submitted")
                            ELSE Replay(journal, p)
    BY <1>1, ReplayAppend
  <2> HIDE DEF middle
  <2>3. Replay(Append(middle, second), p) =
            IF p = o THEN FoldEvent(Replay(middle, p), "failed") ELSE Replay(middle, p)
    BY <1>1, <1>3, ReplayAppend
  <2>4. FoldEvent("none", "submitted") = "queued" /\ FoldEvent("queued", "failed") = "failed"
    <3>1. {"none", "queued"} \subseteq States /\ "failed" \in Events /\ "failed" \in Terminal
      BY DEF States, Live, Events, Terminal
    <3> QED BY <3>1, FoldEventFacts
  <2>5. p = o => Replay(journal, p) = "none"
    BY <2>1
  <2> QED BY <1>2, <2>1, <2>2, <2>3, <2>4, <2>5
<1>5. ASSUME NEW p, NEW f
      PROVE  Journalled(p, f)' <=> (Journalled(p, f) \/ (p = o /\ f \in {"submitted", "failed"}))
  <2>1. Journalled(p, f) <=> In(Record(p, f), journal)
    BY JournalledIs
  <2>2. Journalled(p, f)' <=> In(Record(p, f), journal')
    BY <1>3, InSeq DEF Journalled
  <2>3. In(Record(p, f), middle) <=> (In(Record(p, f), journal) \/ Record(p, f) = first)
    BY <1>1, AppendIn
  <2> HIDE DEF middle
  <2>4. In(Record(p, f), Append(middle, second)) <=>
            (In(Record(p, f), middle) \/ Record(p, f) = second)
    BY <1>1, <1>3, AppendIn
  <2>5. /\ Record(p, f) = first <=> (p = o /\ f = "submitted")
        /\ Record(p, f) = second <=> (p = o /\ f = "failed")
    BY SameRecord DEF first, second
  <2> QED BY <1>2, <2>1, <2>2, <2>3, <2>4, <2>5
<1>6. OnDisk(o)' = "failed" /\ \A p : p # o => OnDisk(p)' = OnDisk(p)
  BY <1>4
<1> QED BY <1>3, <1>5, <1>6

\* The journal after the abort of the first of these operations.
Unknowing(live, m) == [i \in 1 .. m |-> Record(live[i], "unknown")]
Marked(live, m) == {live[i] : i \in 1 .. m}

LEMMA UnknowingGrows ==
    ASSUME NEW records \in Seq(Records), NEW live \in Seq(Ops), NEW m \in 1 .. Len(live)
    PROVE  /\ Record(live[m], "unknown") \in Records
           /\ records \o Unknowing(live, m)
                = Append(records \o Unknowing(live, m - 1), Record(live[m], "unknown"))
<1>1. Len(live) \in Nat /\ m \in Nat /\ m - 1 \in Nat /\ \A i \in 1 .. Len(live) : live[i] \in Ops
  BY LenProperties, ElementOfSeq
<1>2. "unknown" \in Events
  BY DEF Events, Terminal
<1>3. \A i \in 1 .. Len(live) : Record(live[i], "unknown") \in Records
  BY <1>1, <1>2, RecordType
<1>4. ASSUME NEW n \in 0 .. m
      PROVE  /\ Unknowing(live, n) \in Seq(Records) /\ Len(Unknowing(live, n)) = n
             /\ \A i \in 1 .. n : Unknowing(live, n)[i] = Record(live[i], "unknown")
  <2>1. n \in Nat /\ \A i \in 1 .. n : i \in 1 .. Len(live)
    BY <1>1
  <2>2. Unknowing(live, n) \in [1 .. n -> Records]
    BY <1>3, <2>1 DEF Unknowing
  <2>3. Unknowing(live, n) \in Seq(Records)
    BY <2>1, <2>2, SeqDef
  <2>4. DOMAIN Unknowing(live, n) = 1 .. n
    BY DEF Unknowing
  <2>5. Len(Unknowing(live, n)) = n
    BY <2>1, <2>3, <2>4, LenProperties
  <2> QED BY <2>3, <2>5 DEF Unknowing
<1> DEFINE a == Unknowing(live, m)
           b == Unknowing(live, m - 1)
           r == Record(live[m], "unknown")
<1>5. /\ a \in Seq(Records) /\ Len(a) = m /\ r \in Records
      /\ b \in Seq(Records) /\ Len(b) = m - 1
      /\ \A i \in 1 .. m - 1 : a[i] = b[i]
      /\ a[m] = r
  <2>1. m \in 0 .. m /\ m - 1 \in 0 .. m
    BY <1>1
  <2>2. /\ a \in Seq(Records) /\ Len(a) = m
        /\ \A i \in 1 .. m : a[i] = Record(live[i], "unknown")
    BY <1>4, <2>1
  <2>3. /\ b \in Seq(Records) /\ Len(b) = m - 1
        /\ \A i \in 1 .. m - 1 : b[i] = Record(live[i], "unknown")
    BY <1>4, <2>1
  <2>4. r \in Records
    BY <1>3
  <2> HIDE DEF a, b
  <2>5. m \in 1 .. m /\ \A i \in 1 .. m - 1 : i \in 1 .. m
    BY <1>1
  <2> QED BY <2>2, <2>3, <2>4, <2>5
<1> HIDE DEF a, b, r
<1> DEFINE N == Len(records)
           s == records \o a
           t == records \o b
           u == Append(t, r)
<1>6. N \in Nat
  BY LenProperties
<1>7. /\ s \in Seq(Records) /\ Len(s) = N + m
      /\ \A i \in 1 .. N + m : s[i] = IF i <= N THEN records[i] ELSE a[i - N]
  BY <1>5, ConcatProperties
<1>8. /\ t \in Seq(Records) /\ Len(t) = N + (m - 1)
      /\ \A i \in 1 .. N + (m - 1) : t[i] = IF i <= N THEN records[i] ELSE b[i - N]
  <2>1. /\ t \in Seq(Records) /\ Len(t) = N + Len(b)
        /\ \A i \in 1 .. N + Len(b) : t[i] = IF i <= N THEN records[i] ELSE b[i - N]
    BY <1>5, ConcatProperties
  <2> HIDE DEF t, N
  <2> QED BY <1>5, <2>1
<1> HIDE DEF s, t
<1>9. /\ u \in Seq(Records) /\ Len(u) = N + m /\ u[N + m] = r
      /\ \A i \in 1 .. N + (m - 1) : u[i] = t[i]
  <2>1. (N + (m - 1)) + 1 = N + m
    BY <1>1, <1>6
  <2> QED BY <1>5, <1>8, <2>1, AppendProperties
<1> HIDE DEF u, N
<1>10. ASSUME NEW i \in 1 .. N + m PROVE s[i] = u[i]
  <2>1. CASE i = N + m
    <3>1. ~(i <= N) /\ i - N = m
      BY <1>1, <1>6, <2>1
    <3> QED BY <1>5, <1>7, <1>9, <2>1, <3>1
  <2>2. CASE i # N + m /\ i <= N
    <3>1. i \in 1 .. N + (m - 1)
      BY <1>1, <1>6, <2>2
    <3> QED BY <1>7, <1>8, <1>9, <2>2, <3>1
  <2>3. CASE i # N + m /\ ~(i <= N)
    <3>1. i \in 1 .. N + (m - 1) /\ i - N \in 1 .. m - 1
      BY <1>1, <1>6, <2>3
    <3> QED BY <1>5, <1>7, <1>8, <1>9, <2>3, <3>1
  <2> QED BY <2>1, <2>2, <2>3
<1>11. s = u
  BY <1>7, <1>9, <1>10, SeqEqual
<1> QED BY <1>5, <1>11 DEF s, t, u, a, b, r

LEMMA UnknowingRecords ==
    ASSUME NEW records \in Seq(Records), NEW live \in Seq(Ops), NEW n \in 0 .. Len(live)
    PROVE  /\ records \o Unknowing(live, n) \in Seq(Records)
           /\ \A o : /\ Replay(records, o) \in States
                     /\ Replay(records \o Unknowing(live, n), o) =
                          IF o \in Marked(live, n) /\ Replay(records, o) # "none"
                          THEN "unknown" ELSE Replay(records, o)
           /\ \A r : In(r, records \o Unknowing(live, n)) <=>
                        (In(r, records) \/ \E o \in Marked(live, n) : r = Record(o, "unknown"))
<1>0. /\ Len(live) \in Nat /\ \A i \in 1 .. Len(live) : live[i] \in Ops
      /\ "unknown" \in Events /\ "unknown" \in Terminal
  BY LenProperties, ElementOfSeq DEF Events, Terminal
<1> DEFINE J(m) == records \o Unknowing(live, m)
           Good == {m \in 0 .. n :
               /\ J(m) \in Seq(Records)
               /\ \A o : Replay(J(m), o) = IF o \in Marked(live, m) /\ Replay(records, o) # "none"
                                           THEN "unknown" ELSE Replay(records, o)
               /\ \A r : In(r, J(m)) <=>
                           (In(r, records) \/ \E o \in Marked(live, m) : r = Record(o, "unknown"))}
<1>1. \A o : Replay(records, o) \in States
  <2> SUFFICES ASSUME NEW o PROVE Replay(records, o) \in States
    OBVIOUS
  <2>2. PICK f : /\ f \in [0 .. Len(records) -> States] /\ Replay(records, o) = f[Len(records)]
    BY ReplayIs
  <2>3. Len(records) \in 0 .. Len(records)
    BY LenProperties
  <2> QED BY <2>2, <2>3
<1>2. 0 \in Good
  <2>1. Unknowing(live, 0) = <<>> /\ Marked(live, 0) = {}
    BY DEF Unknowing, Marked
  <2>2. J(0) = records
    BY <2>1, ConcatEmptySeq
  <2>3. 0 \in 0 .. n
    BY <1>0
  <2> HIDE DEF J
  <2> QED BY <2>1, <2>2, <2>3
<1>3. ASSUME NEW m \in 1 .. n, m - 1 \in Good PROVE m \in Good
  <2> DEFINE l == live[m]
             r == Record(l, "unknown")
  <2>1. m \in 1 .. Len(live) /\ l \in Ops /\ m \in 0 .. n /\ m - 1 \in 0 .. n
    BY <1>0
  <2>2. r \in Records /\ J(m) = Append(J(m - 1), r) /\ r.op = l /\ r.event = "unknown"
    BY <1>0, <2>1, UnknowingGrows, RecordType
  <2>3. Marked(live, m) = Marked(live, m - 1) \cup {l}
    <3>1. \A i : i \in 1 .. m <=> (i \in 1 .. m - 1 \/ i = m)
      BY <2>1
    <3> QED BY <3>1 DEF Marked
  <2>4. /\ J(m - 1) \in Seq(Records)
        /\ \A o : Replay(J(m - 1), o) = IF o \in Marked(live, m - 1) /\ Replay(records, o) # "none"
                                        THEN "unknown" ELSE Replay(records, o)
        /\ \A x : In(x, J(m - 1)) <=>
                    (In(x, records) \/ \E o \in Marked(live, m - 1) : x = Record(o, "unknown"))
    BY <1>3
  <2> HIDE DEF J
  <2>5. /\ J(m) \in Seq(Records)
        /\ \A o : Replay(J(m), o) = IF l = o THEN FoldEvent(Replay(J(m - 1), o), "unknown")
                                    ELSE Replay(J(m - 1), o)
    BY <2>2, <2>4, ReplayAppend
  <2>6. \A x : In(x, J(m)) <=> (In(x, J(m - 1)) \/ x = r)
    BY <2>2, <2>4, AppendIn
  <2>7. \A x : In(x, J(m)) <=>
                 (In(x, records) \/ \E o \in Marked(live, m) : x = Record(o, "unknown"))
    BY <2>3, <2>4, <2>6
  <2>8. ASSUME NEW o
        PROVE  Replay(J(m), o) = IF o \in Marked(live, m) /\ Replay(records, o) # "none"
                                 THEN "unknown" ELSE Replay(records, o)
    <3>1. CASE o # l
      BY <2>3, <2>4, <2>5, <3>1
    <3>2. CASE o = l /\ Replay(records, o) = "none"
      <4>1. Replay(J(m - 1), o) = "none"
        BY <2>4, <3>2
      <4>2. FoldEvent("none", "unknown") = "none"
        BY DEF FoldEvent, Terminal
      <4> QED BY <2>5, <3>2, <4>1, <4>2
    <3>3. CASE o = l /\ Replay(records, o) # "none"
      <4>1. Replay(J(m - 1), o) \in States /\ Replay(J(m - 1), o) # "none"
        BY <1>1, <2>4, <3>3 DEF States, Terminal
      <4>2. FoldEvent(Replay(J(m - 1), o), "unknown") = "unknown"
        BY <1>0, <4>1, FoldEventFacts
      <4> QED BY <2>3, <2>5, <3>3, <4>2
    <3> QED BY <3>1, <3>2, <3>3
  <2> QED BY <2>1, <2>5, <2>7, <2>8
<1>4. 0 .. n \subseteq Good
  <2> HIDE DEF Good
  <2>1. n \in Nat
    BY <1>0
  <2> QED BY <1>2, <1>3, <2>1, InductionUpTo
<1>5. n \in Good
  <2> HIDE DEF Good
  <2> QED BY <1>0, <1>4
<1> QED BY <1>1, <1>5

-----------------------------------------------------------------------------
(* The inductive invariant.                                                *)

Lanes == [op : Ops \cup {NoOp}, step : {"idle", "execute", "recorded", "publish", "settle"},
          backend : Backends \cup {0}, outcome : {"none"} \cup Terminal]
Services == [runtime : Backends \cup {0}, closing : BOOLEAN, request : Startups \cup {NoOp},
             orphan : Backends \cup {0}, pending : Backends \cup {0}, closed : BOOLEAN]

RegistryTyped ==
    /\ journal \in Seq(Records) /\ reg \in [Ops -> States]
    /\ order \in Seq(Ops) /\ queue \in Seq(Ops) /\ lane \in Lanes
    /\ told \in [Ops -> SUBSET Terminal] /\ refused \subseteq Ops

RuntimeTyped ==
    /\ svc \in Services /\ api \in Backends \cup {0} /\ owner \in Backends \cup {0}
    /\ of \in [Runs -> Backends \cup {0}]
    /\ process \in {"up", "recovering", "down"}
    /\ starter \in Seq(Startups \cup {NoOp}) /\ Len(starter) <= MaxBackend
    /\ alive \subseteq 1 .. Len(starter) /\ stray \subseteq 1 .. Len(starter)
    /\ dispatched \in [Runs -> Nat]

\* The memory shows what the journal holds, but for a submission that was refused.
Forgettable(state, o) == state = "queued" \/ (state = "unknown" /\ o \in Runs)

Remembers(o) ==
    /\ \/ reg[o] = OnDisk(o)
       \/ OnDisk(o) = "none" /\ o \in refused /\ Forgettable(reg[o], o)
    /\ reg[o] # "none" => In(o, order)

Remembered ==
    /\ \A o \in Ops : /\ OnDisk(o) # "none" <=> Journalled(o, "submitted")
                      /\ OnDisk(o) = "running" => Journalled(o, "started")
    /\ process # "down" => \A o \in Ops : Remembers(o)
    /\ process = "down" => \A o \in Ops : reg[o] = "none"
    /\ process = "recovering" => \A o \in Ops : reg[o] = OnDisk(o)
    /\ process # "up" => queue = <<>> /\ lane = IdleLane

\* What was shown is what the journal holds, which only an abandoned startup leaves.
Answered ==
    \A o \in Ops :
        /\ OnDisk(o) # "none" =>
               told[o] \subseteq {OnDisk(o)} \cup (IF o \in Startups /\ OnDisk(o) = "failed"
                                                  THEN {"unknown"} ELSE {})
        /\ OnDisk(o) = "none" /\ o \notin refused => told[o] = {}

\* What is queued was submitted, and what is in the lane was started.
InLane ==
    /\ lane.op = NoOp <=> lane.step = "idle"
    /\ \A o \in Ops : lane.op = o => OnDisk(o) \in Started
    /\ lane.step = "publish" => lane.op \in Startups
    /\ lane.step = "recorded" => lane.op \in Runs
    /\ lane.step = "settle" => lane.outcome \in Terminal
    /\ \A o \in Ops : In(o, queue) => OnDisk(o) # "none"

\* A run that is on its way to its dispatch was not dispatched.
Dispatching ==
    /\ \A o \in Runs : dispatched[o] > 0 =>
          /\ dispatched[o] = 1 /\ OnDisk(o) \in Started
          /\ Journalled(o, "started") /\ Journalled(o, "provenance")
    /\ \A o \in Runs : lane.op = o /\ lane.step \in {"execute", "recorded"} =>
          /\ dispatched[o] = 0 /\ Journalled(o, "started")
          /\ lane.step = "recorded" => Journalled(o, "provenance")

\* The startup that may still start a runtime is the one that API calls see and wait for.
Waiting(o) ==
    \/ In(o, queue) /\ reg[o] = "queued"
    \/ lane.op = o /\ lane.step \in {"execute", "publish"}

OneStartup ==
    process = "up" =>
        /\ \A o, p \in Startups : reg[o] \in Live /\ reg[p] \in Live => o = p
        /\ \A o \in Startups : Waiting(o) =>
              /\ svc.request = o /\ reg[o] \in Live
              /\ svc.runtime = 0 /\ svc.orphan = 0 /\ api = 0
        /\ lane.step = "publish" => lane.backend # 0

\* Who may hold a backend: at most one of them does, and the backend is alive.
Known == alive \ stray
Publishing == IF lane.step = "publish" THEN lane.backend ELSE 0

Exclusive ==
    /\ svc.runtime # 0 => svc.pending = 0 /\ svc.orphan = 0 /\ api = 0 /\ Publishing = 0
    /\ svc.pending # 0 => svc.orphan = 0 /\ api = 0 /\ Publishing = 0
    /\ svc.orphan # 0 => api = 0 /\ Publishing = 0
    /\ api # 0 => Publishing = 0

Held ==
    /\ {svc.runtime, svc.pending, svc.orphan, api, Publishing, owner} \subseteq Known \cup {0}
    /\ \A b, c \in Known : b = c
    /\ process = "up" => owner \in {0, svc.runtime, svc.orphan}
    /\ process = "recovering" => svc = [NewService EXCEPT !.orphan = owner] /\ api = 0
    /\ process = "down" => svc = NewService /\ api = 0
    /\ svc.orphan # 0 => svc.orphan = owner

\* Who answers for a backend that is not in the ownership file: a call or the service for
\* one that no startup started, and for another the startup, whose outcome is open.
Unheld == svc.runtime = 0 /\ svc.pending = 0 /\ svc.orphan = 0 /\ api = 0 /\ Publishing = 0

Accounts(o) ==
    /\ OnDisk(o) \in Live \cup {"unknown"}
    /\ lane.op = o /\ lane.step = "settle" => lane.outcome = "unknown"

Answerable(b) ==
    /\ starter[b] = NoOp => process = "up" /\ b \in {svc.runtime, svc.pending, api}
    /\ \A o \in Startups : starter[b] = o => Accounts(o)
    /\ process = "up" /\ Unheld => svc.request \in Unknowns

Handed == \A b \in Known \ {owner} : Answerable(b)

Registered == RegistryTyped /\ Remembered /\ InLane /\ Answered /\ Dispatching
Serving == RuntimeTyped /\ OneStartup /\ Exclusive /\ Held /\ Handed /\ AbortCoversGeneration
Inv == Registered /\ Serving

-----------------------------------------------------------------------------
(* What a step of a running process does to the record of an operation.    *)

Stays(o) == reg'[o] = reg[o] /\ OnDisk(o)' = OnDisk(o) /\ told'[o] = told[o]

Taken(o) ==
    /\ reg[o] = "queued" /\ OnDisk(o) = "queued" /\ reg'[o] = "running" /\ OnDisk(o)' = "running"
    /\ told'[o] = told[o] /\ Journalled(o, "started")'

Ends(o) ==
    /\ reg[o] = OnDisk(o) /\ reg'[o] \in Terminal /\ OnDisk(o)' = reg'[o]
    /\ told'[o] = told[o] \cup {reg'[o]}
    /\ reg[o] \in Live \/ (reg[o] = "unknown" /\ reg'[o] = "failed" /\ o \in Startups)

Enters(o) ==
    /\ reg[o] = "none" /\ OnDisk(o) = "none" /\ o \notin refused
    /\ \/ /\ reg'[o] = "queued" /\ told'[o] = told[o]
          /\ \/ OnDisk(o)' = "queued" /\ Journalled(o, "submitted")'
             \/ OnDisk(o)' = "none" /\ o \in refused'
       \/ /\ reg'[o] = "failed" /\ told'[o] = told[o] \cup {"failed"}
          /\ OnDisk(o)' = "failed" /\ Journalled(o, "submitted")'

\* One whose submission was refused, so that the journal does not know it.
Aborts(o) ==
    /\ o \in Runs /\ reg[o] \in Live /\ OnDisk(o) = "none" /\ o \in refused
    /\ reg'[o] = "unknown" /\ OnDisk(o)' = "none" /\ told'[o] = told[o] \cup {"unknown"}

Moves(o) == Stays(o) \/ Taken(o) \/ Ends(o) \/ Enters(o) \/ Aborts(o)

Moved ==
    /\ journal' \in Seq(Records) /\ reg' \in [Ops -> States] /\ order' \in Seq(Ops)
    /\ told' \in [Ops -> SUBSET Terminal] /\ refused' \subseteq Ops /\ refused \subseteq refused'
    /\ \A o \in Ops :
          /\ Moves(o)
          /\ Journalled(o, "submitted")' <=>
                 (Journalled(o, "submitted") \/ (OnDisk(o) = "none" /\ OnDisk(o)' # "none"))
          /\ In(o, order) => In(o, order')
          /\ Enters(o) => In(o, order')
    /\ \A o, e : Journalled(o, e) => Journalled(o, e)'

\* The operations after such a step.
LEMMA MovesKeep ==
    ASSUME NEW o \in Ops, RegistryTyped, Remembered, Answered, process # "down", Moved
    PROVE  /\ Remembers(o)'
           /\ OnDisk(o)' # "none" <=> Journalled(o, "submitted")'
           /\ OnDisk(o)' = "running" => Journalled(o, "started")'
           /\ OnDisk(o) # "none" => OnDisk(o)' # "none"
           /\ OnDisk(o) \in Started => OnDisk(o)' \in Started
<1>1. /\ Remembers(o)
      /\ OnDisk(o) # "none" <=> Journalled(o, "submitted")
      /\ OnDisk(o) = "running" => Journalled(o, "started")
  BY DEF Remembered
<1>2. /\ Moves(o)
      /\ o \in refused => o \in refused'
      /\ Journalled(o, "submitted")' <=>
             (Journalled(o, "submitted") \/ (OnDisk(o) = "none" /\ OnDisk(o)' # "none"))
      /\ In(o, order) => In(o, order')
      /\ Enters(o) => In(o, order')
      /\ Journalled(o, "started") => Journalled(o, "started")'
  BY DEF Moved
<1>3. /\ OnDisk(o) # "none" => OnDisk(o)' # "none"
      /\ OnDisk(o) \in Started => OnDisk(o)' \in Started
      /\ OnDisk(o)' = "running" => Journalled(o, "started")'
  <2>1. CASE Stays(o)
    BY <1>1, <1>2, <2>1 DEF Stays
  <2>2. CASE Taken(o)
    BY <2>2 DEF Taken, Started
  <2>3. CASE Ends(o)
    BY <2>3 DEF Ends, Started, Terminal
  <2>4. CASE Enters(o)
    BY <2>4 DEF Enters, Started, Terminal
  <2>5. CASE Aborts(o)
    BY <2>5 DEF Aborts, Started, Terminal
  <2> QED BY <1>2, <2>1, <2>2, <2>3, <2>4, <2>5 DEF Moves
<1>4. OnDisk(o)' # "none" <=> Journalled(o, "submitted")'
  BY <1>1, <1>2, <1>3
<1>5. /\ \/ reg'[o] = OnDisk(o)'
         \/ OnDisk(o)' = "none" /\ o \in refused' /\ Forgettable(reg'[o], o)
      /\ reg'[o] # "none" => In(o, order')
  <2>1. CASE Stays(o)
    BY <1>1, <1>2, <2>1 DEF Remembers, Stays
  <2>2. CASE Taken(o)
    BY <1>1, <1>2, <2>2 DEF Remembers, Taken
  <2>3. CASE Ends(o)
    BY <1>1, <1>2, <2>3 DEF Remembers, Ends, Live
  <2>4. CASE Enters(o)
    BY <1>1, <1>2, <2>4 DEF Enters, Forgettable
  <2>5. CASE Aborts(o)
    BY <1>1, <1>2, <2>5 DEF Remembers, Aborts, Live, Forgettable
  <2> QED BY <1>2, <2>1, <2>2, <2>3, <2>4, <2>5 DEF Moves
<1>6. Remembers(o)'
  BY <1>5 DEF Remembers
<1> QED BY <1>3, <1>4, <1>6

LEMMA AnswersKept ==
    ASSUME RegistryTyped, Remembered, Answered, process # "down", Moved
    PROVE  Answered'
<1> SUFFICES ASSUME NEW o \in Ops
             PROVE  /\ OnDisk(o)' # "none" =>
                          told'[o] \subseteq {OnDisk(o)'} \cup
                              (IF o \in Startups /\ OnDisk(o)' = "failed" THEN {"unknown"} ELSE {})
                    /\ OnDisk(o)' = "none" /\ o \notin refused' => told'[o] = {}
  BY DEF Answered
<1>1. /\ OnDisk(o) # "none" =>
             told[o] \subseteq {OnDisk(o)} \cup (IF o \in Startups /\ OnDisk(o) = "failed"
                                                THEN {"unknown"} ELSE {})
      /\ OnDisk(o) = "none" /\ o \notin refused => told[o] = {}
      /\ told[o] \subseteq Terminal
  BY DEF Answered, RegistryTyped
<1>2. Moves(o) /\ (o \in refused => o \in refused')
  BY DEF Moved
<1>3. CASE Stays(o)
  BY <1>1, <1>2, <1>3 DEF Stays
<1>4. CASE Taken(o)
  <2>1. told[o] = {}
    BY <1>1, <1>4 DEF Taken, Terminal
  <2> QED BY <1>4, <2>1 DEF Taken
<1>5. CASE Ends(o)
  <2>1. CASE reg[o] \in Live
    <3>1. told[o] = {}
      BY <1>1, <1>5, <2>1 DEF Ends, Terminal, Live
    <3> QED BY <1>5, <3>1 DEF Ends, Terminal
  <2>2. CASE reg[o] = "unknown" /\ reg'[o] = "failed" /\ o \in Startups
    <3>1. told[o] \subseteq {"unknown"}
      BY <1>1, <1>5, <2>2 DEF Ends
    <3> QED BY <1>5, <2>2, <3>1 DEF Ends, Terminal
  <2> QED BY <1>5, <2>1, <2>2 DEF Ends
<1>6. CASE Enters(o)
  <2>1. told[o] = {}
    BY <1>1, <1>6 DEF Enters
  <2> QED BY <1>6, <2>1 DEF Enters
<1>7. CASE Aborts(o)
  BY <1>2, <1>7 DEF Aborts
<1> QED BY <1>2, <1>3, <1>4, <1>5, <1>6, <1>7 DEF Moves

\* The record is the invariant's part of such a step; the queue and the lane are the other.
LEMMA RecordKept ==
    ASSUME RegistryTyped, Remembered, Answered, process # "down", Moved,
           process' # "down", process' # "up" => queue' = <<>> /\ lane' = IdleLane,
           process' = "recovering" => \A o \in Ops : reg'[o] = OnDisk(o)'
    PROVE  Remembered' /\ Answered'
<1>1. \A o \in Ops : /\ Remembers(o)'
                     /\ OnDisk(o)' # "none" <=> Journalled(o, "submitted")'
                     /\ OnDisk(o)' = "running" => Journalled(o, "started")'
  BY MovesKeep
<1>2. Remembered'
  BY <1>1 DEF Remembered
<1> QED BY <1>2, AnswersKept

\* A step that leaves the queue and the lane as they are.
LEMMA LaneKept ==
    ASSUME Registered, process # "down", Moved, process' # "down",
           process' # "up" => queue' = <<>> /\ lane' = IdleLane,
           process' = "recovering" => \A o \in Ops : reg'[o] = OnDisk(o)',
           queue' = queue, lane' = lane, dispatched' = dispatched
    PROVE  Registered'
<1>1. RegistryTyped /\ Remembered /\ InLane /\ Answered /\ Dispatching
  BY DEF Registered
<1>2. Remembered' /\ Answered'
  BY <1>1, RecordKept
<1>3. RegistryTyped'
  BY <1>1 DEF RegistryTyped, Moved
<1>4. \A o \in Ops : /\ OnDisk(o) # "none" => OnDisk(o)' # "none"
                     /\ OnDisk(o) \in Started => OnDisk(o)' \in Started
  BY <1>1, MovesKeep
<1>5. lane.op \in Ops \cup {NoOp}
  BY <1>1 DEF RegistryTyped, Lanes
<1>6. InLane'
  BY <1>1, <1>4, <1>5 DEF InLane
<1>7. \A o, e : Journalled(o, e) => Journalled(o, e)'
  BY DEF Moved
<1>8. Dispatching'
  BY <1>1, <1>4, <1>7 DEF Dispatching, Ops
<1> QED BY <1>2, <1>3, <1>6, <1>8 DEF Registered

-----------------------------------------------------------------------------
(* The steps of the registry as such steps.                                *)

LEMMA OpsAre == /\ Startups \subseteq Ops /\ Runs \subseteq Ops /\ NoOp \notin Ops
                /\ \A o \in Ops : o \in Startups <=> o \notin Runs
BY OpAssumption DEF Ops

LEMMA RefusedGrows == ASSUME NEW o \in Ops, refused \subseteq Ops, Refused(o)
                      PROVE  refused' \subseteq Ops /\ refused \subseteq refused' /\ o \in refused'
BY DEF Refused

\* No record is written and no state changes.
LEMMA NothingMoved ==
    ASSUME RegistryTyped, journal' = journal, reg' = reg, told' = told, order' = order,
           refused \subseteq refused', refused' \subseteq Ops
    PROVE  Moved /\ \A o \in Ops : Stays(o)
<1>1. ASSUME NEW o PROVE OnDisk(o)' = OnDisk(o)
  BY DEF OnDisk
<1>2. ASSUME NEW o, NEW e PROVE Journalled(o, e)' <=> Journalled(o, e)
  BY DEF Journalled
<1>3. \A o \in Ops : Stays(o)
  BY <1>1 DEF Stays
<1>4. \A o \in Ops : ~Enters(o)
  BY DEF Enters, RegistryTyped
<1>5. /\ journal' \in Seq(Records) /\ reg' \in [Ops -> States] /\ order' \in Seq(Ops)
      /\ told' \in [Ops -> SUBSET Terminal]
  BY DEF RegistryTyped
<1> QED BY <1>1, <1>2, <1>3, <1>4, <1>5 DEF Moved, Moves

\* One record of an operation whose state changes.
LEMMA TransitionMoves ==
    ASSUME RegistryTyped, Remembered, process # "down",
           NEW o \in Ops, NEW state \in Started, Transition(o, state), order' = order,
           reg[o] = OnDisk(o),
           \/ state = "running" /\ reg[o] = "queued"
           \/ state \in Terminal /\ reg[o] \in Live
           \/ state = "failed" /\ reg[o] = "unknown" /\ o \in Startups
    PROVE  /\ Moved /\ \A p \in Ops \ {o} : Stays(p)
           /\ reg'[o] = state /\ OnDisk(o)' = state
<1> DEFINE e == EventOf(state)
<1>1. /\ e \in Events /\ e # "submitted"
      /\ state = "running" => e = "started"
      /\ state \in Terminal => e = state
  BY DEF EventOf, Started, Terminal, Events
<1>2. /\ journal \in Seq(Records) /\ reg \in [Ops -> States] /\ told \in [Ops -> SUBSET Terminal]
      /\ order \in Seq(Ops) /\ refused \subseteq Ops
  BY DEF RegistryTyped
<1>3. /\ journal' = Append(journal, Record(o, e)) /\ refused' = refused
      /\ reg' = [reg EXCEPT ![o] = state]
      /\ told' = [told EXCEPT ![o] = @ \cup ({state} \cap Terminal)]
  BY DEF Transition
<1> HIDE DEF e
<1>4. /\ journal' \in Seq(Records)
      /\ OnDisk(o) \in States /\ OnDisk(o)' = FoldEvent(OnDisk(o), e)
      /\ \A p : p # o => OnDisk(p)' = OnDisk(p)
      /\ \A p, f : Journalled(p, f)' <=> (Journalled(p, f) \/ (p = o /\ f = e))
  BY <1>1, <1>2, <1>3, OneRecord
<1>5. \A p \in Ops \ {o} : Stays(p)
  BY <1>2, <1>3, <1>4 DEF Stays
<1>6. reg'[o] = state /\ told'[o] = told[o] \cup ({state} \cap Terminal)
  BY <1>2, <1>3
<1>7. OnDisk(o)' = state
  <2>1. CASE state = "running" /\ reg[o] = "queued"
    BY <1>1, <1>4, <2>1, FoldEventFacts
  <2>2. CASE state \in Terminal /\ reg[o] # "none"
    BY <1>1, <1>4, <2>2, FoldEventFacts
  <2> QED BY <2>1, <2>2 DEF Live, Terminal
<1>8. Taken(o) \/ Ends(o)
  <2>1. CASE state = "running" /\ reg[o] = "queued"
    <3>1. {state} \cap Terminal = {} /\ Journalled(o, "started")'
      BY <1>1, <1>4, <2>1 DEF Terminal
    <3> QED BY <1>6, <1>7, <2>1, <3>1 DEF Taken
  <2>2. CASE state \in Terminal /\ (reg[o] \in Live \/ (reg[o] = "unknown" /\ state = "failed" /\ o \in Startups))
    <3>1. {state} \cap Terminal = {state}
      BY <2>2
    <3> QED BY <1>6, <1>7, <2>2, <3>1 DEF Ends
  <2> QED BY <2>1, <2>2 DEF Terminal
<1>9. OnDisk(o) # "none"
  BY DEF Live
<1>10. \A p, f : Journalled(p, f) => Journalled(p, f)'
  BY <1>4
<1>11. ASSUME NEW p \in Ops
       PROVE  /\ Moves(p)
              /\ Journalled(p, "submitted")' <=>
                     (Journalled(p, "submitted") \/ (OnDisk(p) = "none" /\ OnDisk(p)' # "none"))
              /\ ~Enters(p)
  <2>1. Moves(p)
    BY <1>5, <1>8 DEF Moves
  <2>2. Journalled(p, "submitted")' <=> Journalled(p, "submitted")
    BY <1>1, <1>4
  <2>3. ~(OnDisk(p) = "none" /\ OnDisk(p)' # "none")
    BY <1>4, <1>9
  <2>4. ~Enters(p)
    <3>1. CASE p = o
      BY <1>9, <3>1 DEF Enters
    <3>2. CASE p # o
      BY <1>5, <3>2 DEF Enters, Stays
    <3> QED BY <3>1, <3>2
  <2> QED BY <2>1, <2>2, <2>3, <2>4
<1>12. reg' \in [Ops -> States] /\ told' \in [Ops -> SUBSET Terminal]
  <2>1. state \in States /\ {state} \cap Terminal \subseteq Terminal
    BY DEF Started, States, Live
  <2> QED BY <1>2, <1>3, <2>1
<1>13. /\ order' \in Seq(Ops) /\ refused' \subseteq Ops /\ refused \subseteq refused'
       /\ \A p : In(p, order) => In(p, order')
  BY <1>2, <1>3
<1>14. Moved
  BY <1>4, <1>10, <1>11, <1>12, <1>13 DEF Moved
<1> QED BY <1>5, <1>6, <1>7, <1>14

\* A record that changes no state.
LEMMA ProvenanceMoves ==
    ASSUME RegistryTyped, NEW o \in Ops, journal' = Append(journal, Record(o, "provenance")),
           reg' = reg, told' = told, order' = order, refused' = refused
    PROVE  Moved /\ (\A p \in Ops : Stays(p)) /\ Journalled(o, "provenance")'
<1>1. /\ journal \in Seq(Records) /\ reg \in [Ops -> States] /\ told \in [Ops -> SUBSET Terminal]
      /\ order \in Seq(Ops) /\ refused \subseteq Ops
  BY DEF RegistryTyped
<1>2. "provenance" \in Events
  BY DEF Events
<1>3. /\ journal' \in Seq(Records)
      /\ OnDisk(o) \in States /\ OnDisk(o)' = FoldEvent(OnDisk(o), "provenance")
      /\ \A p : p # o => OnDisk(p)' = OnDisk(p)
      /\ \A p, f : Journalled(p, f)' <=> (Journalled(p, f) \/ (p = o /\ f = "provenance"))
  BY <1>1, <1>2, OneRecord
<1>4. \A p \in Ops : OnDisk(p)' = OnDisk(p)
  BY <1>2, <1>3, FoldEventFacts
<1>5. \A p \in Ops : Stays(p)
  BY <1>4 DEF Stays
<1>6. \A p \in Ops : ~Enters(p)
  BY <1>5 DEF Stays, Enters
<1>7. \A p : Journalled(p, "submitted")' <=> Journalled(p, "submitted")
  BY <1>3
<1>8. Moved
  BY <1>1, <1>3, <1>4, <1>5, <1>6, <1>7 DEF Moved, Moves
<1> QED BY <1>3, <1>5, <1>8

\* A new operation, whether its record is written or refused, and whether it is queued.
LEMMA SubmissionMoves ==
    ASSUME RegistryTyped, NEW o \in Ops, Submitted(o) \/ SubmissionRefused(o) \/ ExecutorRefuses(o)
    PROVE  /\ Moved /\ (\A p \in Ops \ {o} : Stays(p)) /\ Enters(o)
           /\ lane' = lane
           /\ \/ queue' = queue
              \/ queue' = Append(queue, o) /\ OnDisk(o)' = "queued"
<1>1. /\ journal \in Seq(Records) /\ reg \in [Ops -> States] /\ told \in [Ops -> SUBSET Terminal]
      /\ order \in Seq(Ops) /\ refused \subseteq Ops
  BY DEF RegistryTyped
<1>2. /\ reg[o] = "none" /\ OnDisk(o) = "none" /\ o \notin refused
      /\ order' = Append(order, o) /\ lane' = lane
  BY DEF Submitted, SubmissionRefused, ExecutorRefuses, Fresh
<1>3. /\ "submitted" \in Events /\ "queued" \in States /\ "failed" \in States
      /\ "failed" \in Terminal /\ FoldEvent("none", "submitted") = "queued"
  BY DEF Events, States, Live, Terminal, FoldEvent
<1>4. /\ order' \in Seq(Ops) /\ In(o, order') /\ \A p : In(p, order) => In(p, order')
  BY <1>1, <1>2, AppendIn
<1> DEFINE Recorded ==
        /\ journal' \in Seq(Records) /\ refused \subseteq refused' /\ refused' \subseteq Ops
        /\ \A p : p # o => OnDisk(p)' = OnDisk(p)
        /\ \A p, f : Journalled(p, f) => Journalled(p, f)'
        /\ \A p : p # o => (Journalled(p, "submitted")' <=> Journalled(p, "submitted"))
        /\ OnDisk(o)' # "none" => Journalled(o, "submitted")'
        /\ OnDisk(o)' = "none" => (Journalled(o, "submitted")' <=> Journalled(o, "submitted"))
<1>5. ASSUME journal' = Append(journal, Record(o, "submitted")),
             refused \subseteq refused', refused' \subseteq Ops
      PROVE  Recorded /\ OnDisk(o)' = "queued"
  <2>1. /\ journal' \in Seq(Records)
        /\ OnDisk(o)' = FoldEvent(OnDisk(o), "submitted")
        /\ \A p : p # o => OnDisk(p)' = OnDisk(p)
        /\ \A p, f : Journalled(p, f)' <=> (Journalled(p, f) \/ (p = o /\ f = "submitted"))
    BY <1>1, <1>3, <1>5, OneRecord
  <2>2. OnDisk(o)' = "queued" /\ Journalled(o, "submitted")'
    BY <1>2, <1>3, <2>1
  <2> QED BY <1>5, <2>1, <2>2
<1> DEFINE Shown ==
        \/ /\ reg' = [reg EXCEPT ![o] = "queued"] /\ told' = told
           /\ \/ OnDisk(o)' = "queued" /\ (queue' = queue \/ queue' = Append(queue, o))
              \/ OnDisk(o)' = "none" /\ o \in refused' /\ queue' = queue
        \/ /\ reg' = [reg EXCEPT ![o] = "failed"] /\ OnDisk(o)' = "failed" /\ queue' = queue
           /\ told' = [told EXCEPT ![o] = @ \cup {"failed"}]
<1>6. Recorded /\ Shown
  <2>1. CASE Submitted(o)
    <3>1. /\ journal' = Append(journal, Record(o, "submitted")) /\ refused' = refused
          /\ queue' = Append(queue, o) /\ reg' = [reg EXCEPT ![o] = "queued"] /\ told' = told
      BY <2>1 DEF Submitted
    <3> QED BY <1>1, <1>5, <3>1
  <2>2. CASE SubmissionRefused(o)
    <3>1. /\ journal' = journal /\ Refused(o) /\ queue' = queue
          /\ reg' = [reg EXCEPT ![o] = "queued"] /\ told' = told
      BY <2>2 DEF SubmissionRefused
    <3>2. refused' \subseteq Ops /\ refused \subseteq refused' /\ o \in refused'
      BY <1>1, <3>1, RefusedGrows
    <3>3. ASSUME NEW p PROVE OnDisk(p)' = OnDisk(p)
      BY <3>1 DEF OnDisk
    <3>4. ASSUME NEW p, NEW e PROVE Journalled(p, e)' <=> Journalled(p, e)
      BY <3>1 DEF Journalled
    <3> QED BY <1>1, <1>2, <3>1, <3>2, <3>3, <3>4
  <2>3. CASE /\ ExecutorRefuses(o) /\ journal' = Append(journal, Record(o, "submitted"))
             /\ reg' = [reg EXCEPT ![o] = "queued"] /\ Refused(o) /\ told' = told
    <3>1. refused' \subseteq Ops /\ refused \subseteq refused' /\ queue' = queue
      BY <1>1, <2>3, RefusedGrows DEF ExecutorRefuses
    <3> QED BY <1>5, <2>3, <3>1
  <2>4. CASE /\ ExecutorRefuses(o)
             /\ journal' = journal \o <<Record(o, "submitted"), Record(o, "failed")>>
             /\ reg' = [reg EXCEPT ![o] = "failed"] /\ refused' = refused
             /\ told' = [told EXCEPT ![o] = @ \cup {"failed"}]
    <3>1. /\ journal' \in Seq(Records) /\ OnDisk(o)' = "failed"
          /\ \A p : p # o => OnDisk(p)' = OnDisk(p)
          /\ \A p, f : Journalled(p, f)' <=>
                 (Journalled(p, f) \/ (p = o /\ f \in {"submitted", "failed"}))
      BY <1>1, <1>2, <2>4, TwoRecords
    <3>2. Journalled(o, "submitted")' /\ queue' = queue
      BY <2>4, <3>1 DEF ExecutorRefuses
    <3> QED BY <1>1, <2>4, <3>1, <3>2
  <2> QED BY <2>1, <2>2, <2>3, <2>4 DEF ExecutorRefuses
<1>7. /\ reg' \in [Ops -> States] /\ told' \in [Ops -> SUBSET Terminal]
      /\ \A p \in Ops \ {o} : reg'[p] = reg[p] /\ told'[p] = told[p]
  BY <1>1, <1>3, <1>6
<1>8. \A p \in Ops \ {o} : Stays(p) /\ ~Enters(p)
  BY <1>6, <1>7 DEF Stays, Enters
<1>9. Enters(o)
  <2>1. CASE /\ reg' = [reg EXCEPT ![o] = "queued"] /\ told' = told
             /\ OnDisk(o)' = "queued" \/ (OnDisk(o)' = "none" /\ o \in refused')
    BY <1>1, <1>2, <1>6, <2>1 DEF Enters
  <2>2. CASE /\ reg' = [reg EXCEPT ![o] = "failed"] /\ OnDisk(o)' = "failed"
             /\ told' = [told EXCEPT ![o] = @ \cup {"failed"}]
    BY <1>1, <1>2, <1>6, <2>2 DEF Enters
  <2> QED BY <1>6, <2>1, <2>2
<1>10. ASSUME NEW p \in Ops
       PROVE  /\ Moves(p)
              /\ Journalled(p, "submitted")' <=>
                     (Journalled(p, "submitted") \/ (OnDisk(p) = "none" /\ OnDisk(p)' # "none"))
              /\ In(p, order) => In(p, order')
              /\ Enters(p) => In(p, order')
  <2>1. CASE p = o
    BY <1>2, <1>4, <1>6, <1>9, <2>1 DEF Moves
  <2>2. CASE p # o
    BY <1>4, <1>6, <1>8, <2>2 DEF Moves
  <2> QED BY <2>1, <2>2
<1>11. Moved
  BY <1>4, <1>6, <1>7, <1>10 DEF Moved
<1> QED BY <1>2, <1>6, <1>8, <1>9, <1>11

\* The abort of the first of these runs.
LEMMA AbortMoves ==
    ASSUME RegistryTyped, Remembered, process # "down",
           NEW live \in Seq(Runs), \A o : In(o, live) => o \in Runs /\ reg[o] \in Live,
           NEW n \in 0 .. Len(live), MarkUnknown(live, n), order' = order,
           refused \subseteq refused', refused' \subseteq Ops
    PROVE  /\ Moved
           /\ \A o \in Ops : IF o \in Marked(live, n) THEN reg'[o] = "unknown" ELSE Stays(o)
           /\ Marked(live, n) \subseteq Runs
<1> DEFINE M == Marked(live, n)
<1>1. /\ journal \in Seq(Records) /\ reg \in [Ops -> States] /\ told \in [Ops -> SUBSET Terminal]
      /\ order \in Seq(Ops) /\ refused \subseteq Ops
  BY DEF RegistryTyped
<1>2. Len(live) \in Nat /\ live \in Seq(Ops)
  <2>1. Runs \subseteq Ops
    BY OpsAre
  <2> QED BY <2>1, LenProperties
<1>3. ASSUME NEW o \in M
      PROVE  /\ o \in Runs /\ o \in Ops /\ reg[o] \in Live
             /\ OnDisk(o) = reg[o] \/ (OnDisk(o) = "none" /\ o \in refused)
  <2>1. PICK i \in 1 .. n : live[i] = o
    BY DEF Marked
  <2>2. i \in 1 .. Len(live)
    BY <1>2
  <2>3. In(o, live)
    BY <2>1, <2>2 DEF In
  <2>4. o \in Runs /\ o \in Ops /\ reg[o] \in Live
    BY <2>3, OpsAre
  <2>5. Remembers(o)
    BY <2>4 DEF Remembered
  <2> QED BY <2>4, <2>5 DEF Remembers
<1>4. /\ journal' = journal \o Unknowing(live, n)
      /\ reg' = [o \in Ops |-> IF o \in M THEN "unknown" ELSE reg[o]]
      /\ told' = [o \in Ops |-> IF o \in M THEN told[o] \cup {"unknown"} ELSE told[o]]
  BY DEF MarkUnknown, Unknowing, Marked
<1> HIDE DEF M
<1>5. /\ journal' \in Seq(Records)
      /\ \A o : Replay(journal', o) = IF o \in M /\ Replay(journal, o) # "none"
                                      THEN "unknown" ELSE Replay(journal, o)
      /\ \A r : In(r, journal') <=> (In(r, journal) \/ \E o \in M : r = Record(o, "unknown"))
  BY <1>1, <1>2, <1>4, UnknowingRecords DEF M
<1>6. \A o : OnDisk(o)' = IF o \in M /\ OnDisk(o) # "none" THEN "unknown" ELSE OnDisk(o)
  BY <1>5 DEF OnDisk
<1>7. ASSUME NEW o, NEW e
      PROVE  Journalled(o, e)' <=> (Journalled(o, e) \/ (o \in M /\ e = "unknown"))
  <2>1. Journalled(o, e) <=> In(Record(o, e), journal)
    BY <1>1, JournalledIs
  <2>2. Journalled(o, e)' <=> In(Record(o, e), journal')
    BY <1>5, InSeq DEF Journalled
  <2>3. In(Record(o, e), journal') <=>
            (In(Record(o, e), journal) \/ \E p \in M : Record(o, e) = Record(p, "unknown"))
    BY <1>5
  <2>4. (\E p \in M : Record(o, e) = Record(p, "unknown")) <=> (o \in M /\ e = "unknown")
    BY SameRecord
  <2> QED BY <2>1, <2>2, <2>3, <2>4
<1>8. /\ \A o, e : Journalled(o, e) => Journalled(o, e)'
      /\ \A o : Journalled(o, "submitted")' <=> Journalled(o, "submitted")
  BY <1>7
<1>9. \A o \in Ops : o \notin M => Stays(o)
  BY <1>4, <1>6 DEF Stays
<1>10. ASSUME NEW o \in M
       PROVE  /\ reg'[o] = "unknown" /\ reg[o] # "none"
              /\ Ends(o) \/ Aborts(o)
  <2>1. reg'[o] = "unknown" /\ told'[o] = told[o] \cup {"unknown"} /\ reg[o] # "none"
    BY <1>3, <1>4 DEF Live
  <2>2. CASE OnDisk(o) = "none"
    BY <1>3, <1>6, <2>1, <2>2 DEF Aborts
  <2>3. CASE OnDisk(o) # "none"
    <3>1. OnDisk(o)' = "unknown" /\ reg[o] = OnDisk(o) /\ reg[o] \in Live
      BY <1>3, <1>6, <2>3
    <3> QED BY <2>1, <3>1 DEF Ends, Terminal
  <2> QED BY <2>1, <2>2, <2>3
<1>11. ASSUME NEW o \in Ops
       PROVE  Moves(o) /\ ~Enters(o) /\ ~(OnDisk(o) = "none" /\ OnDisk(o)' # "none")
  <2>1. CASE o \in M
    BY <1>6, <1>10, <2>1 DEF Moves, Enters
  <2>2. CASE o \notin M
    BY <1>6, <1>9, <2>2 DEF Moves, Stays, Enters
  <2> QED BY <2>1, <2>2
<1>12. reg' \in [Ops -> States] /\ told' \in [Ops -> SUBSET Terminal]
  <2>1. "unknown" \in States /\ "unknown" \in Terminal
    BY DEF States, Terminal
  <2> QED BY <1>1, <1>4, <2>1
<1>13. Moved
  <2>1. order' \in Seq(Ops) /\ \A o : In(o, order) => In(o, order')
    BY <1>1
  <2> QED BY <1>5, <1>8, <1>11, <1>12, <2>1 DEF Moved
<1>14. M \subseteq Runs
  BY <1>3
<1> QED BY <1>9, <1>10, <1>13, <1>14 DEF M

LEMMA GenerationAborted ==
    ASSUME RegistryTyped, Remembered, process # "down", NEW runs, runs \subseteq Runs, order' = order,
           MarkAborted(runs) \/ MarkAbortedRefused(runs)
    PROVE  /\ Moved
           /\ \A o \in Ops : Stays(o) \/ (o \in Runs /\ reg'[o] = "unknown")
           /\ MarkAborted(runs) => \A o \in runs : reg'[o] \notin Live
<1> DEFINE live == LiveOf(runs)
           open == {o \in runs : reg[o] \in Live}
<1>1. order \in Seq(Ops) /\ reg \in [Ops -> States] /\ refused \subseteq Ops
  BY DEF RegistryTyped
<1>2. /\ live \in Seq(Ops \cap open)
      /\ \A o : In(o, live) <=> (In(o, order) /\ o \in open)
  BY <1>1, AmongFacts DEF LiveOf
<1>3. /\ live \in Seq(Runs) /\ Len(live) \in Nat
      /\ \A o : In(o, live) => o \in Runs /\ reg[o] \in Live
  <2>1. Ops \cap open \subseteq Runs
    OBVIOUS
  <2> HIDE DEF open, live
  <2>2. live \in Seq(Runs)
    BY <1>2, <2>1
  <2> QED BY <1>2, <2>2, LenProperties DEF open
<1>4. PICK n \in 0 .. Len(live) :
          /\ MarkUnknown(live, n)
          /\ refused \subseteq refused' /\ refused' \subseteq Ops
          /\ MarkAborted(runs) => \E m \in 0 .. Len(live) : m = Len(live) /\ MarkUnknown(live, m)
  <2>1. CASE MarkAborted(runs)
    <3>1. MarkUnknown(live, Len(live)) /\ refused' = refused
      BY <2>1 DEF MarkAborted
    <3>2. Len(live) \in 0 .. Len(live)
      BY <1>3
    <3> HIDE DEF live
    <3> QED BY <1>1, <3>1, <3>2
  <2>2. CASE ~MarkAborted(runs)
    <3>1. PICK n \in 0 .. Len(live) - 1 : MarkUnknown(live, n) /\ Refused(live[n + 1])
      BY <2>2 DEF MarkAbortedRefused
    <3> HIDE DEF live
    <3>2. n \in 0 .. Len(live) /\ n + 1 \in 1 .. Len(live)
      BY <1>3
    <3>3. live[n + 1] \in Runs
      BY <1>3, <3>2, ElementOfSeq
    <3>4. live[n + 1] \in Ops
      BY <3>3, OpsAre
    <3>5. refused \subseteq refused' /\ refused' \subseteq Ops
      BY <1>1, <3>1, <3>4, RefusedGrows
    <3> QED BY <2>2, <3>1, <3>2, <3>5
  <2> QED BY <2>1, <2>2
<1> HIDE DEF live
<1>5. /\ Moved
      /\ \A o \in Ops : IF o \in Marked(live, n) THEN reg'[o] = "unknown" ELSE Stays(o)
      /\ Marked(live, n) \subseteq Runs
  BY <1>3, <1>4, AbortMoves
<1>6. ASSUME MarkAborted(runs), NEW o \in runs PROVE reg'[o] \notin Live
  <2>1. Len(live) \in 0 .. Len(live) /\ MarkUnknown(live, Len(live))
    BY <1>4, <1>6
  <2>2. \A p \in Ops : IF p \in Marked(live, Len(live)) THEN reg'[p] = "unknown" ELSE Stays(p)
    BY <1>3, <1>4, <2>1, AbortMoves
  <2>3. o \in Ops
    BY OpsAre
  <2>4. CASE reg[o] \in Live
    <3>1. Remembers(o)
      BY <2>3 DEF Remembered
    <3>2. In(o, order)
      BY <2>4, <3>1 DEF Remembers, Live
    <3>3. In(o, live)
      BY <1>2, <2>4, <3>2 DEF open
    <3>4. o \in Marked(live, Len(live))
      BY <3>3 DEF In, Marked
    <3> QED BY <2>2, <2>3, <3>4 DEF Live
  <2>5. CASE reg[o] \notin Live
    <3>1. reg'[o] = "unknown" \/ Stays(o)
      BY <2>2, <2>3
    <3> QED BY <2>5, <3>1 DEF Stays, Live
  <2> QED BY <2>4, <2>5
<1>7. \A o \in Ops : Stays(o) \/ (o \in Runs /\ reg'[o] = "unknown")
  BY <1>5
<1> QED BY <1>5, <1>6, <1>7

-----------------------------------------------------------------------------
(* The registry after a step of the lane.                                  *)

LEMMA Kept ==
    ASSUME Registered, process # "down", Moved
    PROVE  /\ \A o \in Ops : /\ OnDisk(o) # "none" => OnDisk(o)' # "none"
                             /\ OnDisk(o) \in Started => OnDisk(o)' \in Started
           /\ \A o, e : Journalled(o, e) => Journalled(o, e)'
BY MovesKeep DEF Registered, Moved

LEMMA RegistryKept ==
    ASSUME Registered, process = "up", process' = "up", Moved,
           lane' \in Lanes, queue' \in Seq(Ops), InLane', Dispatching'
    PROVE  Registered'
<1>1. RegistryTyped /\ Remembered /\ Answered
  BY DEF Registered
<1>2. Remembered' /\ Answered'
  BY <1>1, RecordKept
<1>3. RegistryTyped'
  BY <1>1 DEF RegistryTyped, Moved
<1> QED BY <1>2, <1>3 DEF Registered

\* A lane that goes on with its operation, or is done with it.
LEMMA LaneAdvances ==
    ASSUME Registered, process = "up", process' = "up", Moved, queue' = queue,
           dispatched' = dispatched, lane' \in Lanes, NEW l \in Ops, lane.op = l,
           \/ lane' = IdleLane
           \/ lane'.op = l /\ lane'.step = "settle" /\ lane'.outcome \in Terminal
           \/ lane'.op = l /\ lane'.step = "publish" /\ l \in Startups
           \/ /\ lane'.op = l /\ lane'.step = "recorded" /\ l \in Runs
              /\ lane.step = "execute" /\ Journalled(l, "provenance")'
    PROVE  Registered'
<1>1. /\ RegistryTyped /\ InLane /\ Dispatching
      /\ \A o \in Ops : /\ OnDisk(o) # "none" => OnDisk(o)' # "none"
                        /\ OnDisk(o) \in Started => OnDisk(o)' \in Started
      /\ \A o, e : Journalled(o, e) => Journalled(o, e)'
  BY Kept DEF Registered
<1>2. queue \in Seq(Ops) /\ queue' \in Seq(Ops) /\ l # NoOp
  BY <1>1, OpsAre DEF RegistryTyped
<1>3. OnDisk(l) \in Started /\ OnDisk(l)' \in Started
  BY <1>1 DEF InLane
<1>4. \A o \in Ops : In(o, queue') => OnDisk(o)' # "none"
  BY <1>1 DEF InLane
<1>5. \A o \in Runs : dispatched'[o] > 0 =>
          /\ dispatched'[o] = 1 /\ OnDisk(o)' \in Started
          /\ Journalled(o, "started")' /\ Journalled(o, "provenance")'
  BY <1>1, OpsAre DEF Dispatching
<1>6. CASE lane' = IdleLane
  <2>1. lane'.op = NoOp /\ lane'.step = "idle"
    BY <1>6 DEF IdleLane
  <2>2. \A o \in Ops : lane'.op # o
    BY <2>1, OpsAre
  <2>3. InLane'
    BY <1>4, <2>1, <2>2 DEF InLane
  <2>4. Dispatching'
    BY <1>5, <2>1 DEF Dispatching
  <2> QED BY <1>2, <2>3, <2>4, RegistryKept
<1>7. CASE /\ lane'.op = l /\ lane'.step \in {"settle", "publish"}
           /\ lane'.step = "settle" => lane'.outcome \in Terminal
           /\ lane'.step = "publish" => l \in Startups
  <2>1. InLane'
    BY <1>2, <1>3, <1>4, <1>7 DEF InLane
  <2>2. Dispatching'
    BY <1>5, <1>7 DEF Dispatching
  <2> QED BY <1>2, <2>1, <2>2, RegistryKept
<1>8. CASE /\ lane'.op = l /\ lane'.step = "recorded" /\ l \in Runs
           /\ lane.step = "execute" /\ Journalled(l, "provenance")'
  <2>1. InLane'
    BY <1>2, <1>3, <1>4, <1>8 DEF InLane
  <2>2. dispatched[l] = 0 /\ Journalled(l, "started")
    BY <1>1, <1>8 DEF Dispatching
  <2>3. dispatched'[l] = 0 /\ Journalled(l, "started")'
    BY <1>1, <2>2
  <2>4. Dispatching'
    BY <1>5, <1>8, <2>3 DEF Dispatching
  <2> QED BY <1>2, <2>1, <2>4, RegistryKept
<1> QED BY <1>6, <1>7, <1>8

LEMMA LaneOnlyMoves ==
    ASSUME RegistryTyped, LaneOnly
    PROVE  Moved /\ (\A o \in Ops : Stays(o)) /\ queue' = queue
<1>1. refused \subseteq Ops
  BY DEF RegistryTyped
<1> QED BY <1>1, NothingMoved DEF LaneOnly

LEMMA RunDispatchesRegisters ==
    ASSUME Registered, RunDispatches, process' = "up", dispatched \in [Runs -> Nat]
    PROVE  Registered' /\ dispatched' \in [Runs -> Nat]
<1>1. /\ RegistryTyped /\ InLane /\ Dispatching
      /\ process = "up" /\ lane.step = "recorded" /\ LaneOnly
      /\ dispatched' = [dispatched EXCEPT ![lane.op] = @ + 1]
  BY DEF Registered, RunDispatches
<1>2. PICK outcome \in Terminal : lane' = [lane EXCEPT !.step = "settle", !.outcome = outcome]
  BY DEF RunDispatches, Outcome, Terminal
<1>3. Moved /\ (\A o \in Ops : Stays(o)) /\ queue' = queue
  BY <1>1, LaneOnlyMoves
<1>4. /\ \A o \in Ops : /\ OnDisk(o) # "none" => OnDisk(o)' # "none"
                        /\ OnDisk(o) \in Started => OnDisk(o)' \in Started
      /\ \A o, e : Journalled(o, e) => Journalled(o, e)'
  BY <1>1, <1>3, Kept
<1>5. PICK l \in Runs : lane.op = l
  BY <1>1 DEF InLane
<1>6. l \in Ops /\ l # NoOp /\ lane \in Lanes /\ queue' \in Seq(Ops)
  BY <1>1, <1>3, OpsAre DEF RegistryTyped
<1>7. lane' \in Lanes /\ lane'.op = l /\ lane'.step = "settle" /\ lane'.outcome \in Terminal
  BY <1>2, <1>5, <1>6 DEF Lanes
<1>8. /\ dispatched[l] = 0 /\ OnDisk(l) \in Started
      /\ Journalled(l, "started") /\ Journalled(l, "provenance")
  BY <1>1, <1>5, <1>6 DEF Dispatching, InLane
<1>9. InLane'
  <2>1. OnDisk(l)' \in Started
    BY <1>4, <1>6, <1>8
  <2>2. \A o \in Ops : In(o, queue') => OnDisk(o)' # "none"
    BY <1>1, <1>3, <1>4 DEF InLane
  <2> QED BY <1>6, <1>7, <2>1, <2>2 DEF InLane
<1>10. dispatched' = [dispatched EXCEPT ![l] = @ + 1] /\ dispatched' \in [Runs -> Nat]
  BY <1>1, <1>5
<1>11. ASSUME NEW o \in Runs, dispatched'[o] > 0
       PROVE  /\ dispatched'[o] = 1 /\ OnDisk(o)' \in Started
              /\ Journalled(o, "started")' /\ Journalled(o, "provenance")'
  <2>1. CASE o = l
    <3>1. dispatched'[o] = 1
      BY <1>8, <1>10, <2>1
    <3> QED BY <1>4, <1>6, <1>8, <2>1, <3>1
  <2>2. CASE o # l
    <3>1. dispatched'[o] = dispatched[o]
      BY <1>10, <2>2
    <3>2. o \in Ops
      BY OpsAre
    <3> QED BY <1>1, <1>4, <1>11, <3>1, <3>2 DEF Dispatching
  <2> QED BY <2>1, <2>2
<1>12. Dispatching'
  BY <1>7, <1>11 DEF Dispatching
<1> QED BY <1>1, <1>3, <1>6, <1>7, <1>9, <1>10, <1>12, RegistryKept

-----------------------------------------------------------------------------
(* Steps after which the holders hold what they held.                      *)

LEMMA HoldersServe ==
    ASSUME RuntimeTyped, Exclusive, Held, Handed, process = "up", process' = "up",
           svc' \in Services, of' \in [Runs -> Backends \cup {0}], dispatched' \in [Runs -> Nat],
           svc'.runtime = svc.runtime, svc'.pending = svc.pending, svc'.orphan = svc.orphan,
           api' = api, owner' = owner, Publishing' = Publishing,
           alive' = alive, starter' = starter, stray' = stray,
           svc'.request = svc.request \/ ~Unheld \/ Known \subseteq {owner},
           \A o \in Startups : /\ reg[o] = "unknown" => reg'[o] = "unknown"
                               /\ Accounts(o) => Accounts(o)'
    PROVE  RuntimeTyped' /\ Exclusive' /\ Held' /\ Handed'
<1>1. RuntimeTyped'
  BY DEF RuntimeTyped
<1>2. Known' = Known
  BY DEF Known
<1>3. Exclusive'
  BY DEF Exclusive
<1>4. Held'
  BY <1>2 DEF Held
<1>5. Handed'
  <2> SUFFICES ASSUME NEW b \in Known \ {owner} PROVE Answerable(b)'
    BY <1>2 DEF Handed
  <2>1. Answerable(b)
    BY DEF Handed
  <2>2. \A o \in Startups : starter'[b] = o => Accounts(o)'
    BY <2>1 DEF Answerable
  <2>3. starter'[b] = NoOp => process' = "up" /\ b \in {svc'.runtime, svc'.pending, api'}
    BY <2>1 DEF Answerable
  <2>4. ASSUME Unheld' PROVE svc'.request \in Unknowns'
    <3>1. Unheld
      BY <2>4 DEF Unheld
    <3>2. svc.request \in Startups /\ reg[svc.request] = "unknown" /\ svc'.request = svc.request
      BY <2>1, <3>1 DEF Answerable, Unknowns
    <3> QED BY <3>2 DEF Unknowns
  <2> QED BY <2>2, <2>3, <2>4 DEF Answerable
<1> QED BY <1>1, <1>3, <1>4, <1>5

-----------------------------------------------------------------------------
(* Steps of the lane that leave the service and the target alone.          *)

Quiet ==
    /\ \A o \in Ops : /\ reg'[o] \in Live => reg[o] \in Live
                      /\ reg[o] = "unknown" => reg'[o] = "unknown"
    /\ \A o \in Startups : /\ Waiting(o)' => Waiting(o) /\ (reg'[o] = reg[o] \/ reg'[o] \in Live)
                           /\ Accounts(o) => Accounts(o)'
    /\ Publishing' = Publishing
    /\ lane'.step = "publish" => lane' = lane

\* The service as it was, but for its closing flag.
SameService ==
    /\ svc' \in Services /\ svc'.runtime = svc.runtime /\ svc'.request = svc.request
    /\ svc'.pending = svc.pending /\ svc'.orphan = svc.orphan

LEMMA OnlyQuarantined == ASSUME RuntimeTyped, svc' \in {svc, Quarantined} PROVE SameService
<1>1. svc \in Services
  BY DEF RuntimeTyped
<1>2. (svc.closing \/ (svc.runtime # 0 /\ svc.runtime = of[lane.op])) \in BOOLEAN
  BY <1>1 DEF Services
<1>3. CASE svc' = svc
  BY <1>1, <1>3 DEF SameService
<1>4. CASE svc' = Quarantined
  BY <1>1, <1>2, <1>4 DEF SameService, Quarantined, Services
<1> QED BY <1>3, <1>4

LEMMA QuietServes ==
    ASSUME Serving, process = "up", Quiet, SameService, api' = api, owner' = owner, of' = of,
           process' = process, alive' = alive, starter' = starter, stray' = stray,
           dispatched' \in [Runs -> Nat]
    PROVE  Serving'
<1>1. /\ RuntimeTyped /\ OneStartup /\ Exclusive /\ Held /\ Handed /\ AbortCoversGeneration
  BY DEF Serving
<1>2. /\ svc' \in Services /\ svc'.runtime = svc.runtime /\ svc'.request = svc.request
      /\ svc'.pending = svc.pending /\ svc'.orphan = svc.orphan
      /\ of' \in [Runs -> Backends \cup {0}]
  BY <1>1 DEF RuntimeTyped, SameService
<1>3. \A o \in Ops : /\ reg'[o] \in Live => reg[o] \in Live
                     /\ reg[o] = "unknown" => reg'[o] = "unknown"
  BY DEF Quiet
<1>4. \A o \in Startups : /\ Waiting(o)' => Waiting(o) /\ (reg'[o] = reg[o] \/ reg'[o] \in Live)
                          /\ Accounts(o) => Accounts(o)'
  BY DEF Quiet
<1>5. Publishing' = Publishing /\ (lane'.step = "publish" => lane' = lane)
  BY DEF Quiet
<1>6. OneStartup'
  <2>1. \A o, p \in Startups : reg[o] \in Live /\ reg[p] \in Live => o = p
    BY <1>1 DEF OneStartup
  <2>2. \A o, p \in Startups : reg'[o] \in Live /\ reg'[p] \in Live => o = p
    BY <1>3, <2>1, OpsAre
  <2>3. ASSUME NEW o \in Startups, Waiting(o)'
        PROVE  svc'.request = o /\ reg'[o] \in Live /\ svc'.runtime = 0 /\ svc'.orphan = 0 /\ api' = 0
    <3>1. Waiting(o) /\ (reg'[o] = reg[o] \/ reg'[o] \in Live)
      BY <1>4, <2>3
    <3>2. svc.request = o /\ reg[o] \in Live /\ svc.runtime = 0 /\ svc.orphan = 0 /\ api = 0
      BY <1>1, <3>1 DEF OneStartup
    <3> QED BY <1>2, <3>1, <3>2
  <2>4. lane'.step = "publish" => lane'.backend # 0
    BY <1>1, <1>5 DEF OneStartup
  <2> QED BY <2>2, <2>3, <2>4 DEF OneStartup
<1>7. RuntimeTyped' /\ Exclusive' /\ Held' /\ Handed'
  BY <1>1, <1>2, <1>3, <1>4, <1>5, HoldersServe, OpsAre
<1>8. AbortCoversGeneration'
  BY <1>1, <1>2, <1>3, OpsAre DEF AbortCoversGeneration
<1> QED BY <1>6, <1>7, <1>8 DEF Serving

\* No record, and a lane that is not past its dispatch.
LEMMA StaysQuiet ==
    ASSUME \A o \in Ops : Stays(o), \A o \in Ops : In(o, queue') => In(o, queue),
           \/ lane' = lane
           \/ lane' = IdleLane /\ lane.step # "publish"
           \/ lane'.op = lane.op /\ lane.op \in Runs /\ lane.step # "publish"
              /\ lane'.step # "publish"
    PROVE  Quiet
<1>1. \A o \in Ops : reg'[o] = reg[o] /\ OnDisk(o)' = OnDisk(o)
  BY DEF Stays
<1>2. Publishing' = Publishing
  BY DEF Publishing, IdleLane
<1>3. lane'.step = "publish" => lane' = lane
  BY DEF IdleLane
<1>4. ASSUME NEW o \in Startups
      PROVE  /\ Waiting(o)' => Waiting(o) /\ reg'[o] = reg[o]
             /\ Accounts(o) => Accounts(o)'
  <2>1. o \in Ops /\ o # NoOp /\ o \notin Runs
    BY OpsAre
  <2>2. CASE lane' = lane
    BY <1>1, <2>1, <2>2 DEF Waiting, Accounts
  <2>3. CASE lane' = IdleLane
    BY <1>1, <2>1, <2>3 DEF Waiting, Accounts, IdleLane
  <2>4. CASE lane'.op = lane.op /\ lane.op \in Runs
    BY <1>1, <2>1, <2>4 DEF Waiting, Accounts
  <2> QED BY <2>2, <2>3, <2>4
<1> QED BY <1>1, <1>2, <1>3, <1>4 DEF Quiet

Elsewhere ==
    /\ process = "up" /\ process' = process /\ SameService /\ api' = api /\ owner' = owner /\ of' = of
    /\ alive' = alive /\ starter' = starter /\ stray' = stray

LEMMA TakeJobKeeps ==
    ASSUME Inv, TakeJob, Elsewhere, dispatched' = dispatched
    PROVE  Inv'
<1>1. /\ Registered /\ Serving /\ RegistryTyped /\ Remembered /\ InLane /\ Dispatching /\ RuntimeTyped
      /\ process = "up" /\ process' = "up"
  BY DEF Inv, Registered, Serving, Elsewhere
<1>2. /\ queue \in Seq(Ops) /\ lane \in Lanes /\ refused \subseteq Ops
      /\ dispatched' \in [Runs -> Nat]
      /\ lane.op = NoOp /\ lane.step = "idle" /\ queue # <<>>
      /\ queue' = Tail(queue) /\ order' = order
  BY <1>1 DEF RegistryTyped, RuntimeTyped, InLane, TakeJob
<1>3. PICK o \in Ops : o = Head(queue)
  BY <1>2, TailIn
<1>4. In(o, queue) /\ queue' \in Seq(Ops) /\ \A p : In(p, queue') => In(p, queue)
  BY <1>2, <1>3, TailIn
<1>5. reg[o] = OnDisk(o) /\ OnDisk(o) # "none"
  <2>1. OnDisk(o) # "none" /\ Remembers(o)
    BY <1>1, <1>4 DEF InLane, Remembered
  <2> QED BY <2>1 DEF Remembers
<1>6. CASE reg[o] = "queued" /\ Transition(o, "running")
           /\ lane' = [IdleLane EXCEPT !.op = o, !.step = "execute"]
  <2>1. "running" \in Started
    BY DEF Started
  <2>2. /\ Moved /\ \A p \in Ops \ {o} : Stays(p)
        /\ reg'[o] = "running" /\ OnDisk(o)' = "running"
    BY <1>1, <1>2, <1>5, <1>6, <2>1, TransitionMoves
  <2>3. /\ lane' \in Lanes /\ lane'.op = o /\ lane'.step = "execute"
    BY <1>6 DEF IdleLane, Lanes
  <2>4. Journalled(o, "started")'
    <3>1. Moves(o)
      BY <2>2 DEF Moved
    <3> QED BY <1>5, <1>6, <2>2, <3>1 DEF Moves, Stays, Taken, Ends, Enters, Aborts, Terminal
  <2>5. /\ \A p \in Ops : /\ OnDisk(p) # "none" => OnDisk(p)' # "none"
                          /\ OnDisk(p) \in Started => OnDisk(p)' \in Started
        /\ \A p, e : Journalled(p, e) => Journalled(p, e)'
    BY <1>1, <2>2, Kept
  <2>6. InLane'
    <3>1. \A p \in Ops : In(p, queue') => OnDisk(p)' # "none"
      BY <1>1, <1>4, <2>5 DEF InLane
    <3>2. o # NoOp
      BY OpsAre
    <3> QED BY <2>1, <2>2, <2>3, <3>1, <3>2 DEF InLane
  <2>7. Dispatching'
    <3>1. \A p \in Runs : dispatched'[p] > 0 =>
              /\ dispatched'[p] = 1 /\ OnDisk(p)' \in Started
              /\ Journalled(p, "started")' /\ Journalled(p, "provenance")'
      BY <1>1, <2>5, OpsAre DEF Dispatching
    <3>2. o \in Runs => dispatched'[o] = 0
      <4>1. OnDisk(o) \notin Started
        BY <1>5, <1>6 DEF Started, Terminal
      <4>2. o \in Runs => dispatched[o] \in Nat /\ ~(dispatched[o] > 0)
        BY <1>1, <4>1 DEF Dispatching, RuntimeTyped
      <4> QED BY <4>2
    <3> QED BY <2>3, <2>4, <3>1, <3>2 DEF Dispatching
  <2>8. Registered'
    BY <1>1, <1>4, <2>2, <2>3, <2>6, <2>7, RegistryKept
  <2>9. Quiet
    <3>1. \A p \in Ops : /\ reg'[p] \in Live => reg[p] \in Live
                         /\ reg[p] = "unknown" => reg'[p] = "unknown"
      BY <1>6, <2>2 DEF Stays, Live
    <3>2. Publishing' = Publishing /\ lane'.step # "publish"
      BY <1>2, <2>3 DEF Publishing
    <3>3. ASSUME NEW p \in Startups
          PROVE  /\ Waiting(p)' => Waiting(p) /\ (reg'[p] = reg[p] \/ reg'[p] \in Live)
                 /\ Accounts(p) => Accounts(p)'
      <4>1. p \in Ops /\ p # NoOp
        BY OpsAre
      <4>2. CASE p = o
        BY <1>4, <1>6, <2>2, <2>3, <4>2 DEF Waiting, Accounts, Live
      <4>3. CASE p # o
        <5>1. reg'[p] = reg[p] /\ OnDisk(p)' = OnDisk(p)
          BY <2>2, <4>1, <4>3 DEF Stays
        <5> QED BY <1>4, <2>3, <4>3, <5>1 DEF Waiting, Accounts
      <4> QED BY <4>2, <4>3
    <3> QED BY <3>1, <3>2, <3>3 DEF Quiet
  <2>10. Serving'
    BY <1>1, <1>2, <2>9, QuietServes DEF Elsewhere
  <2> QED BY <2>8, <2>10 DEF Inv
<1>7. CASE /\ journal' = journal /\ reg' = reg /\ told' = told /\ lane' = lane
           /\ refused \subseteq refused' /\ refused' \subseteq Ops
  <2>1. Moved /\ \A p \in Ops : Stays(p)
    BY <1>1, <1>2, <1>7, NothingMoved
  <2>2. /\ \A p \in Ops : OnDisk(p) \in Started => OnDisk(p)' \in Started
        /\ \A p \in Ops : OnDisk(p) # "none" => OnDisk(p)' # "none"
        /\ \A p, e : Journalled(p, e) => Journalled(p, e)'
    BY <1>1, <2>1, Kept
  <2>3. InLane'
    <3>1. \A p \in Ops : In(p, queue') => OnDisk(p)' # "none"
      BY <1>1, <1>4, <2>2 DEF InLane
    <3> QED BY <1>1, <1>7, <2>2, <3>1 DEF InLane
  <2>4. Dispatching'
    BY <1>1, <1>7, <2>2, OpsAre DEF Dispatching
  <2>5. Registered'
    BY <1>1, <1>2, <1>4, <1>7, <2>1, <2>3, <2>4, RegistryKept
  <2>6. Quiet
    BY <1>4, <1>7, <2>1, StaysQuiet
  <2>7. Serving'
    BY <1>1, <1>2, <2>6, QuietServes DEF Elsewhere
  <2> QED BY <2>5, <2>7 DEF Inv
<1>8. CASE reg[o] = "queued" /\ TransitionRefused(o) /\ lane' = lane
  <2>1. /\ Refused(o) /\ journal' = journal /\ reg' = reg /\ told' = told
    BY <1>8 DEF TransitionRefused
  <2>2. refused \subseteq refused' /\ refused' \subseteq Ops
    BY <1>2, <2>1, RefusedGrows
  <2> QED BY <1>7, <1>8, <2>1, <2>2
<1>9. CASE reg[o] # "queued" /\ UNCHANGED <<journal, reg, told, refused, lane>>
  BY <1>2, <1>7, <1>9
<1> QED BY <1>3, <1>6, <1>8, <1>9 DEF TakeJob

LEMMA RecordProvenanceKeeps ==
    ASSUME Inv, RecordProvenance, Elsewhere, dispatched' = dispatched
    PROVE  Inv'
<1>1. /\ Registered /\ Serving /\ RegistryTyped /\ RuntimeTyped
      /\ process = "up" /\ process' = "up"
  BY DEF Inv, Registered, Serving, Elsewhere
<1>2. /\ lane \in Lanes /\ refused \subseteq Ops /\ dispatched' \in [Runs -> Nat]
      /\ lane.step = "execute" /\ reg' = reg /\ order' = order /\ queue' = queue /\ told' = told
  BY <1>1 DEF RegistryTyped, RuntimeTyped, RecordProvenance
<1>3. PICK l \in Runs : lane.op = l
  BY DEF RecordProvenance
<1>4. l \in Ops
  BY OpsAre
<1>5. CASE /\ journal' = Append(journal, Record(l, "provenance"))
           /\ lane' = [lane EXCEPT !.step = "recorded"]
           /\ refused' = refused
  <2>1. Moved /\ (\A p \in Ops : Stays(p)) /\ Journalled(l, "provenance")'
    BY <1>1, <1>2, <1>4, <1>5, ProvenanceMoves
  <2>2. lane' \in Lanes /\ lane'.op = l /\ lane'.step = "recorded"
    BY <1>2, <1>3, <1>5 DEF Lanes
  <2>3. Registered'
    BY <1>1, <1>2, <1>3, <1>4, <2>1, <2>2, LaneAdvances
  <2>4. Quiet
    BY <1>2, <1>3, <2>1, <2>2, StaysQuiet
  <2>5. Serving'
    BY <1>1, <1>2, <2>4, QuietServes DEF Elsewhere
  <2> QED BY <2>3, <2>5 DEF Inv
<1>6. ASSUME journal' = journal, refused \subseteq refused', refused' \subseteq Ops,
             NEW outcome \in {"failed", "unknown"},
             lane' = [lane EXCEPT !.step = "settle", !.outcome = outcome]
      PROVE  Inv'
  <2>1. Moved /\ \A p \in Ops : Stays(p)
    BY <1>1, <1>2, <1>6, NothingMoved
  <2>2. /\ lane' \in Lanes /\ lane'.op = l /\ lane'.step = "settle" /\ lane'.outcome \in Terminal
    BY <1>2, <1>3, <1>6 DEF Lanes, Terminal
  <2>3. Registered'
    BY <1>1, <1>2, <1>3, <1>4, <2>1, <2>2, LaneAdvances
  <2>4. Quiet
    BY <1>2, <1>3, <2>1, <2>2, StaysQuiet
  <2>5. Serving'
    BY <1>1, <1>2, <2>4, QuietServes DEF Elsewhere
  <2> QED BY <2>3, <2>5 DEF Inv
<1>7. CASE /\ IF reg[l] = "running" THEN Refused(l) ELSE UNCHANGED refused
           /\ \E outcome \in {"failed", "unknown"} :
                 lane' = [lane EXCEPT !.step = "settle", !.outcome = outcome]
           /\ journal' = journal
  <2>1. refused \subseteq refused' /\ refused' \subseteq Ops
    BY <1>2, <1>4, <1>7, RefusedGrows
  <2> QED BY <1>6, <1>7, <2>1
<1> QED BY <1>3, <1>5, <1>7 DEF RecordProvenance

LEMMA SettleKeeps ==
    ASSUME Inv, Settle, Elsewhere, dispatched' = dispatched
    PROVE  Inv'
<1>1. /\ Registered /\ Serving /\ RegistryTyped /\ Remembered /\ InLane /\ RuntimeTyped
      /\ process = "up" /\ process' = "up"
  BY DEF Inv, Registered, Serving, Elsewhere
<1>2. /\ lane \in Lanes /\ refused \subseteq Ops /\ dispatched' \in [Runs -> Nat]
      /\ reg \in [Ops -> States]
      /\ lane.step = "settle" /\ lane' = IdleLane /\ order' = order /\ queue' = queue
  BY <1>1 DEF RegistryTyped, RuntimeTyped, Settle
<1>3. PICK l \in Ops : lane.op = l
  BY <1>1, <1>2 DEF InLane, Lanes
<1>4. OnDisk(l) \in Started /\ lane.outcome \in Terminal
  BY <1>1, <1>2, <1>3 DEF InLane
<1>5. lane' \in Lanes
  BY <1>2 DEF Lanes, IdleLane
<1>6. reg[l] = OnDisk(l)
  <2>1. Remembers(l)
    BY <1>1 DEF Remembered
  <2> QED BY <1>4, <2>1 DEF Remembers, Started, Terminal
<1>7. CASE reg[l] \notin Terminal /\ Transition(l, lane.outcome)
  <2>1. reg[l] = "running"
    BY <1>4, <1>6, <1>7 DEF Started
  <2>2. reg[l] \in Live /\ lane.outcome \in Started
    BY <1>4, <2>1 DEF Live, Started
  <2>3. /\ Moved /\ \A p \in Ops \ {l} : Stays(p)
        /\ reg'[l] = lane.outcome /\ OnDisk(l)' = lane.outcome
    BY <1>1, <1>2, <1>4, <1>6, <1>7, <2>2, TransitionMoves
  <2>4. Registered'
    BY <1>1, <1>2, <1>3, <1>5, <2>3, LaneAdvances
  <2>5. Quiet
    <3>1. \A p \in Ops : /\ reg'[p] \in Live => reg[p] \in Live
                         /\ reg[p] = "unknown" => reg'[p] = "unknown"
      BY <2>1, <2>2, <2>3 DEF Stays
    <3>2. Publishing' = Publishing /\ lane'.step # "publish"
      BY <1>2 DEF Publishing, IdleLane
    <3>3. ASSUME NEW p \in Startups
          PROVE  /\ Waiting(p)' => Waiting(p) /\ (reg'[p] = reg[p] \/ reg'[p] \in Live)
                 /\ Accounts(p) => Accounts(p)'
      <4>1. p \in Ops /\ p # NoOp
        BY OpsAre
      <4>2. CASE p = l
        BY <1>2, <1>3, <1>4, <2>3, <4>1, <4>2 DEF Waiting, Accounts, IdleLane, Terminal
      <4>3. CASE p # l
        <5>1. reg'[p] = reg[p] /\ OnDisk(p)' = OnDisk(p)
          BY <2>3, <4>1, <4>3 DEF Stays
        <5> QED BY <1>2, <4>1, <4>3, <5>1 DEF Waiting, Accounts, IdleLane
      <4> QED BY <4>2, <4>3
    <3> QED BY <3>1, <3>2, <3>3 DEF Quiet
  <2>6. Serving'
    BY <1>1, <1>2, <2>5, QuietServes DEF Elsewhere
  <2> QED BY <2>4, <2>6 DEF Inv
<1>8. CASE /\ journal' = journal /\ reg' = reg /\ told' = told
           /\ refused \subseteq refused' /\ refused' \subseteq Ops
  <2>1. Moved /\ \A p \in Ops : Stays(p)
    BY <1>1, <1>2, <1>8, NothingMoved
  <2>2. Registered'
    BY <1>1, <1>2, <1>3, <1>5, <2>1, LaneAdvances
  <2>3. Quiet
    BY <1>2, <2>1, StaysQuiet
  <2>4. Serving'
    BY <1>1, <1>2, <2>3, QuietServes DEF Elsewhere
  <2> QED BY <2>2, <2>4 DEF Inv
<1>9. CASE TransitionRefused(l)
  <2>1. /\ Refused(l) /\ journal' = journal /\ reg' = reg /\ told' = told
    BY <1>9 DEF TransitionRefused
  <2>2. refused \subseteq refused' /\ refused' \subseteq Ops
    BY <1>2, <2>1, RefusedGrows
  <2> QED BY <1>8, <2>1, <2>2
<1>10. CASE UNCHANGED <<journal, reg, told, refused>>
  BY <1>2, <1>8, <1>10
<1> QED BY <1>3, <1>7, <1>9, <1>10 DEF Settle

\* A run in the lane that is given an outcome.
LEMMA RunFailsKeeps ==
    ASSUME Inv, RunFails
    PROVE  Inv'
<1>1. /\ Registered /\ Serving /\ RegistryTyped /\ InLane /\ RuntimeTyped /\ Elsewhere
      /\ process = "up" /\ process' = "up" /\ LaneOnly /\ dispatched' = dispatched
      /\ lane.step \in {"execute", "recorded"}
  <2>1. Registered /\ Serving /\ RegistryTyped /\ InLane /\ RuntimeTyped
    BY DEF Inv, Registered, Serving
  <2>2. SameService
    BY <2>1, OnlyQuarantined DEF RunFails
  <2> QED BY <2>1, <2>2 DEF RunFails, Elsewhere
<1>2. PICK l \in Runs : lane.op = l
  BY DEF RunFails
<1>3. l \in Ops /\ lane \in Lanes /\ dispatched' \in [Runs -> Nat]
  BY <1>1, OpsAre DEF RegistryTyped, RuntimeTyped
<1>4. PICK outcome \in Terminal : lane' = [lane EXCEPT !.step = "settle", !.outcome = outcome]
  BY DEF RunFails, Outcome, Terminal
<1>5. lane' \in Lanes /\ lane'.op = l /\ lane'.step = "settle" /\ lane'.outcome \in Terminal
  BY <1>2, <1>3, <1>4 DEF Lanes
<1>6. Moved /\ (\A p \in Ops : Stays(p)) /\ queue' = queue
  BY <1>1, LaneOnlyMoves
<1>7. Registered'
  BY <1>1, <1>2, <1>3, <1>5, <1>6, LaneAdvances
<1>8. Quiet
  BY <1>1, <1>2, <1>5, <1>6, StaysQuiet
<1>9. Serving'
  BY <1>1, <1>3, <1>8, QuietServes DEF Elsewhere
<1> QED BY <1>7, <1>9 DEF Inv

LEMMA RunDispatchesKeeps ==
    ASSUME Inv, RunDispatches
    PROVE  Inv'
<1>1. /\ Registered /\ Serving /\ RegistryTyped /\ InLane /\ RuntimeTyped /\ Elsewhere
      /\ process = "up" /\ process' = "up" /\ LaneOnly
      /\ lane.step = "recorded" /\ lane \in Lanes
  <2>1. Registered /\ Serving /\ RegistryTyped /\ InLane /\ RuntimeTyped /\ lane \in Lanes
    BY DEF Inv, Registered, Serving, RegistryTyped
  <2>2. SameService
    BY <2>1, OnlyQuarantined DEF RunDispatches
  <2> QED BY <2>1, <2>2 DEF RunDispatches, Elsewhere
<1>2. PICK l \in Runs : lane.op = l
  BY <1>1 DEF InLane
<1>3. PICK outcome \in Terminal : lane' = [lane EXCEPT !.step = "settle", !.outcome = outcome]
  BY DEF RunDispatches, Outcome, Terminal
<1>4. lane'.op = l /\ lane'.step = "settle"
  BY <1>1, <1>2, <1>3 DEF Lanes
<1>5. Registered' /\ dispatched' \in [Runs -> Nat]
  BY <1>1, RunDispatchesRegisters DEF RuntimeTyped
<1>6. Moved /\ (\A p \in Ops : Stays(p)) /\ queue' = queue
  BY <1>1, LaneOnlyMoves
<1>7. Quiet
  BY <1>1, <1>2, <1>4, <1>6, StaysQuiet
<1>8. Serving'
  BY <1>1, <1>5, <1>7, QuietServes DEF Elsewhere
<1> QED BY <1>5, <1>8 DEF Inv

-----------------------------------------------------------------------------
(* Steps of the service.                                                   *)

Settles == \A o \in Ops : Stays(o) \/ reg'[o] \in Terminal
NobodyWaits == \A o \in Startups : ~Waiting(o)

\* When no startup may still start a runtime.
LEMMA WhenNobodyWaits ==
    ASSUME OneStartup, InLane, process = "up",
           \/ svc.runtime # 0 \/ svc.orphan # 0 \/ api # 0
           \/ svc.request \notin Startups
           \/ svc.request \in Startups /\ reg[svc.request] \notin Live
    PROVE  NobodyWaits /\ Publishing = 0 /\ lane.step # "publish"
<1>1. NobodyWaits
  BY DEF NobodyWaits, OneStartup
<1>2. lane.step # "publish"
  BY <1>1 DEF NobodyWaits, InLane, Waiting
<1> QED BY <1>1, <1>2 DEF Publishing

LEMMA OneStartupKept ==
    ASSUME OneStartup, InLane, process = "up", NobodyWaits, Settles, queue' = queue, lane' = lane
    PROVE  OneStartup' /\ Publishing' = 0
<1>1. lane.step # "publish"
  BY DEF NobodyWaits, InLane, Waiting
<1>2. \A o \in Startups : o \in Ops /\ (reg'[o] \in Live => reg[o] \in Live)
                          /\ (reg'[o] = "queued" => reg[o] = "queued")
  BY OpsAre DEF Settles, Stays, Live, Terminal
<1>3. \A o \in Startups : ~Waiting(o)'
  BY <1>2 DEF NobodyWaits, Waiting
<1>4. \A o, p \in Startups : reg'[o] \in Live /\ reg'[p] \in Live => o = p
  BY <1>2 DEF OneStartup
<1>5. OneStartup'
  BY <1>1, <1>3, <1>4 DEF OneStartup
<1> QED BY <1>1, <1>5 DEF Publishing

LEMMA AbortKept ==
    ASSUME AbortCoversGeneration, process = "up", Settles, of' = of,
           svc.runtime = 0 \/ svc'.runtime = svc.runtime
    PROVE  AbortCoversGeneration'
<1>1. \A o \in Runs : reg'[o] \in Live => reg[o] \in Live
  BY OpsAre DEF Settles, Stays, Live, Terminal
<1> QED BY <1>1 DEF AbortCoversGeneration

LEMMA StaysSettles == ASSUME \A o \in Ops : Stays(o) PROVE Settles
BY DEF Settles

\* A backend that somebody holds is the only one.
LEMMA Only ==
    ASSUME Held, NEW b, b # 0, b \in {svc.runtime, svc.pending, svc.orphan, api, Publishing, owner}
    PROVE  b \in Known /\ Known = {b}
BY DEF Held

\* Without a holder there is no backend, unless the startup of one is unknown.
LEMMA OnlyPending ==
    ASSUME RuntimeTyped, Held, Handed, process = "up", svc.runtime = 0, svc.orphan = 0, api = 0, Publishing = 0,
           svc.request \notin Unknowns \/ svc.pending # 0
    PROVE  Known \subseteq {svc.pending} /\ owner = 0
<1>1. owner = 0
  BY DEF Held
<1>2. CASE svc.pending # 0
  BY <1>1, <1>2, Only
<1>3. CASE svc.pending = 0
  <2>1. ASSUME NEW b \in Known PROVE FALSE
    <3>1. b # 0
      BY DEF RuntimeTyped, Known
    <3>2. Answerable(b) /\ Unheld
      BY <1>1, <1>3, <3>1 DEF Handed, Unheld
    <3> QED BY <1>3, <3>2 DEF Answerable
  <2> QED BY <1>1, <2>1
<1> QED BY <1>2, <1>3

\* No backend is left.
LEMMA Vacant ==
    ASSUME process' = "up", Known' = {}, svc'.runtime = 0, svc'.pending = 0, svc'.orphan = 0,
           api' = 0, Publishing' = 0, owner' = 0
    PROVE  Exclusive' /\ Held' /\ Handed'
<1>1. Exclusive'
  BY DEF Exclusive
<1>2. Held'
  BY DEF Held
<1>3. Handed'
  BY DEF Handed
<1> QED BY <1>1, <1>2, <1>3

\* A new backend, and what becomes of the types.
LEMMA NewBackend ==
    ASSUME RuntimeTyped, ~Spent, NEW o \in Startups \cup {NoOp}, starter' = Append(starter, o),
           NEW live, live \subseteq alive, live \ stray = {}, alive' = live \cup {Next1}, stray' = stray
    PROVE  /\ Next1 \in Backends /\ Next1 # 0
           /\ starter' \in Seq(Startups \cup {NoOp}) /\ Len(starter') <= MaxBackend
           /\ alive' \subseteq 1 .. Len(starter') /\ stray' \subseteq 1 .. Len(starter')
           /\ Known' = {Next1} /\ starter'[Next1] = o
<1>1. /\ starter \in Seq(Startups \cup {NoOp}) /\ alive \subseteq 1 .. Len(starter)
      /\ stray \subseteq 1 .. Len(starter)
  BY DEF RuntimeTyped
<1>2. /\ Len(starter) \in Nat /\ starter' \in Seq(Startups \cup {NoOp})
      /\ Len(starter') = Len(starter) + 1 /\ starter'[Len(starter) + 1] = o
  BY <1>1, AppendProperties, LenProperties
<1>3. Len(starter) < MaxBackend /\ MaxBackend \in Nat
  BY <1>2, MaxBackendAssumption DEF Spent
<1>4. Next1 = Len(starter) + 1 /\ Next1 \in Backends /\ Next1 # 0 /\ Len(starter') <= MaxBackend
  <2>1. Next1 = Len(starter) + 1 /\ Backends = 1 .. MaxBackend
    BY DEF Next1, Backends
  <2>2. Len(starter) + 1 \in 1 .. MaxBackend
    BY <1>2, <1>3
  <2> QED BY <1>2, <2>1, <2>2
<1>5. alive' \subseteq 1 .. Len(starter') /\ stray' \subseteq 1 .. Len(starter')
  <2>1. 1 .. Len(starter) \subseteq 1 .. Len(starter') /\ Len(starter) + 1 \in 1 .. Len(starter')
    BY <1>2
  <2>2. Next1 \in 1 .. Len(starter')
    BY <1>4, <2>1
  <2> QED BY <1>1, <2>1, <2>2
<1>6. Next1 \notin stray
  BY <1>1, <1>2, <1>4
<1>7. Known' = {Next1}
  BY <1>6 DEF Known
<1> QED BY <1>2, <1>4, <1>5, <1>7

\* A start after which there is the new backend, or none.
LEMMA StartBackendServes ==
    ASSUME RuntimeTyped, process = "up", process' = "up", api = 0, Publishing' = 0, owner' = 0,
           NEW service \in Services, service.runtime = 0, service.pending = 0, service.orphan = 0,
           NEW live, live \subseteq alive, live \ stray = {}, StartBackend(service, live),
           stray' = stray, of' = of, dispatched' = dispatched
    PROVE  RuntimeTyped' /\ Exclusive' /\ Held' /\ Handed' /\ svc'.runtime = 0
<1>1. /\ of \in [Runs -> Backends \cup {0}] /\ dispatched \in [Runs -> Nat]
      /\ starter \in Seq(Startups \cup {NoOp}) /\ Len(starter) <= MaxBackend
      /\ alive \subseteq 1 .. Len(starter) /\ stray \subseteq 1 .. Len(starter)
  BY DEF RuntimeTyped
<1>2. CASE svc' = service /\ alive' = live /\ UNCHANGED <<api, starter>>
  <2>1. Known' = {}
    BY <1>2 DEF Known
  <2>2. RuntimeTyped'
    BY <1>1, <1>2 DEF RuntimeTyped
  <2> QED BY <1>2, <2>1, <2>2, Vacant
<1>3. CASE /\ ~Spent
           /\ alive' = live \cup {Next1} /\ starter' = Append(starter, NoOp)
           /\ \/ api' = Next1 /\ svc' = service
              \/ svc' = [service EXCEPT !.pending = Next1] /\ UNCHANGED api
  <2>1. /\ Next1 \in Backends /\ Next1 # 0
        /\ starter' \in Seq(Startups \cup {NoOp}) /\ Len(starter') <= MaxBackend
        /\ alive' \subseteq 1 .. Len(starter') /\ stray' \subseteq 1 .. Len(starter')
        /\ Known' = {Next1} /\ starter'[Next1] = NoOp
    BY <1>3, NewBackend
  <2> DEFINE n == Next1
  <2> HIDE DEF n
  <2>2. /\ svc' \in Services /\ svc'.runtime = 0 /\ svc'.orphan = 0
        /\ \/ api' = n /\ svc'.pending = 0
           \/ api' = 0 /\ svc'.pending = n
    BY <1>3, <2>1 DEF Services, n
  <2>3. RuntimeTyped'
    <3>1. api' \in Backends \cup {0} /\ owner' \in Backends \cup {0}
      BY <2>1, <2>2 DEF n
    <3>2. of' \in [Runs -> Backends \cup {0}] /\ dispatched' \in [Runs -> Nat]
      BY <1>1
    <3> QED BY <2>1, <2>2, <3>1, <3>2 DEF RuntimeTyped
  <2>4. Known' = {n} /\ n # 0
    BY <2>1 DEF n
  <2>5. Exclusive'
    BY <2>2, <2>4 DEF Exclusive
  <2>6. Held'
    BY <2>2, <2>4 DEF Held
  <2>7. Handed'
    <3> SUFFICES ASSUME NEW b \in Known' PROVE Answerable(b)'
      BY DEF Handed
    <3>1. b = n /\ starter'[b] = NoOp
      BY <2>1, <2>4 DEF n
    <3>2. \A o \in Startups : starter'[b] # o
      BY <3>1, OpsAre DEF Ops
    <3>3. ~Unheld'
      BY <2>2, <2>4 DEF Unheld
    <3>4. b \in {svc'.runtime, svc'.pending, api'}
      BY <2>2, <3>1
    <3> QED BY <3>1, <3>2, <3>3, <3>4 DEF Answerable
  <2> QED BY <2>2, <2>3, <2>5, <2>6, <2>7
<1> QED BY <1>2, <1>3 DEF StartBackend

LEMMA RuntimeStartKeeps == ASSUME Inv, RuntimeStart PROVE Inv'
<1>1. /\ Registered /\ RegistryTyped /\ InLane /\ RuntimeTyped /\ OneStartup /\ Exclusive /\ Held
      /\ Handed /\ AbortCoversGeneration
  BY DEF Inv, Registered, Serving
<1>2. /\ process = "up" /\ api = 0 /\ svc.orphan = 0 /\ svc.runtime = 0 /\ RequestSettled
      /\ UNCHANGED registryVars /\ owner' = owner /\ of' = of /\ UNCHANGED processVars
      /\ stray' = stray /\ dispatched' = dispatched
  BY DEF RuntimeStart, Call
<1> DEFINE service == [svc EXCEPT !.request = NoOp, !.pending = 0]
           live == alive \ {svc.pending}
<1>3. StartBackend(service, live)
  BY DEF RuntimeStart
<1>4. Moved /\ \A o \in Ops : Stays(o)
  BY <1>1, <1>2, NothingMoved DEF RegistryTyped
<1>5. Registered'
  BY <1>1, <1>2, <1>4, LaneKept
<1>6. svc.request \notin Unknowns /\ (svc.request \in Startups => reg[svc.request] \notin Live)
  BY <1>2, OpsAre DEF RequestSettled, Unknowns, Live, Ops
<1>7. NobodyWaits /\ Publishing = 0
  BY <1>1, <1>2, <1>6, WhenNobodyWaits
<1>8. Settles
  BY <1>4, StaysSettles
<1>9. OneStartup' /\ Publishing' = 0
  BY <1>1, <1>2, <1>7, <1>8, OneStartupKept
<1>10. Known \subseteq {svc.pending} /\ owner = 0
  BY <1>1, <1>2, <1>6, <1>7, OnlyPending
<1>11. service \in Services /\ service.runtime = 0 /\ service.pending = 0 /\ service.orphan = 0
  BY <1>1, <1>2 DEF RuntimeTyped, Services
<1>12. live \subseteq alive /\ live \ stray = {}
  BY <1>10 DEF Known
<1> HIDE DEF service, live
<1>13. RuntimeTyped' /\ Exclusive' /\ Held' /\ Handed' /\ svc'.runtime = 0
  BY <1>1, <1>2, <1>3, <1>9, <1>10, <1>11, <1>12, StartBackendServes
<1>14. AbortCoversGeneration'
  BY <1>1, <1>2, <1>8, AbortKept
<1> QED BY <1>5, <1>9, <1>13, <1>14 DEF Inv, Serving

LEMMA RestartOverOrphanKeeps == ASSUME Inv, RestartOverOrphan PROVE Inv'
<1>1. /\ Registered /\ RegistryTyped /\ InLane /\ RuntimeTyped /\ OneStartup /\ Exclusive /\ Held
      /\ Handed /\ AbortCoversGeneration
  BY DEF Inv, Registered, Serving
<1>2. /\ process = "up" /\ api = 0 /\ svc.orphan # 0 /\ svc.runtime = 0 /\ svc.pending = 0
      /\ UNCHANGED registryVars /\ owner' = 0 /\ of' = of /\ UNCHANGED processVars
      /\ stray' = stray /\ dispatched' = dispatched
  BY <1>1 DEF RestartOverOrphan, Call, Exclusive
<1> DEFINE service == [svc EXCEPT !.orphan = 0]
           live == alive \ {svc.orphan}
<1>3. StartBackend(service, live)
  BY DEF RestartOverOrphan
<1>4. Moved /\ \A o \in Ops : Stays(o)
  BY <1>1, <1>2, NothingMoved DEF RegistryTyped
<1>5. Registered'
  BY <1>1, <1>2, <1>4, LaneKept
<1>6. NobodyWaits
  BY <1>1, <1>2, WhenNobodyWaits
<1>7. Settles
  BY <1>4, StaysSettles
<1>8. OneStartup' /\ Publishing' = 0
  BY <1>1, <1>2, <1>6, <1>7, OneStartupKept
<1>9. Known = {svc.orphan}
  BY <1>1, <1>2, Only
<1>10. service \in Services /\ service.runtime = 0 /\ service.pending = 0 /\ service.orphan = 0
  BY <1>1, <1>2 DEF RuntimeTyped, Services
<1>11. live \subseteq alive /\ live \ stray = {}
  BY <1>9 DEF Known
<1> HIDE DEF service, live
<1>12. RuntimeTyped' /\ Exclusive' /\ Held' /\ Handed' /\ svc'.runtime = 0
  BY <1>1, <1>2, <1>3, <1>8, <1>10, <1>11, StartBackendServes
<1>13. AbortCoversGeneration'
  BY <1>1, <1>2, <1>7, AbortKept
<1> QED BY <1>5, <1>8, <1>12, <1>13 DEF Inv, Serving

\* The service holds what it held.
LEMMA HoldersKept ==
    ASSUME Serving, InLane, process = "up", process' = "up", svc' \in Services,
           svc'.runtime = svc.runtime, svc'.pending = svc.pending, svc'.orphan = svc.orphan,
           svc'.request = svc.request \/ svc.runtime # 0,
           api' = api, owner' = owner, of' = of, UNCHANGED targetVars,
           queue' = queue, lane' = lane, NobodyWaits, Settles, \A o \in Startups : Stays(o)
    PROVE  Serving'
<1>1. /\ RuntimeTyped /\ OneStartup /\ Exclusive /\ Held /\ Handed /\ AbortCoversGeneration
  BY DEF Serving
<1>2. OneStartup' /\ Publishing' = Publishing
  BY <1>1, OneStartupKept DEF Publishing
<1>3. \A o \in Startups : /\ reg[o] = "unknown" => reg'[o] = "unknown"
                          /\ Accounts(o) => Accounts(o)'
  BY DEF Stays, Accounts
<1>4. of' \in [Runs -> Backends \cup {0}] /\ dispatched' \in [Runs -> Nat]
  BY <1>1 DEF RuntimeTyped
<1>5. RuntimeTyped' /\ Exclusive' /\ Held' /\ Handed'
  BY <1>1, <1>2, <1>3, <1>4, HoldersServe DEF Unheld
<1>6. AbortCoversGeneration'
  BY <1>1, AbortKept
<1> QED BY <1>2, <1>5, <1>6 DEF Serving

LEMMA AbandonMoves ==
    ASSUME Registered, process = "up", NEW o \in Startups, reg[o] = "unknown", order' = order,
           Transition(o, "failed") \/ TransitionRefused(o)
    PROVE  Moved /\ Settles
<1>1. RegistryTyped /\ Remembered /\ o \in Ops /\ o \notin Runs /\ refused \subseteq Ops
  BY OpsAre DEF Registered, RegistryTyped
<1>2. reg[o] = OnDisk(o)
  <2>1. Remembers(o)
    BY <1>1 DEF Remembered
  <2> QED BY <1>1, <2>1 DEF Remembers, Forgettable
<1>3. CASE Transition(o, "failed")
  <2>1. "failed" \in Started /\ "failed" \in Terminal
    BY DEF Started, Terminal
  <2>2. Moved /\ (\A p \in Ops \ {o} : Stays(p)) /\ reg'[o] = "failed"
    BY <1>1, <1>2, <1>3, <2>1, TransitionMoves
  <2> QED BY <2>1, <2>2 DEF Settles
<1>4. CASE TransitionRefused(o)
  <2>1. refused \subseteq refused' /\ refused' \subseteq Ops
    BY <1>1, <1>4, RefusedGrows DEF TransitionRefused
  <2>2. Moved /\ \A p \in Ops : Stays(p)
    BY <1>1, <1>4, <2>1, NothingMoved DEF TransitionRefused
  <2> QED BY <2>2 DEF Settles
<1> QED BY <1>3, <1>4

LEMMA RestartOverUnknownKeeps == ASSUME Inv, RestartOverUnknown PROVE Inv'
<1>1. /\ Registered /\ RegistryTyped /\ InLane /\ RuntimeTyped /\ OneStartup /\ Exclusive /\ Held
      /\ Handed /\ AbortCoversGeneration
  BY DEF Inv, Registered, Serving
<1>2. /\ process = "up" /\ api = 0 /\ svc.orphan = 0 /\ svc.runtime = 0 /\ svc.pending # 0
      /\ order' = order /\ queue' = queue /\ lane' = lane
      /\ owner' = owner /\ of' = of /\ process' = process
      /\ stray' = stray /\ dispatched' = dispatched
  BY DEF RestartOverUnknown, Call
<1>3. PICK o \in Startups : o = svc.request /\ reg[o] = "unknown"
  BY DEF RestartOverUnknown, Unknowns
<1> DEFINE service == [svc EXCEPT !.pending = 0, !.request = NoOp]
           live == alive \ {svc.pending}
<1>4. \/ Transition(o, "failed") /\ StartBackend(service, live)
      \/ /\ TransitionRefused(o)
         /\ svc' = [svc EXCEPT !.pending = 0] /\ alive' = live /\ UNCHANGED <<api, starter>>
  BY <1>3 DEF RestartOverUnknown
<1>5. Moved /\ Settles
  BY <1>1, <1>2, <1>3, <1>4, AbandonMoves
<1>6. Registered'
  BY <1>1, <1>2, <1>5, LaneKept
<1>7. NobodyWaits /\ Publishing = 0
  BY <1>1, <1>2, <1>3, WhenNobodyWaits DEF Live
<1>8. OneStartup' /\ Publishing' = 0
  BY <1>1, <1>2, <1>5, <1>7, OneStartupKept
<1>9. Known \subseteq {svc.pending} /\ owner = 0
  BY <1>1, <1>2, <1>7, OnlyPending
<1>10. service \in Services /\ service.runtime = 0 /\ service.pending = 0 /\ service.orphan = 0
  BY <1>1, <1>2 DEF RuntimeTyped, Services
<1>11. live \subseteq alive /\ live \ stray = {}
  BY <1>9 DEF Known
<1>12. AbortCoversGeneration'
  BY <1>1, <1>2, <1>5, AbortKept
<1> HIDE DEF service
<1>13. CASE StartBackend(service, live)
  <2> HIDE DEF live
  <2>1. RuntimeTyped' /\ Exclusive' /\ Held' /\ Handed'
    BY <1>1, <1>2, <1>8, <1>9, <1>10, <1>11, <1>13, StartBackendServes
  <2> QED BY <1>6, <1>8, <1>12, <2>1 DEF Inv, Serving
<1>14. CASE svc' = [svc EXCEPT !.pending = 0] /\ alive' = live /\ UNCHANGED <<api, starter>>
  <2>1. /\ svc' \in Services /\ svc'.runtime = 0 /\ svc'.pending = 0 /\ svc'.orphan = 0
    BY <1>1, <1>2, <1>14 DEF RuntimeTyped, Services
  <2>2. RuntimeTyped'
    BY <1>1, <1>2, <1>14, <2>1 DEF RuntimeTyped
  <2>3. Known' = {}
    BY <1>2, <1>11, <1>14 DEF Known
  <2>4. Exclusive' /\ Held' /\ Handed'
    BY <1>2, <1>8, <1>9, <1>14, <2>1, <2>3, Vacant
  <2> QED BY <1>6, <1>8, <1>12, <2>2, <2>4 DEF Inv, Serving
<1> QED BY <1>4, <1>13, <1>14

\* The runs of the runtime are aborted, all of them or up to the refused record.
LEMMA RuntimeAborted ==
    ASSUME Registered, process = "up", RuntimeTyped, AbortCoversGeneration, order' = order,
           MarkAborted(RunsOf(svc.runtime)) \/ MarkAbortedRefused(RunsOf(svc.runtime))
    PROVE  /\ Moved /\ Settles /\ \A o \in Startups : Stays(o)
           /\ MarkAborted(RunsOf(svc.runtime)) => \A o \in Runs : reg'[o] \notin Live
<1>1. RegistryTyped /\ Remembered
  BY DEF Registered
<1> DEFINE runs == RunsOf(svc.runtime)
<1>2. runs \subseteq Runs /\ \A o \in Runs : reg[o] \in Live => o \in runs
  BY DEF RunsOf, AbortCoversGeneration
<1>3. MarkAborted(runs) \/ MarkAbortedRefused(runs)
  OBVIOUS
<1> HIDE DEF runs
<1>4. /\ Moved
      /\ \A o \in Ops : Stays(o) \/ (o \in Runs /\ reg'[o] = "unknown")
      /\ MarkAborted(runs) => \A o \in runs : reg'[o] \notin Live
  BY <1>1, <1>2, <1>3, GenerationAborted
<1>5. Settles /\ \A o \in Startups : Stays(o)
  BY <1>4, OpsAre DEF Settles, Terminal
<1>6. ASSUME MarkAborted(runs), NEW o \in Runs PROVE reg'[o] \notin Live
  <2>1. CASE o \in runs
    BY <1>4, <1>6, <2>1
  <2>2. CASE o \notin runs
    <3>1. reg[o] \notin Live /\ (Stays(o) \/ reg'[o] = "unknown")
      BY <1>2, <1>4, <2>2, OpsAre
    <3> QED BY <3>1 DEF Stays, Live
  <2> QED BY <2>1, <2>2
<1> QED BY <1>4, <1>5, <1>6 DEF runs

LEMMA CloseFailsKeeps ==
    ASSUME Inv, process = "up", svc.runtime # 0, NEW service \in Services,
           service.runtime = svc.runtime, service.pending = svc.pending,
           service.orphan = svc.orphan, service.request = svc.request,
           CloseFails(service), UNCHANGED <<order, queue, lane, of, processVars, stray, dispatched>>
    PROVE  Inv'
<1>1. /\ Registered /\ Serving /\ InLane /\ RuntimeTyped /\ OneStartup /\ AbortCoversGeneration
  BY DEF Inv, Registered, Serving
<1>2. /\ MarkAborted(RunsOf(svc.runtime)) \/ MarkAbortedRefused(RunsOf(svc.runtime))
      /\ svc' = [service EXCEPT !.closing = TRUE]
      /\ owner' = owner /\ api' = api /\ alive' = alive /\ starter' = starter
  BY DEF CloseFails
<1>3. Moved /\ Settles /\ \A o \in Startups : Stays(o)
  BY <1>1, <1>2, RuntimeAborted
<1>4. Registered'
  BY <1>1, <1>3, LaneKept
<1>5. NobodyWaits
  BY <1>1, WhenNobodyWaits
<1>6. /\ svc' \in Services /\ svc'.runtime = svc.runtime /\ svc'.pending = svc.pending
      /\ svc'.orphan = svc.orphan /\ svc'.request = svc.request
  BY <1>2 DEF Services
<1>7. Serving'
  BY <1>1, <1>2, <1>3, <1>5, <1>6, HoldersKept
<1> QED BY <1>4, <1>7 DEF Inv

LEMMA RuntimeCloseKeeps ==
    ASSUME Inv, process = "up", api = 0, NEW service \in Services,
           service.runtime = svc.runtime, service.pending = svc.pending,
           service.orphan = svc.orphan, service.request = svc.request,
           RuntimeClose(service)
    PROVE  Inv'
<1>1. /\ Registered /\ InLane /\ RuntimeTyped /\ OneStartup /\ Exclusive /\ Held
      /\ AbortCoversGeneration
  BY DEF Inv, Registered, Serving
<1>2. /\ svc.runtime # 0 /\ process' = process
      /\ UNCHANGED <<order, queue, lane, of, processVars, stray, dispatched>>
  BY DEF RuntimeClose
<1>3. CASE /\ MarkAborted(RunsOf(svc.runtime))
           /\ owner' = 0 /\ alive' = alive \ {svc.runtime}
           /\ svc' = [service EXCEPT !.runtime = 0, !.closing = FALSE]
           /\ UNCHANGED <<api, starter>>
  <2>1. /\ Moved /\ Settles /\ \A o \in Runs : reg'[o] \notin Live
    BY <1>1, <1>2, <1>3, RuntimeAborted
  <2>2. Registered'
    BY <1>1, <1>2, <2>1, LaneKept
  <2>3. NobodyWaits
    BY <1>1, <1>2, WhenNobodyWaits
  <2>4. OneStartup' /\ Publishing' = 0
    BY <1>1, <1>2, <2>1, <2>3, OneStartupKept
  <2>5. /\ svc' \in Services /\ svc'.runtime = 0 /\ svc'.pending = 0 /\ svc'.orphan = 0
    BY <1>1, <1>2, <1>3 DEF Services, Exclusive
  <2>6. Known' = {}
    <3>1. Known = {svc.runtime}
      BY <1>1, <1>2, Only
    <3> QED BY <1>2, <1>3, <3>1 DEF Known
  <2>7. RuntimeTyped'
    <3>1. alive' \subseteq alive /\ owner' \in Backends \cup {0} /\ api' \in Backends \cup {0}
      BY <1>1, <1>3 DEF RuntimeTyped
    <3> QED BY <1>1, <1>2, <1>3, <2>5, <3>1 DEF RuntimeTyped
  <2>8. Exclusive' /\ Held' /\ Handed'
    BY <1>2, <1>3, <2>4, <2>5, <2>6, Vacant
  <2>9. AbortCoversGeneration'
    BY <2>1 DEF AbortCoversGeneration
  <2> QED BY <2>2, <2>4, <2>7, <2>8, <2>9 DEF Inv, Serving
<1>4. CASE CloseFails(service)
  BY <1>2, <1>4, CloseFailsKeeps
<1> QED BY <1>3, <1>4 DEF RuntimeClose

LEMMA RestartOverRuntimeKeeps == ASSUME Inv, RestartOverRuntime PROVE Inv'
<1>1. /\ Registered /\ InLane /\ RuntimeTyped /\ OneStartup /\ Exclusive /\ Held
      /\ AbortCoversGeneration /\ svc \in Services
  BY DEF Inv, Registered, Serving, RuntimeTyped
<1>2. /\ process = "up" /\ api = 0 /\ svc.orphan = 0 /\ svc.runtime # 0
      /\ UNCHANGED <<order, queue, lane, of, processVars, stray, dispatched>>
  BY DEF RestartOverRuntime, Call
<1> DEFINE live == alive \ {svc.runtime}
<1>3. CASE MarkAborted(RunsOf(svc.runtime)) /\ owner' = 0 /\ StartBackend(Closed, live)
  <2>1. /\ Moved /\ Settles /\ \A o \in Runs : reg'[o] \notin Live
    BY <1>1, <1>2, <1>3, RuntimeAborted
  <2>2. Registered'
    BY <1>1, <1>2, <2>1, LaneKept
  <2>3. NobodyWaits
    BY <1>1, <1>2, WhenNobodyWaits
  <2>4. OneStartup' /\ Publishing' = 0
    BY <1>1, <1>2, <2>1, <2>3, OneStartupKept
  <2>5. /\ Closed \in Services /\ Closed.runtime = 0 /\ Closed.pending = 0 /\ Closed.orphan = 0
    BY <1>1, <1>2 DEF Closed, Services, Exclusive
  <2>6. live \subseteq alive /\ live \ stray = {}
    <3>1. Known = {svc.runtime}
      BY <1>1, <1>2, Only
    <3> QED BY <3>1 DEF Known
  <2> HIDE DEF live
  <2>7. RuntimeTyped' /\ Exclusive' /\ Held' /\ Handed'
    BY <1>1, <1>2, <1>3, <2>4, <2>5, <2>6, StartBackendServes
  <2>8. AbortCoversGeneration'
    BY <2>1 DEF AbortCoversGeneration
  <2> QED BY <2>2, <2>4, <2>7, <2>8 DEF Inv, Serving
<1>4. CASE CloseFails(svc)
  BY <1>1, <1>2, <1>4, CloseFailsKeeps
<1> QED BY <1>3, <1>4 DEF RestartOverRuntime

\* The registry after a step that leaves it alone.
LEMMA RegistryAlone ==
    ASSUME Registered, process = "up", process' = "up", UNCHANGED registryVars, dispatched' = dispatched
    PROVE  Registered' /\ Settles /\ \A o \in Ops : Stays(o)
<1>1. Moved /\ \A o \in Ops : Stays(o)
  BY NothingMoved DEF Registered, RegistryTyped
<1>2. Registered'
  BY <1>1, LaneKept
<1> QED BY <1>1, <1>2, StaysSettles

LEMMA EnsureReadyKeeps == ASSUME Inv, EnsureReady PROVE Inv'
<1>1. /\ Registered /\ Serving /\ InLane /\ OneStartup /\ RuntimeTyped
      /\ process = "up" /\ process' = "up" /\ svc.runtime # 0
      /\ svc' = [svc EXCEPT !.request = NoOp]
      /\ UNCHANGED <<registryVars, api, owner, of, processVars, targetVars>>
  BY DEF Inv, Registered, Serving, EnsureReady, Call
<1>2. Registered' /\ Settles /\ \A o \in Startups : Stays(o)
  BY <1>1, RegistryAlone, OpsAre
<1>3. NobodyWaits
  BY <1>1, WhenNobodyWaits
<1>4. /\ svc' \in Services /\ svc'.runtime = svc.runtime /\ svc'.pending = svc.pending
      /\ svc'.orphan = svc.orphan
  BY <1>1 DEF RuntimeTyped, Services
<1>5. Serving'
  BY <1>1, <1>2, <1>3, <1>4, HoldersKept
<1> QED BY <1>2, <1>5 DEF Inv

\* A backend becomes the runtime, in the ownership file or as one that is closing.
LEMMA RuntimeHeld ==
    ASSUME RuntimeTyped, process' = "up", NEW b, b # 0, Known' = {b}, svc'.runtime = b,
           svc'.pending = 0, svc'.orphan = 0, api' = 0, Publishing' = 0,
           owner' = b \/ (owner' = 0 /\ \A o \in Startups : starter'[b] = o => Accounts(o)')
    PROVE  Exclusive' /\ Held' /\ Handed'
<1>1. Exclusive'
  BY DEF Exclusive
<1>2. Held'
  BY DEF Held
<1>3. Handed'
  <2> SUFFICES ASSUME NEW c \in Known' \ {owner'} PROVE Answerable(c)'
    BY DEF Handed
  <2>1. c = b /\ owner' = 0
    BY DEF Answerable
  <2>2. \A o \in Startups : starter'[c] = o => Accounts(o)'
    BY <2>1
  <2>3. c \in {svc'.runtime, svc'.pending, api'} /\ ~Unheld'
    BY <2>1 DEF Unheld
  <2> QED BY <2>2, <2>3 DEF Answerable
<1> QED BY <1>1, <1>2, <1>3

LEMMA StartPublishesKeeps == ASSUME Inv, StartPublishes PROVE Inv'
<1>1. /\ Registered /\ InLane /\ RuntimeTyped /\ OneStartup /\ Exclusive /\ Held /\ Handed
      /\ AbortCoversGeneration /\ svc \in Services /\ api \in Backends \cup {0}
  BY DEF Inv, Registered, Serving, RuntimeTyped
<1>2. /\ process = "up" /\ process' = "up" /\ api # 0 /\ api' = 0
      /\ UNCHANGED registryVars /\ of' = of /\ UNCHANGED processVars
      /\ starter' = starter /\ stray' = stray /\ dispatched' = dispatched
  BY DEF StartPublishes
<1>3. Registered' /\ Settles /\ \A o \in Ops : Stays(o)
  BY <1>1, <1>2, RegistryAlone
<1>4. NobodyWaits
  BY <1>1, <1>2, WhenNobodyWaits
<1>5. OneStartup' /\ Publishing' = 0
  BY <1>1, <1>2, <1>3, <1>4, OneStartupKept
<1>6. svc.runtime = 0 /\ svc.pending = 0 /\ svc.orphan = 0 /\ owner = 0
  BY <1>1, <1>2 DEF Exclusive, Held
<1>7. Known = {api}
  BY <1>1, <1>2, Only
<1>8. AbortCoversGeneration'
  BY <1>1, <1>2, <1>3, <1>6, AbortKept
<1>9. CASE alive' = alive \ {api} /\ UNCHANGED <<owner, svc>>
  <2>1. Known' = {}
    BY <1>2, <1>7, <1>9 DEF Known
  <2>2. Exclusive' /\ Held' /\ Handed'
    BY <1>2, <1>5, <1>6, <1>9, <2>1, Vacant
  <2>3. RuntimeTyped'
    BY <1>1, <1>2, <1>9 DEF RuntimeTyped
  <2> QED BY <1>3, <1>5, <1>8, <2>2, <2>3 DEF Inv, Serving
<1>10. CASE /\ \/ owner' = api /\ svc' = [svc EXCEPT !.runtime = api, !.closing = FALSE]
               \/ owner' = owner /\ svc' = [svc EXCEPT !.runtime = api, !.closing = TRUE]
            /\ alive' = alive
  <2>1. /\ svc' \in Services /\ svc'.runtime = api /\ svc'.pending = 0 /\ svc'.orphan = 0
    BY <1>1, <1>6, <1>10 DEF Services
  <2>2. RuntimeTyped'
    BY <1>1, <1>2, <1>10, <2>1 DEF RuntimeTyped
  <2>3. Known' = {api}
    BY <1>2, <1>7, <1>10 DEF Known
  <2>4. owner' # api => \A o \in Startups : starter'[api] = o => Accounts(o)'
    <3> SUFFICES ASSUME owner' = owner, NEW o \in Startups, starter[api] = o PROVE Accounts(o)'
      BY <1>2, <1>10
    <3>1. Answerable(api)
      BY <1>2, <1>6, <1>7, <1>1 DEF Handed
    <3>2. Accounts(o) /\ Stays(o)
      BY <1>3, <3>1, OpsAre DEF Answerable
    <3> QED BY <1>2, <3>2 DEF Stays, Accounts
  <2>5. Exclusive' /\ Held' /\ Handed'
    <3> DEFINE b == api
    <3>1. b # 0 /\ Known' = {b} /\ svc'.runtime = b
      BY <1>2, <2>1, <2>3
    <3>2. owner' = b \/ (owner' = 0 /\ \A o \in Startups : starter'[b] = o => Accounts(o)')
      BY <1>6, <1>10, <2>4
    <3> HIDE DEF b
    <3> QED BY <1>1, <1>2, <1>5, <2>1, <3>1, <3>2, RuntimeHeld
  <2> QED BY <1>3, <1>5, <1>8, <2>2, <2>5 DEF Inv, Serving
<1> QED BY <1>9, <1>10 DEF StartPublishes

LEMMA CloseUnknownKeeps ==
    ASSUME Inv, process = "up", api = 0, NEW service \in Services,
           service.runtime = svc.runtime, service.orphan = svc.orphan, service.request = svc.request,
           CloseUnknown(service)
    PROVE  Inv'
<1>1. /\ Registered /\ InLane /\ RegistryTyped /\ RuntimeTyped /\ OneStartup /\ Exclusive /\ Held
      /\ Handed /\ AbortCoversGeneration /\ svc \in Services
  BY DEF Inv, Registered, Serving, RuntimeTyped
<1>2. /\ svc.runtime = 0 /\ svc.pending # 0 /\ alive' = alive \ {svc.pending}
      /\ UNCHANGED <<order, queue, lane, api, owner, of, processVars, starter, stray, dispatched>>
      /\ process' = "up"
  BY DEF CloseUnknown
<1>3. svc.orphan = 0 /\ Publishing = 0 /\ owner = 0
  BY <1>1, <1>2 DEF Exclusive, Held
<1>4. Known' = {}
  <2>1. Known = {svc.pending}
    BY <1>1, <1>2, Only
  <2> QED BY <1>2, <2>1 DEF Known
<1>5. Publishing' = 0
  BY <1>2, <1>3 DEF Publishing
<1>6. ASSUME svc' \in Services, svc'.runtime = 0, svc'.pending = 0, svc'.orphan = 0
      PROVE  RuntimeTyped' /\ Exclusive' /\ Held' /\ Handed'
  <2>1. RuntimeTyped'
    BY <1>1, <1>2, <1>6 DEF RuntimeTyped
  <2> QED BY <1>2, <1>3, <1>4, <1>5, <1>6, <2>1, Vacant
<1>7. CASE svc.request \in Unknowns
  <2>1. PICK o \in Startups : o = svc.request /\ reg[o] = "unknown"
    BY <1>7 DEF Unknowns
  <2>2. Transition(o, "failed") \/ TransitionRefused(o)
    BY <1>7, <2>1 DEF CloseUnknown
  <2>3. Moved /\ Settles
    BY <1>1, <1>2, <2>1, <2>2, AbandonMoves
  <2>4. Registered'
    BY <1>1, <1>2, <2>3, LaneKept
  <2>5. NobodyWaits
    BY <1>1, <2>1, WhenNobodyWaits DEF Live
  <2>6. OneStartup'
    BY <1>1, <1>2, <2>3, <2>5, OneStartupKept
  <2>7. /\ svc' \in Services /\ svc'.runtime = 0 /\ svc'.pending = 0 /\ svc'.orphan = 0
    <3>1. \/ svc' = [service EXCEPT !.pending = 0, !.request = NoOp]
          \/ svc' = [svc EXCEPT !.pending = 0]
      BY <1>7 DEF CloseUnknown
    <3> QED BY <1>1, <1>2, <1>3, <3>1 DEF Services
  <2>8. AbortCoversGeneration'
    BY <1>1, <1>2, <2>3, AbortKept
  <2> QED BY <1>6, <2>4, <2>6, <2>7, <2>8 DEF Inv, Serving
<1>8. CASE svc.request \notin Unknowns
  <2>1. /\ svc' = [(IF svc.request = NoOp THEN service ELSE svc) EXCEPT !.pending = 0]
        /\ UNCHANGED registryVars
    BY <1>2, <1>8 DEF CloseUnknown
  <2>2. Registered' /\ Settles /\ \A o \in Ops : Stays(o)
    BY <1>1, <1>2, <2>1, RegistryAlone
  <2>3. /\ svc' \in Services /\ svc'.runtime = 0 /\ svc'.pending = 0 /\ svc'.orphan = 0
        /\ svc'.request = svc.request
    BY <1>1, <1>2, <1>3, <2>1 DEF Services
  <2>4. OneStartup'
    <3>1. \A o \in Startups : reg'[o] = reg[o]
      BY <2>1
    <3>2. \A o \in Startups : Waiting(o)' <=> Waiting(o)
      BY <2>1 DEF Waiting
    <3>3. api' = 0 /\ lane' = lane
      BY <1>2, <2>1
    <3> QED BY <1>1, <2>3, <3>1, <3>2, <3>3 DEF OneStartup
  <2>5. AbortCoversGeneration'
    BY <1>1, <1>2, <2>2, AbortKept
  <2> QED BY <1>6, <2>2, <2>3, <2>4, <2>5 DEF Inv, Serving
<1> QED BY <1>7, <1>8

LEMMA ClosesKeep == ASSUME Inv, Close \/ ServiceCloses PROVE Inv'
<1>1. /\ Registered /\ Serving /\ InLane /\ OneStartup /\ RuntimeTyped /\ svc \in Services
      /\ process = "up" /\ api = 0
  BY DEF Inv, Registered, Serving, RuntimeTyped, Close, ServiceCloses, Call
<1>2. CASE RuntimeClose(svc) \/ CloseUnknown(svc)
  BY <1>1, <1>2, RuntimeCloseKeeps, CloseUnknownKeeps
<1> DEFINE closed == [svc EXCEPT !.closed = TRUE]
<1>3. /\ closed \in Services /\ closed.runtime = svc.runtime /\ closed.pending = svc.pending
      /\ closed.orphan = svc.orphan /\ closed.request = svc.request
  BY <1>1 DEF Services
<1> HIDE DEF closed
<1>4. CASE RuntimeClose(closed) \/ CloseUnknown(closed)
  BY <1>1, <1>3, <1>4, RuntimeCloseKeeps, CloseUnknownKeeps
<1>5. CASE svc' = closed /\ UNCHANGED <<registryVars, api, owner, of, processVars, targetVars>>
  <2>1. Registered' /\ Settles /\ \A o \in Ops : Stays(o)
    BY <1>1, <1>5, RegistryAlone
  <2>2. Serving'
    <3>1. /\ RuntimeTyped /\ OneStartup /\ Exclusive /\ Held /\ Handed /\ AbortCoversGeneration
      BY <1>1 DEF Serving
    <3>2. OneStartup'
      <4>1. \A o \in Startups : Waiting(o)' <=> Waiting(o)
        BY <1>5 DEF Waiting
      <4> QED BY <1>3, <1>5, <3>1, <4>1 DEF OneStartup
    <3>3. Publishing' = Publishing /\ lane' = lane /\ reg' = reg
      BY <1>5 DEF Publishing
    <3>4. \A o \in Startups : Accounts(o) => Accounts(o)'
      BY <2>1, <3>3, OpsAre DEF Stays, Accounts
    <3>5. of' \in [Runs -> Backends \cup {0}] /\ dispatched' \in [Runs -> Nat]
      BY <1>1, <1>5 DEF RuntimeTyped
    <3>6. RuntimeTyped' /\ Exclusive' /\ Held' /\ Handed'
      BY <1>1, <1>3, <1>5, <3>1, <3>3, <3>4, <3>5, HoldersServe
    <3>7. AbortCoversGeneration'
      BY <1>1, <1>3, <1>5, <2>1, <3>1, AbortKept
    <3> QED BY <3>2, <3>6, <3>7 DEF Serving
  <2> QED BY <2>1, <2>2 DEF Inv
<1> QED BY <1>2, <1>4, <1>5 DEF Close, ServiceCloses, closed

-----------------------------------------------------------------------------
(* Submissions.                                                            *)

LEMMA SubmissionRegisters ==
    ASSUME Registered, process = "up", process' = "up", dispatched' = dispatched,
           NEW o \in Ops, Submitted(o) \/ SubmissionRefused(o) \/ ExecutorRefuses(o)
    PROVE  /\ Registered' /\ lane' = lane
           /\ reg[o] = "none" /\ ~In(o, queue) /\ lane.op # o
           /\ \A p \in Ops \ {o} : Stays(p) /\ (In(p, queue') => In(p, queue))
           /\ Submitted(o) \/ queue' = queue
           /\ OnDisk(o) = "none"
<1>1. RegistryTyped /\ InLane /\ Dispatching
  BY DEF Registered
<1>2. /\ Moved /\ (\A p \in Ops \ {o} : Stays(p)) /\ Enters(o)
      /\ lane' = lane
      /\ \/ queue' = queue
         \/ queue' = Append(queue, o) /\ OnDisk(o)' = "queued"
  BY <1>1, SubmissionMoves
<1>3. queue \in Seq(Ops) /\ lane \in Lanes
  BY <1>1 DEF RegistryTyped
<1>4. /\ queue' \in Seq(Ops)
      /\ \A p \in Ops : In(p, queue') => In(p, queue) \/ (p = o /\ OnDisk(o)' = "queued")
  <2>1. CASE queue' = queue
    BY <1>3, <2>1
  <2>2. CASE queue' = Append(queue, o) /\ OnDisk(o)' = "queued"
    <3>1. /\ Append(queue, o) \in Seq(Ops)
          /\ \A p : In(p, Append(queue, o)) <=> (In(p, queue) \/ p = o)
      BY <1>3, AppendIn
    <3> QED BY <2>2, <3>1
  <2> QED BY <1>2, <2>1, <2>2
<1>5. /\ \A p \in Ops : /\ OnDisk(p) # "none" => OnDisk(p)' # "none"
                        /\ OnDisk(p) \in Started => OnDisk(p)' \in Started
      /\ \A p, e : Journalled(p, e) => Journalled(p, e)'
  BY <1>2, Kept
<1>6. InLane'
  <2>1. \A p \in Ops : In(p, queue') => OnDisk(p)' # "none"
    BY <1>1, <1>4, <1>5 DEF InLane
  <2> QED BY <1>1, <1>2, <1>5, <2>1 DEF InLane
<1>7. Dispatching'
  BY <1>1, <1>2, <1>5, OpsAre DEF Dispatching
<1>8. Registered'
  BY <1>2, <1>3, <1>4, <1>6, <1>7, RegistryKept
<1>9. reg[o] = "none" /\ OnDisk(o) = "none"
  BY <1>2 DEF Enters
<1>10. ~In(o, queue) /\ lane.op # o
  BY <1>1, <1>9 DEF InLane, Started, Terminal
<1>11. \A p \in Ops \ {o} : Stays(p) /\ (In(p, queue') => In(p, queue))
  BY <1>2, <1>4
<1>12. Submitted(o) \/ queue' = queue
  BY DEF SubmissionRefused, ExecutorRefuses
<1> QED BY <1>2, <1>8, <1>9, <1>10, <1>11, <1>12

LEMMA SubmitRunKeeps == ASSUME Inv, NEW o, SubmitRun(o) PROVE Inv'
<1>1. /\ Registered /\ RuntimeTyped /\ OneStartup /\ InLane /\ Exclusive /\ Held /\ Handed
      /\ AbortCoversGeneration /\ svc \in Services
  BY DEF Inv, Registered, Serving, RuntimeTyped
<1>2. /\ process = "up" /\ process' = "up" /\ svc.runtime # 0 /\ o \in Runs
      /\ Submitted(o) \/ SubmissionRefused(o) \/ ExecutorRefuses(o)
      /\ of' = [of EXCEPT ![o] = svc.runtime]
      /\ UNCHANGED <<svc, api, owner, processVars, targetVars>>
  BY DEF SubmitRun, Call
<1>3. o \in Ops /\ o \notin Startups
  BY <1>2, OpsAre
<1>4. /\ Registered' /\ lane' = lane
      /\ \A p \in Ops \ {o} : Stays(p) /\ (In(p, queue') => In(p, queue))
  BY <1>1, <1>2, <1>3, SubmissionRegisters
<1>5. \A p \in Startups : /\ Stays(p) /\ reg'[p] = reg[p]
                          /\ Waiting(p)' => Waiting(p)
  <2>1. \A p \in Startups : p \in Ops \ {o}
    BY <1>3, OpsAre
  <2> QED BY <1>4, <2>1 DEF Waiting, Stays
<1>6. NobodyWaits /\ lane.step # "publish"
  BY <1>1, <1>2, WhenNobodyWaits
<1>7. OneStartup'
  <2>1. \A p, q \in Startups : reg'[p] \in Live /\ reg'[q] \in Live => p = q
    BY <1>1, <1>2, <1>5 DEF OneStartup
  <2>2. \A p \in Startups : ~Waiting(p)'
    BY <1>5, <1>6 DEF NobodyWaits
  <2> QED BY <1>4, <1>6, <2>1, <2>2 DEF OneStartup
<1>8. RuntimeTyped' /\ Exclusive' /\ Held' /\ Handed'
  <2>1. of' \in [Runs -> Backends \cup {0}] /\ dispatched' \in [Runs -> Nat]
    BY <1>1, <1>2 DEF RuntimeTyped, Services
  <2>2. \A p \in Startups : /\ reg[p] = "unknown" => reg'[p] = "unknown"
                            /\ Accounts(p) => Accounts(p)'
    BY <1>4, <1>5 DEF Accounts, Stays
  <2>3. Publishing' = Publishing
    BY <1>4 DEF Publishing
  <2> QED BY <1>1, <1>2, <2>1, <2>2, <2>3, HoldersServe
<1>9. AbortCoversGeneration'
  <2> SUFFICES ASSUME NEW p \in Runs, reg'[p] \in Live PROVE of'[p] = svc.runtime
    BY <1>2 DEF AbortCoversGeneration
  <2>1. of \in [Runs -> Backends \cup {0}]
    BY <1>1 DEF RuntimeTyped
  <2>2. CASE p = o
    BY <1>2, <2>1, <2>2
  <2>3. CASE p # o
    <3>1. p \in Ops \ {o}
      BY <2>3, OpsAre
    <3>2. reg[p] \in Live
      BY <1>4, <3>1 DEF Stays
    <3>3. of[p] = svc.runtime
      BY <1>1, <1>2, <3>2 DEF AbortCoversGeneration
    <3> QED BY <1>2, <2>1, <2>3, <3>3
  <2> QED BY <2>2, <2>3
<1> QED BY <1>4, <1>7, <1>8, <1>9 DEF Inv, Serving

LEMMA EnsureStartsKeeps == ASSUME Inv, NEW o, EnsureStarts(o) PROVE Inv'
<1>1. /\ Registered /\ RuntimeTyped /\ OneStartup /\ InLane /\ Exclusive /\ Held /\ Handed
      /\ AbortCoversGeneration /\ svc \in Services
  BY DEF Inv, Registered, Serving, RuntimeTyped
<1>2. /\ process = "up" /\ process' = "up" /\ api = 0 /\ svc.orphan = 0 /\ svc.runtime = 0
      /\ RequestSettled /\ o \in Startups
      /\ UNCHANGED <<api, owner, of, processVars, targetVars>>
  BY DEF EnsureStarts, Call
<1>3. o \in Ops /\ o \notin Runs /\ o # NoOp
  BY <1>2, OpsAre
<1>4. svc.request \notin Unknowns /\ (svc.request \in Startups => reg[svc.request] \notin Live)
  BY <1>2, OpsAre DEF RequestSettled, Unknowns, Live, Ops
<1>5. NobodyWaits /\ Publishing = 0 /\ lane.step # "publish"
  BY <1>1, <1>4, <1>2, WhenNobodyWaits
<1>6. Known \subseteq {owner} \/ ~Unheld
  BY <1>1, <1>2, <1>4 DEF Handed, Answerable
<1>7. of' \in [Runs -> Backends \cup {0}] /\ dispatched' \in [Runs -> Nat]
  BY <1>1, <1>2 DEF RuntimeTyped
<1>8. CASE svc' = [svc EXCEPT !.request = o] /\ UNCHANGED registryVars
  <2>1. Registered' /\ Settles /\ \A p \in Ops : Stays(p)
    BY <1>1, <1>2, <1>8, RegistryAlone
  <2>2. OneStartup'
    BY <1>1, <1>2, <1>5, <1>8, <2>1, OneStartupKept
  <2>3. /\ svc' \in Services /\ svc'.runtime = svc.runtime /\ svc'.pending = svc.pending
        /\ svc'.orphan = svc.orphan
    BY <1>1, <1>2, <1>8 DEF Services
  <2>4. \A p \in Startups : /\ reg[p] = "unknown" => reg'[p] = "unknown"
                            /\ Accounts(p) => Accounts(p)'
    BY <1>8, <2>1, OpsAre DEF Accounts, Stays
  <2>5. Publishing' = Publishing
    BY <1>8 DEF Publishing
  <2>6. RuntimeTyped' /\ Exclusive' /\ Held' /\ Handed'
    BY <1>1, <1>2, <1>6, <1>7, <2>3, <2>4, <2>5, HoldersServe
  <2>7. AbortCoversGeneration'
    BY <1>1, <1>2, <2>1, AbortKept
  <2> QED BY <2>1, <2>2, <2>6, <2>7 DEF Inv, Serving
<1>9. CASE /\ \A p \in Startups : reg[p] \notin Live
           /\ \/ Submitted(o) /\ svc' = [svc EXCEPT !.request = o]
              \/ SubmissionRefused(o) /\ svc' = [svc EXCEPT !.request = NoOp]
              \/ /\ ExecutorRefuses(o)
                 /\ svc' = [svc EXCEPT !.request = IF reg'[o] = "failed" THEN o ELSE NoOp]
  <2>1. /\ Registered' /\ lane' = lane
        /\ reg[o] = "none" /\ ~In(o, queue) /\ lane.op # o
        /\ \A p \in Ops \ {o} : Stays(p) /\ (In(p, queue') => In(p, queue))
        /\ Submitted(o) \/ queue' = queue
        /\ OnDisk(o) = "none"
    BY <1>1, <1>2, <1>3, <1>9, SubmissionRegisters
  <2>2. /\ svc' \in Services /\ svc'.runtime = svc.runtime /\ svc'.pending = svc.pending
        /\ svc'.orphan = svc.orphan
    BY <1>1, <1>2, <1>9 DEF Services
  <2>3. ASSUME NEW p \in Startups
        PROVE  /\ p # o => reg'[p] = reg[p] /\ OnDisk(p)' = OnDisk(p) /\ ~Waiting(p)'
               /\ reg[p] = "unknown" => reg'[p] = "unknown"
               /\ Accounts(p) => Accounts(p)'
    <3>1. CASE p = o
      BY <2>1, <3>1 DEF Accounts, Live
    <3>2. CASE p # o
      <4>1. p \in Ops \ {o}
        BY <3>2, OpsAre
      <4>2. Stays(p) /\ (In(p, queue') => In(p, queue))
        BY <2>1, <4>1
      <4> QED BY <1>5, <2>1, <4>2 DEF Stays, Accounts, Waiting, NobodyWaits
    <3> QED BY <3>1, <3>2
  <2>4. OneStartup'
    <3>1. \A p, q \in Startups : reg'[p] \in Live /\ reg'[q] \in Live => p = q
      BY <1>9, <2>3
    <3>2. ASSUME Waiting(o)'
          PROVE  /\ svc'.request = o /\ reg'[o] \in Live
                 /\ svc'.runtime = 0 /\ svc'.orphan = 0 /\ api' = 0
      <4>1. In(o, queue') /\ reg'[o] = "queued"
        BY <2>1, <3>2 DEF Waiting
      <4>2. queue' # queue
        BY <2>1, <4>1
      <4>3. svc' = [svc EXCEPT !.request = o]
        BY <1>9, <4>2 DEF SubmissionRefused, ExecutorRefuses
      <4> QED BY <1>1, <1>2, <4>1, <4>3 DEF Services, Live
    <3>3. \A p \in Startups : Waiting(p)' =>
              /\ svc'.request = p /\ reg'[p] \in Live
              /\ svc'.runtime = 0 /\ svc'.orphan = 0 /\ api' = 0
      BY <2>3, <3>2
    <3> QED BY <1>5, <2>1, <3>1, <3>3 DEF OneStartup
  <2>5. Publishing' = Publishing
    BY <2>1 DEF Publishing
  <2>6. RuntimeTyped' /\ Exclusive' /\ Held' /\ Handed'
    BY <1>1, <1>2, <1>6, <1>7, <2>2, <2>3, <2>5, HoldersServe
  <2>7. AbortCoversGeneration'
    <3>1. ASSUME NEW p \in Runs PROVE reg'[p] = reg[p]
      <4>1. p \in Ops \ {o}
        BY <1>3, OpsAre
      <4> QED BY <2>1, <4>1 DEF Stays
    <3> QED BY <1>1, <1>2, <3>1 DEF AbortCoversGeneration
  <2> QED BY <2>1, <2>4, <2>6, <2>7 DEF Inv, Serving
<1> QED BY <1>8, <1>9 DEF EnsureStarts

-----------------------------------------------------------------------------
(* The lane executes a startup.                                            *)

\* What holds while it does.
LEMMA BootstrapOf ==
    ASSUME Registered, Serving, process = "up", NEW l \in Startups, lane.op = l,
           lane.step \in {"execute", "publish"}
    PROVE  /\ svc.request = l /\ svc.runtime = 0 /\ svc.orphan = 0 /\ api = 0 /\ owner = 0
           /\ reg[l] = "running" /\ OnDisk(l) = "running" /\ svc.request \notin Unknowns
           /\ \A o \in Startups : ~(In(o, queue) /\ reg[o] = "queued")
           /\ \A o \in Runs : reg[o] \notin Live
<1>1. OneStartup /\ InLane /\ Remembered /\ Held /\ AbortCoversGeneration /\ l \in Ops
  BY OpsAre DEF Registered, Serving
<1>2. Waiting(l)
  BY DEF Waiting
<1>3. svc.request = l /\ reg[l] \in Live /\ svc.runtime = 0 /\ svc.orphan = 0 /\ api = 0
  BY <1>1, <1>2 DEF OneStartup
<1>4. reg[l] = OnDisk(l) /\ OnDisk(l) \in Started
  <2>1. Remembers(l) /\ OnDisk(l) \in Started
    BY <1>1 DEF Remembered, InLane
  <2> QED BY <2>1 DEF Remembers, Started, Terminal
<1>5. reg[l] = "running"
  BY <1>3, <1>4 DEF Live, Started, Terminal
<1>6. ASSUME NEW o \in Startups, In(o, queue), reg[o] = "queued" PROVE FALSE
  <2>1. Waiting(o)
    BY <1>6 DEF Waiting
  <2>2. o = l
    BY <1>1, <1>3, <2>1 DEF OneStartup
  <2> QED BY <1>5, <1>6, <2>2
<1>7. owner = 0
  BY <1>1, <1>3 DEF Held
<1>8. \A o \in Runs : reg[o] \notin Live
  BY <1>1, <1>3 DEF AbortCoversGeneration
<1>9. svc.request \notin Unknowns
  BY <1>3, <1>5 DEF Unknowns
<1> QED BY <1>3, <1>4, <1>5, <1>6, <1>7, <1>8, <1>9

LEMMA BootstrapAdvances ==
    ASSUME Registered, Serving, process = "up", process' = "up", NEW l \in Startups, lane.op = l,
           lane.step \in {"execute", "publish"}, LaneOnly, of' = of, dispatched' = dispatched,
           lane' \in Lanes, lane'.op = l,
           \/ lane'.step = "settle" /\ lane'.outcome \in Terminal
           \/ /\ lane'.step = "publish" /\ lane'.backend # 0 /\ svc'.request = l
              /\ svc'.runtime = 0 /\ svc'.orphan = 0 /\ api' = 0
    PROVE  Registered' /\ OneStartup' /\ AbortCoversGeneration'
<1>1. RegistryTyped /\ OneStartup /\ l \in Ops
  BY OpsAre DEF Registered, Serving
<1>2. Moved /\ (\A o \in Ops : Stays(o)) /\ queue' = queue /\ reg' = reg
  BY <1>1, LaneOnlyMoves DEF LaneOnly
<1>3. Registered'
  BY <1>1, <1>2, LaneAdvances
<1>4. /\ reg[l] = "running"
      /\ \A o \in Startups : ~(In(o, queue) /\ reg[o] = "queued")
      /\ \A o \in Runs : reg[o] \notin Live
  BY BootstrapOf
<1>5. \A o \in Startups : Waiting(o)' => o = l /\ lane'.step = "publish"
  BY <1>2, <1>4 DEF Waiting
<1>6. OneStartup'
  <2>1. \A o, p \in Startups : reg'[o] \in Live /\ reg'[p] \in Live => o = p
    BY <1>1, <1>2 DEF OneStartup
  <2>2. reg'[l] \in Live
    BY <1>2, <1>4 DEF Live
  <2> QED BY <1>5, <2>1, <2>2 DEF OneStartup
<1>7. AbortCoversGeneration'
  BY <1>2, <1>4 DEF AbortCoversGeneration
<1> QED BY <1>3, <1>6, <1>7

LEMMA BootstrapStartsKeeps == ASSUME Inv, BootstrapStarts PROVE Inv'
<1>1. /\ Registered /\ Serving /\ RuntimeTyped /\ Exclusive /\ Held /\ Handed
      /\ svc \in Services /\ lane \in Lanes
  BY DEF Inv, Registered, Serving, RuntimeTyped, RegistryTyped
<1>2. /\ process = "up" /\ process' = "up" /\ lane.step = "execute" /\ LaneOnly
      /\ api' = api /\ owner' = owner /\ of' = of /\ UNCHANGED processVars
      /\ stray' = stray /\ dispatched' = dispatched
  BY DEF BootstrapStarts, Bootstrapping
<1>3. PICK l \in Startups : lane.op = l
  BY DEF BootstrapStarts, Bootstrapping
<1>4. /\ svc.request = l /\ svc.runtime = 0 /\ svc.orphan = 0 /\ api = 0 /\ owner = 0
      /\ reg[l] = "running" /\ OnDisk(l) = "running" /\ svc.request \notin Unknowns
  BY <1>1, <1>2, <1>3, BootstrapOf
<1>5. Publishing = 0
  BY <1>2 DEF Publishing
<1> DEFINE rest == alive \ {svc.pending}
           clean == [svc EXCEPT !.pending = 0]
<1>6. rest \subseteq alive /\ rest \ stray = {}
  <2>1. Known \subseteq {svc.pending}
    BY <1>1, <1>2, <1>4, <1>5, OnlyPending
  <2> QED BY <2>1 DEF Known
<1>7. /\ clean \in Services /\ clean.runtime = 0 /\ clean.orphan = 0 /\ clean.pending = 0
      /\ clean.request = l
  BY <1>1, <1>4 DEF Services
<1>8. ASSUME NEW outcome \in Terminal, Outcome(outcome)
      PROVE  /\ Registered' /\ OneStartup' /\ AbortCoversGeneration'
             /\ lane'.op = l /\ lane'.step = "settle" /\ lane'.outcome = outcome /\ Publishing' = 0
  <2>1. /\ lane' \in Lanes /\ lane'.op = l /\ lane'.step = "settle" /\ lane'.outcome = outcome
    BY <1>1, <1>3, <1>8 DEF Outcome, Lanes
  <2>2. Publishing' = 0
    BY <2>1 DEF Publishing
  <2>3. Registered' /\ OneStartup' /\ AbortCoversGeneration'
    BY <1>1, <1>2, <1>3, <2>1, BootstrapAdvances
  <2> QED BY <2>1, <2>2, <2>3
<1>9. reg' = reg /\ \A o \in Ops : OnDisk(o)' = OnDisk(o)
  BY <1>2 DEF LaneOnly, OnDisk
<1>10. of' \in [Runs -> Backends \cup {0}] /\ dispatched' \in [Runs -> Nat]
  BY <1>1, <1>2 DEF RuntimeTyped
<1>11. "unknown" \in Terminal /\ "failed" \in Terminal
  BY DEF Terminal
<1>12. CASE svc.pending # 0 /\ Outcome("unknown") /\ UNCHANGED <<svc, alive, starter>>
  <2>1. /\ Registered' /\ OneStartup' /\ AbortCoversGeneration'
        /\ lane'.op = l /\ lane'.step = "settle" /\ lane'.outcome = "unknown" /\ Publishing' = 0
    BY <1>8, <1>11, <1>12
  <2>2. \A o \in Startups : Accounts(o) => Accounts(o)'
    BY <1>9, <2>1, OpsAre DEF Accounts
  <2>3. RuntimeTyped' /\ Exclusive' /\ Held' /\ Handed'
    BY <1>1, <1>2, <1>5, <1>9, <1>10, <1>12, <2>1, <2>2, HoldersServe
  <2> QED BY <2>1, <2>3 DEF Inv, Serving
<1>13. CASE Outcome("failed") /\ svc' = clean /\ alive' = rest /\ UNCHANGED starter
  <2>1. Registered' /\ OneStartup' /\ AbortCoversGeneration' /\ Publishing' = 0
    BY <1>8, <1>11, <1>13
  <2> HIDE DEF clean
  <2>2. Known' = {}
    BY <1>2, <1>6, <1>13 DEF Known
  <2>3. RuntimeTyped'
    BY <1>1, <1>2, <1>7, <1>13 DEF RuntimeTyped
  <2>4. Exclusive' /\ Held' /\ Handed'
    BY <1>2, <1>4, <1>7, <1>13, <2>1, <2>2, Vacant
  <2> QED BY <2>1, <2>3, <2>4 DEF Inv, Serving
<1>14. CASE /\ ~Spent /\ alive' = rest \cup {Next1} /\ starter' = Append(starter, lane.op)
            /\ \/ lane' = [lane EXCEPT !.step = "publish", !.backend = Next1] /\ svc' = clean
               \/ Outcome("unknown") /\ svc' = [svc EXCEPT !.pending = Next1]
  <2> HIDE DEF rest
  <2>1. /\ Next1 \in Backends /\ Next1 # 0
        /\ starter' \in Seq(Startups \cup {NoOp}) /\ Len(starter') <= MaxBackend
        /\ alive' \subseteq 1 .. Len(starter') /\ stray' \subseteq 1 .. Len(starter')
        /\ Known' = {Next1} /\ starter'[Next1] = l
    BY <1>1, <1>2, <1>3, <1>6, <1>14, NewBackend
  <2> DEFINE n == Next1
  <2> HIDE DEF n
  <2>2. /\ Registered' /\ OneStartup' /\ AbortCoversGeneration' /\ svc' \in Services
        /\ svc'.runtime = 0 /\ svc'.orphan = 0
        /\ \/ lane'.step = "publish" /\ Publishing' = n /\ svc'.pending = 0
           \/ lane'.step = "settle" /\ lane'.outcome = "unknown" /\ Publishing' = 0 /\ svc'.pending = n
    <3>1. CASE lane' = [lane EXCEPT !.step = "publish", !.backend = Next1] /\ svc' = clean
      <4>1. /\ lane' \in Lanes /\ lane'.op = l /\ lane'.step = "publish" /\ lane'.backend = n
        BY <1>1, <1>3, <2>1, <3>1 DEF Lanes, n
      <4>2. n # 0
        BY <2>1 DEF n
      <4> HIDE DEF clean
      <4>3. Registered' /\ OneStartup' /\ AbortCoversGeneration'
        BY <1>1, <1>2, <1>3, <1>4, <1>7, <3>1, <4>1, <4>2, BootstrapAdvances
      <4>4. Publishing' = n
        BY <4>1 DEF Publishing
      <4> QED BY <1>7, <3>1, <4>1, <4>3, <4>4
    <3>2. CASE Outcome("unknown") /\ svc' = [svc EXCEPT !.pending = Next1]
      <4>1. /\ Registered' /\ OneStartup' /\ AbortCoversGeneration'
            /\ lane'.step = "settle" /\ lane'.outcome = "unknown" /\ Publishing' = 0
        BY <1>8, <1>11, <3>2
      <4>2. /\ svc' \in Services /\ svc'.runtime = 0 /\ svc'.orphan = 0 /\ svc'.pending = n
        BY <1>1, <1>4, <2>1, <3>2 DEF Services, n
      <4> QED BY <4>1, <4>2
    <3> QED BY <1>14, <3>1, <3>2
  <2>3. Known' = {n} /\ n # 0 /\ api' = 0 /\ owner' = 0
    BY <1>2, <1>4, <2>1 DEF n
  <2>4. RuntimeTyped'
    <3>1. api' \in Backends \cup {0} /\ owner' \in Backends \cup {0} /\ process' = "up"
      BY <1>2, <2>3
    <3> QED BY <1>10, <2>1, <2>2, <3>1 DEF RuntimeTyped
  <2>5. Exclusive'
    BY <2>2, <2>3 DEF Exclusive
  <2>6. Held'
    BY <1>2, <2>2, <2>3 DEF Held
  <2>7. Handed'
    <3> SUFFICES ASSUME NEW b \in Known' PROVE Answerable(b)'
      BY DEF Handed
    <3>1. b = n /\ starter'[b] = l
      BY <2>1, <2>3 DEF n
    <3>2. Accounts(l)'
      BY <1>4, <1>9, <2>2, OpsAre DEF Accounts, Live
    <3>3. l # NoOp /\ ~Unheld'
      BY <2>2, <2>3, OpsAre DEF Unheld
    <3> QED BY <3>1, <3>2, <3>3 DEF Answerable
  <2> QED BY <2>2, <2>4, <2>5, <2>6, <2>7 DEF Inv, Serving
<1> QED BY <1>12, <1>13, <1>14 DEF BootstrapStarts

LEMMA BootstrapEndsKeeps == ASSUME Inv, BootstrapPublishes \/ BootstrapFails PROVE Inv'
<1>1. /\ Registered /\ Serving /\ RuntimeTyped /\ OneStartup /\ Exclusive /\ Held /\ Handed
      /\ svc \in Services /\ lane \in Lanes
  BY DEF Inv, Registered, Serving, RuntimeTyped, RegistryTyped
<1>2. /\ process = "up" /\ process' = "up" /\ lane.step = "publish" /\ LaneOnly
      /\ api' = api /\ of' = of /\ UNCHANGED processVars
      /\ starter' = starter /\ stray' = stray /\ dispatched' = dispatched
  BY DEF BootstrapPublishes, BootstrapFails, Bootstrapping
<1>3. PICK l \in Startups : lane.op = l
  BY DEF BootstrapPublishes, BootstrapFails, Bootstrapping
<1>4. /\ svc.runtime = 0 /\ svc.orphan = 0 /\ api = 0 /\ owner = 0
      /\ OnDisk(l) = "running" /\ l \in Ops
  BY <1>1, <1>2, <1>3, BootstrapOf, OpsAre
<1> DEFINE b == lane.backend
<1>5. b # 0 /\ b \in Backends /\ Publishing = b
  BY <1>1, <1>2 DEF OneStartup, Lanes, Publishing
<1>6. svc.pending = 0 /\ Known = {b}
  BY <1>1, <1>5, Only DEF Exclusive
<1> HIDE DEF b
<1>7. ASSUME NEW outcome \in Terminal, Outcome(outcome)
      PROVE  /\ Registered' /\ OneStartup' /\ AbortCoversGeneration'
             /\ lane'.op = l /\ lane'.step = "settle" /\ lane'.outcome = outcome /\ Publishing' = 0
  <2>1. /\ lane' \in Lanes /\ lane'.op = l /\ lane'.step = "settle" /\ lane'.outcome = outcome
    BY <1>1, <1>3, <1>7 DEF Outcome, Lanes
  <2>2. Publishing' = 0
    BY <2>1 DEF Publishing
  <2>3. Registered' /\ OneStartup' /\ AbortCoversGeneration'
    BY <1>1, <1>2, <1>3, <2>1, BootstrapAdvances
  <2> QED BY <2>1, <2>2, <2>3
<1>8. reg' = reg /\ \A o \in Ops : OnDisk(o)' = OnDisk(o)
  BY <1>2 DEF LaneOnly, OnDisk
<1>9. /\ "completed" \in Terminal /\ "unknown" \in Terminal /\ "failed" \in Terminal
  BY DEF Terminal
<1>10. CASE /\ alive' = alive \ {b}
            /\ Outcome("failed") \/ Outcome("unknown")
            /\ svc' = svc /\ owner' = owner
  <2>1. Registered' /\ OneStartup' /\ AbortCoversGeneration' /\ Publishing' = 0
    BY <1>7, <1>9, <1>10
  <2>2. Known' = {}
    BY <1>2, <1>6, <1>10 DEF Known
  <2>3. RuntimeTyped'
    BY <1>1, <1>2, <1>10 DEF RuntimeTyped
  <2>4. Exclusive' /\ Held' /\ Handed'
    BY <1>2, <1>4, <1>6, <1>10, <2>1, <2>2, Vacant
  <2> QED BY <2>1, <2>3, <2>4 DEF Inv, Serving
<1>11. CASE /\ alive' = alive
            /\ \/ /\ owner' = b /\ Outcome("completed")
                  /\ svc' = [svc EXCEPT !.runtime = b, !.closing = FALSE]
               \/ /\ owner' = owner /\ Outcome("unknown")
                  /\ svc' = [svc EXCEPT !.runtime = b, !.closing = TRUE]
  <2>1. /\ Registered' /\ OneStartup' /\ AbortCoversGeneration' /\ Publishing' = 0
        /\ lane'.op = l /\ lane'.step = "settle"
        /\ owner' = b \/ (owner' = 0 /\ lane'.outcome = "unknown")
    BY <1>4, <1>7, <1>9, <1>11
  <2>2. /\ svc' \in Services /\ svc'.runtime = b /\ svc'.pending = 0 /\ svc'.orphan = 0
    BY <1>1, <1>4, <1>5, <1>6, <1>11 DEF Services
  <2>3. RuntimeTyped'
    <3>1. owner' \in Backends \cup {0}
      BY <1>5, <2>1
    <3> QED BY <1>1, <1>2, <1>11, <2>2, <3>1 DEF RuntimeTyped
  <2>4. Known' = {b}
    BY <1>2, <1>6, <1>11 DEF Known
  <2>5. owner' = b \/ (owner' = 0 /\ \A o \in Startups : starter'[b] = o => Accounts(o)')
    <3>1. CASE owner' = 0 /\ lane'.outcome = "unknown"
      <4> SUFFICES ASSUME b # owner, NEW o \in Startups, starter[b] = o PROVE Accounts(o)'
        BY <1>2, <1>4, <1>5, <3>1
      <4>1. Answerable(b)
        BY <1>1, <1>6 DEF Handed
      <4>2. Accounts(o) /\ OnDisk(o)' = OnDisk(o)
        BY <1>8, <4>1, OpsAre DEF Answerable
      <4> QED BY <3>1, <4>2 DEF Accounts
    <3> QED BY <2>1, <3>1
  <2>6. Exclusive' /\ Held' /\ Handed'
    BY <1>1, <1>2, <1>4, <1>5, <2>1, <2>2, <2>4, <2>5, RuntimeHeld
  <2> QED BY <2>1, <2>3, <2>6 DEF Inv, Serving
<1>12. CASE BootstrapPublishes
  BY <1>11, <1>12 DEF BootstrapPublishes, b
<1>13. CASE BootstrapFails
  BY <1>10, <1>11, <1>13 DEF BootstrapFails, b
<1> QED BY <1>12, <1>13

LEMMA LaneStepKeeps == ASSUME Inv, LaneStep PROVE Inv'
<1>1. CASE /\ process = "up"
           /\ TakeJob \/ Settle
           /\ UNCHANGED <<serviceVars, processVars, targetVars>>
  <2>1. SameService
    BY <1>1, OnlyQuarantined DEF Inv, Serving
  <2>2. Elsewhere /\ dispatched' = dispatched
    BY <1>1, <2>1 DEF Elsewhere
  <2> QED BY <1>1, <2>2, TakeJobKeeps, SettleKeeps
<1>2. CASE RunRecords
  <2>1. SameService
    BY <1>2, OnlyQuarantined DEF Inv, Serving, RunRecords
  <2>2. Elsewhere /\ dispatched' = dispatched /\ RecordProvenance
    BY <1>2, <2>1 DEF Elsewhere, RunRecords
  <2> QED BY <2>2, RecordProvenanceKeeps
<1> QED BY <1>1, <1>2, BootstrapStartsKeeps, BootstrapEndsKeeps, RunFailsKeeps, RunDispatchesKeeps
        DEF LaneStep

-----------------------------------------------------------------------------
(* A crash, and the next process.                                          *)

LEMMA CrashKeeps == ASSUME Inv, Crash PROVE Inv'
<1>1. /\ RegistryTyped /\ Remembered /\ InLane /\ Answered /\ Dispatching
      /\ RuntimeTyped /\ Held /\ Handed
  BY DEF Inv, Registered, Serving
<1>2. /\ process' = "down" /\ svc' = NewService /\ api' = 0
      /\ reg' = [o \in Ops |-> "none"] /\ order' = <<>> /\ queue' = <<>> /\ lane' = IdleLane
      /\ UNCHANGED <<journal, told, refused, owner, of, alive, starter, dispatched>>
      /\ stray' = stray \cup Unrecorded
  BY DEF Crash, RegistryLost
<1>3. /\ \A o : OnDisk(o)' = OnDisk(o)
      /\ \A o, e : Journalled(o, e)' <=> Journalled(o, e)
  BY <1>2 DEF OnDisk, Journalled
<1>4. lane'.op = NoOp /\ lane'.step = "idle" /\ lane' \in Lanes
  BY <1>2 DEF IdleLane, Lanes
<1>5. RegistryTyped'
  <2>1. "none" \in States /\ <<>> \in Seq(Ops)
    BY DEF States
  <2> QED BY <1>1, <1>2, <1>4, <2>1 DEF RegistryTyped
<1>6. Remembered'
  <2>1. /\ \A o \in Ops : /\ OnDisk(o) # "none" <=> Journalled(o, "submitted")
                          /\ OnDisk(o) = "running" => Journalled(o, "started")
    BY <1>1 DEF Remembered
  <2>2. \A o \in Ops : /\ OnDisk(o)' # "none" <=> Journalled(o, "submitted")'
                       /\ OnDisk(o)' = "running" => Journalled(o, "started")'
    BY <1>3, <2>1
  <2>3. \A o \in Ops : reg'[o] = "none"
    BY <1>2
  <2> QED BY <1>2, <2>2, <2>3 DEF Remembered
<1>7. InLane'
  <2>1. \A o \in Ops : lane'.op # o
    BY <1>4, OpsAre
  <2>2. \A o \in Ops : ~In(o, queue')
    BY <1>2, EmptyIn
  <2> QED BY <1>4, <2>1, <2>2 DEF InLane
<1>8. Answered'
  BY <1>1, <1>2, <1>3 DEF Answered
<1>9. Dispatching'
  <2>1. \A o \in Runs : dispatched'[o] > 0 =>
            /\ dispatched'[o] = 1 /\ OnDisk(o)' \in Started
            /\ Journalled(o, "started")' /\ Journalled(o, "provenance")'
    BY <1>1, <1>2, <1>3 DEF Dispatching
  <2> QED BY <1>4, <2>1 DEF Dispatching
<1>10. Registered'
  BY <1>5, <1>6, <1>7, <1>8, <1>9 DEF Registered
<1>11. NewService \in Services /\ NewService.runtime = 0 /\ NewService.pending = 0 /\ NewService.orphan = 0
  BY DEF NewService, Services
<1>12. Publishing' = 0
  BY <1>4 DEF Publishing
<1>13. RuntimeTyped'
  <2>1. Unrecorded \subseteq alive
    BY DEF Unrecorded
  <2>2. stray' \subseteq 1 .. Len(starter')
    BY <1>1, <1>2, <2>1 DEF RuntimeTyped
  <2>3. api' \in Backends \cup {0} /\ process' \in {"up", "recovering", "down"}
    BY <1>2
  <2> QED BY <1>1, <1>2, <1>11, <2>2, <2>3 DEF RuntimeTyped
<1>14. /\ Known' = Known \ Unrecorded
       /\ owner \notin Unrecorded
  BY <1>2 DEF Known, Unrecorded
<1>15. Exclusive'
  BY <1>2, <1>11, <1>12 DEF Exclusive
<1>16. Held'
  <2>1. owner' \in Known' \cup {0} /\ \A b, c \in Known' : b = c
    BY <1>1, <1>2, <1>14 DEF Held
  <2> QED BY <1>2, <1>11, <1>12, <2>1 DEF Held
<1>17. Handed'
  <2> SUFFICES ASSUME NEW b \in Known \ Unrecorded, b # owner PROVE Answerable(b)'
    BY <1>2, <1>14 DEF Handed
  <2>1. Answerable(b) /\ b \in alive
    BY <1>1 DEF Handed, Known
  <2>2. starter[b] # NoOp
    BY <2>1 DEF Unrecorded
  <2>3. ASSUME NEW o \in Startups, starter[b] = o PROVE Accounts(o)'
    <3>1. Accounts(o)
      BY <2>1, <2>3 DEF Answerable
    <3>2. lane'.op # o
      BY <1>4, OpsAre
    <3> QED BY <1>3, <3>1, <3>2 DEF Accounts
  <2> QED BY <1>2, <2>2, <2>3 DEF Answerable
<1>18. OneStartup' /\ AbortCoversGeneration'
  BY <1>2 DEF OneStartup, AbortCoversGeneration
<1> QED BY <1>10, <1>13, <1>15, <1>16, <1>17, <1>18 DEF Inv, Serving

\* The order a new process reads has every operation of the journal.
LEMMA OrderRead ==
    ASSUME journal \in Seq(Records)
    PROVE  /\ OrderOnDisk \in Seq(Ops)
           /\ \A o \in Ops : Journalled(o, "submitted") => In(o, OrderOnDisk)
<1> DEFINE wanted == {Record(o, "submitted") : o \in Ops}
           submitted == Among(journal, wanted)
<1>1. /\ submitted \in Seq(Records \cap wanted)
      /\ \A r : In(r, submitted) <=> (In(r, journal) /\ r \in wanted)
  BY AmongFacts
<1>2. OrderOnDisk = [i \in DOMAIN submitted |-> submitted[i].op]
  BY DEF OrderOnDisk
<1> HIDE DEF submitted
<1>3. /\ Len(submitted) \in Nat /\ DOMAIN submitted = 1 .. Len(submitted)
      /\ \A i \in 1 .. Len(submitted) : submitted[i] \in Records
  BY <1>1, LenProperties, ElementOfSeq
<1>4. \A i \in 1 .. Len(submitted) : submitted[i].op \in Ops
  BY <1>3 DEF Records
<1>5. /\ OrderOnDisk \in [1 .. Len(submitted) -> Ops]
  BY <1>2, <1>3, <1>4
<1>6. OrderOnDisk \in Seq(Ops)
  BY <1>3, <1>5, SeqDef
<1>7. Len(OrderOnDisk) = Len(submitted)
  BY <1>3, <1>5, <1>6, LenProperties
<1>8. ASSUME NEW o \in Ops, Journalled(o, "submitted") PROVE In(o, OrderOnDisk)
  <2>1. In(Record(o, "submitted"), journal)
    BY <1>8, JournalledIs
  <2>2. In(Record(o, "submitted"), submitted)
    BY <1>1, <2>1
  <2>3. PICK i \in 1 .. Len(submitted) : submitted[i] = Record(o, "submitted")
    BY <2>2 DEF In
  <2>4. OrderOnDisk[i] = o
    BY <1>2, <1>3, <2>3 DEF Record
  <2> QED BY <1>7, <2>3, <2>4 DEF In
<1> QED BY <1>6, <1>8

LEMMA BootKeeps == ASSUME Inv, Boot PROVE Inv'
<1>1. /\ RegistryTyped /\ Remembered /\ InLane /\ Answered /\ Dispatching
      /\ RuntimeTyped /\ Held /\ Handed /\ svc = NewService /\ api = 0
  BY DEF Inv, Registered, Serving, Held, Boot
<1>2. /\ process = "down" /\ process' = "recovering"
      /\ reg' = [o \in Ops |-> OnDisk(o)] /\ order' = OrderOnDisk
      /\ UNCHANGED <<journal, queue, lane, told, refused, api, owner, of, targetVars>>
      /\ svc' = [svc EXCEPT !.orphan = owner]
  BY DEF Boot, Rehydrated
<1>3. /\ \A o : OnDisk(o)' = OnDisk(o)
      /\ \A o, e : Journalled(o, e)' <=> Journalled(o, e)
  BY <1>2 DEF OnDisk, Journalled
<1>4. queue = <<>> /\ lane = IdleLane
  BY <1>1, <1>2 DEF Remembered
<1>5. /\ order' \in Seq(Ops) /\ \A o \in Ops : Journalled(o, "submitted") => In(o, order')
  BY <1>1, <1>2, OrderRead DEF RegistryTyped
<1>6. \A o : OnDisk(o) \in States
  <2> SUFFICES ASSUME NEW o PROVE OnDisk(o) \in States
    OBVIOUS
  <2>1. PICK f \in [0 .. Len(journal) -> States] : OnDisk(o) = f[Len(journal)]
    BY <1>1, ReplayIs DEF RegistryTyped, OnDisk
  <2>2. Len(journal) \in 0 .. Len(journal)
    BY <1>1, LenProperties DEF RegistryTyped
  <2> QED BY <2>1, <2>2
<1>7. RegistryTyped'
  BY <1>1, <1>2, <1>5, <1>6 DEF RegistryTyped
<1>8. \A o \in Ops : /\ reg'[o] = OnDisk(o)'
                     /\ OnDisk(o)' # "none" <=> Journalled(o, "submitted")'
                     /\ OnDisk(o)' = "running" => Journalled(o, "started")'
                     /\ reg'[o] # "none" => In(o, order')
  BY <1>1, <1>2, <1>3, <1>5 DEF Remembered
<1>9. Remembered'
  <2>1. \A o \in Ops : Remembers(o)'
    BY <1>8 DEF Remembers
  <2> QED BY <1>2, <1>4, <1>8, <2>1 DEF Remembered
<1>10. InLane' /\ Answered' /\ Dispatching'
  <2>1. InLane'
    BY <1>1, <1>2, <1>3 DEF InLane
  <2>2. Answered'
    BY <1>1, <1>2, <1>3 DEF Answered
  <2>3. Dispatching'
    BY <1>1, <1>2, <1>3 DEF Dispatching
  <2> QED BY <2>1, <2>2, <2>3
<1>11. Registered'
  BY <1>7, <1>9, <1>10 DEF Registered
<1>12. /\ svc' \in Services /\ svc'.runtime = 0 /\ svc'.pending = 0 /\ svc'.orphan = owner
       /\ svc' = [NewService EXCEPT !.orphan = owner']
  BY <1>1, <1>2 DEF RuntimeTyped, Services, NewService
<1>13. Publishing' = 0 /\ Known' = Known
  BY <1>2, <1>4 DEF Publishing, Known, IdleLane
<1>14. RuntimeTyped'
  BY <1>1, <1>2, <1>12 DEF RuntimeTyped
<1>15. Exclusive'
  BY <1>1, <1>2, <1>12, <1>13 DEF Exclusive
<1>16. Held'
  <2>1. owner \in Known \cup {0} /\ \A b, c \in Known : b = c
    BY <1>1 DEF Held
  <2> QED BY <1>1, <1>2, <1>12, <1>13, <2>1 DEF Held
<1>17. Handed'
  <2> SUFFICES ASSUME NEW b \in Known, b # owner PROVE Answerable(b)'
    BY <1>2, <1>13 DEF Handed
  <2>1. Answerable(b)
    BY <1>1 DEF Handed
  <2>2. starter[b] # NoOp
    BY <1>2, <2>1 DEF Answerable
  <2>3. \A o \in Startups : starter[b] = o => Accounts(o)'
    BY <1>2, <1>3, <2>1 DEF Answerable, Accounts
  <2> QED BY <1>2, <2>2, <2>3 DEF Answerable
<1>18. OneStartup' /\ AbortCoversGeneration'
  BY <1>2 DEF OneStartup, AbortCoversGeneration
<1> QED BY <1>11, <1>14, <1>15, <1>16, <1>17, <1>18 DEF Inv, Serving

LEMMA RecoverKeeps == ASSUME Inv, Recover PROVE Inv'
<1>1. /\ Registered /\ RegistryTyped /\ Remembered /\ InLane /\ RuntimeTyped /\ Held /\ Exclusive
      /\ Handed
  BY DEF Inv, Registered, Serving
<1>2. /\ process = "recovering" /\ process' = process /\ Unsettled # <<>>
      /\ Transition(Head(Unsettled), "unknown")
      /\ UNCHANGED <<order, queue, lane, serviceVars, processVars, targetVars>>
  BY DEF Recover, RecoverNext
<1>3. /\ queue = <<>> /\ lane = IdleLane
      /\ \A o \in Ops : reg[o] = OnDisk(o)
  BY <1>1, <1>2 DEF Remembered
<1> DEFINE open == {o \in Ops : reg[o] \in Live}
<1>4. PICK o \in Ops : o = Head(Unsettled) /\ reg[o] \in Live
  <2>1. Unsettled \in Seq(Ops \cap open)
    BY <1>1, AmongFacts DEF Unsettled, RegistryTyped
  <2>2. Head(Unsettled) \in Ops \cap open
    BY <1>2, <2>1, TailIn
  <2> QED BY <2>2
<1>5. "unknown" \in Terminal /\ "unknown" \in Started
  BY DEF Terminal, Started
<1>6. /\ Moved /\ \A p \in Ops \ {o} : Stays(p)
      /\ reg'[o] = "unknown" /\ OnDisk(o)' = "unknown"
  BY <1>1, <1>2, <1>3, <1>4, <1>5, TransitionMoves
<1>7. \A p \in Ops : reg'[p] = OnDisk(p)'
  BY <1>3, <1>6 DEF Stays
<1>8. Registered'
  BY <1>1, <1>2, <1>3, <1>6, <1>7, LaneKept
<1>9. RuntimeTyped'
  BY <1>1, <1>2 DEF RuntimeTyped
<1>10. Known' = Known /\ Publishing' = Publishing
  BY <1>2 DEF Known, Publishing
<1>11. Exclusive'
  BY <1>1, <1>2, <1>10 DEF Exclusive
<1>12. Held'
  BY <1>1, <1>2, <1>10 DEF Held
<1>13. Handed'
  <2> SUFFICES ASSUME NEW b \in Known \ {owner} PROVE Answerable(b)'
    BY <1>2, <1>10 DEF Handed
  <2>1. Answerable(b)
    BY <1>1 DEF Handed
  <2>2. ASSUME NEW s \in Startups, Accounts(s) PROVE Accounts(s)'
    <3>1. OnDisk(s)' = OnDisk(s) \/ OnDisk(s)' = "unknown"
      BY <1>6, OpsAre DEF Stays
    <3>2. lane' = lane
      BY <1>2
    <3> QED BY <2>2, <3>1, <3>2 DEF Accounts
  <2>3. starter[b] # NoOp
    BY <1>2, <2>1 DEF Answerable
  <2>4. \A s \in Startups : starter[b] = s => Accounts(s)'
    BY <2>1, <2>2 DEF Answerable
  <2> QED BY <1>2, <2>3, <2>4 DEF Answerable
<1>14. OneStartup' /\ AbortCoversGeneration'
  BY <1>2 DEF OneStartup, AbortCoversGeneration
<1> QED BY <1>8, <1>9, <1>11, <1>12, <1>13, <1>14 DEF Inv, Serving

\* What the new process makes of the startup that is not settled.
LEMMA RecoverableIs ==
    ASSUME RegistryTyped, Remembered, process = "recovering", \A o \in Ops : reg[o] \notin Live
    PROVE  /\ RecoverableStartup \in Startups \cup {NoOp}
           /\ \A o \in Startups : reg[o] = "unknown" => RecoverableStartup \in Unknowns
<1> DEFINE S == {o \in Startups : reg[o] \in Live \cup {"unknown"}}
           open == Among(order, S)
<1>1. /\ open \in Seq(Ops \cap S)
      /\ \A o : In(o, open) <=> (In(o, order) /\ o \in S)
  BY AmongFacts DEF RegistryTyped
<1>2. RecoverableStartup = IF open = <<>> THEN NoOp ELSE open[Len(open)]
  BY DEF RecoverableStartup
<1> HIDE DEF open
<1>3. open # <<>> => open[Len(open)] \in Unknowns
  <2> SUFFICES ASSUME open # <<>> PROVE open[Len(open)] \in Unknowns
    OBVIOUS
  <2>1. Len(open) \in Nat /\ Len(open) # 0
    BY <1>1, LenProperties, EmptySeq
  <2>2. Len(open) \in 1 .. Len(open)
    BY <2>1
  <2>3. open[Len(open)] \in Ops \cap S
    BY <1>1, <2>2, ElementOfSeq
  <2> QED BY <2>3 DEF Unknowns
<1>4. RecoverableStartup \in Startups \cup {NoOp}
  BY <1>2, <1>3 DEF Unknowns
<1>5. ASSUME NEW o \in Startups, reg[o] = "unknown" PROVE open # <<>>
  <2>1. In(o, order)
    BY <1>5, OpsAre DEF Remembered, Remembers
  <2>2. In(o, open)
    BY <1>1, <1>5, <2>1
  <2> QED BY <2>2, EmptyIn
<1> QED BY <1>2, <1>3, <1>4, <1>5

LEMMA OpenKeeps == ASSUME Inv, Open PROVE Inv'
<1>1. /\ Registered /\ RegistryTyped /\ Remembered /\ InLane /\ RuntimeTyped /\ Held /\ Exclusive
      /\ Handed
  BY DEF Inv, Registered, Serving
<1>2. /\ process = "recovering" /\ process' = "up" /\ Unsettled = <<>>
      /\ svc' = [svc EXCEPT !.request = RecoverableStartup]
      /\ UNCHANGED <<registryVars, api, owner, of, targetVars>>
  BY DEF Open
<1>3. /\ queue = <<>> /\ lane = IdleLane /\ svc = [NewService EXCEPT !.orphan = owner] /\ api = 0
      /\ \A o \in Ops : reg[o] = OnDisk(o)
  BY <1>1, <1>2 DEF Remembered, Held
<1>4. \A o \in Ops : reg[o] \notin Live
  <2> DEFINE open == {o \in Ops : reg[o] \in Live}
  <2>1. \A o : In(o, Unsettled) <=> (In(o, order) /\ o \in open)
    BY <1>1, AmongFacts DEF Unsettled, RegistryTyped
  <2>2. ASSUME NEW o \in Ops, reg[o] \in Live PROVE FALSE
    <3>1. In(o, order)
      BY <1>1, <1>2, <2>2 DEF Remembered, Remembers, Live
    <3>2. In(o, Unsettled)
      BY <2>1, <2>2, <3>1
    <3> QED BY <1>2, <3>2, EmptyIn
  <2> QED BY <2>2
<1>5. /\ RecoverableStartup \in Startups \cup {NoOp}
      /\ \A o \in Startups : reg[o] = "unknown" => RecoverableStartup \in Unknowns
  BY <1>1, <1>2, <1>4, RecoverableIs
<1>6. Moved
  BY <1>1, <1>2, NothingMoved DEF RegistryTyped
<1>7. Registered'
  BY <1>1, <1>2, <1>3, <1>6, LaneKept
<1>8. /\ svc' \in Services /\ svc'.runtime = 0 /\ svc'.pending = 0 /\ svc'.orphan = owner
      /\ svc'.request = RecoverableStartup
  <2> DEFINE request == RecoverableStartup
  <2>1. request \in Startups \cup {NoOp} /\ svc' = [svc EXCEPT !.request = request]
    BY <1>2, <1>5
  <2> HIDE DEF request
  <2>2. owner \in Backends \cup {0} /\ svc \in Services
    BY <1>1 DEF RuntimeTyped
  <2>3. svc.runtime = 0 /\ svc.pending = 0 /\ svc.orphan = owner
    BY <1>3 DEF NewService
  <2>4. svc' \in Services /\ svc'.runtime = 0 /\ svc'.pending = 0 /\ svc'.orphan = owner /\ svc'.request = request
    BY <2>1, <2>2, <2>3 DEF Services
  <2> QED BY <2>4 DEF request
<1>9. lane.op = NoOp /\ lane.step = "idle" /\ lane' = lane /\ queue' = queue /\ reg' = reg
  BY <1>2, <1>3 DEF IdleLane
<1>10. RuntimeTyped'
  BY <1>1, <1>2, <1>8 DEF RuntimeTyped
<1>11. Known' = Known /\ Publishing' = 0 /\ api' = 0 /\ owner' = owner
  BY <1>2, <1>3, <1>9 DEF Known, Publishing
<1>12. Exclusive'
  BY <1>8, <1>11 DEF Exclusive
<1>13. Held'
  <2>1. owner \in Known \cup {0} /\ \A b, c \in Known : b = c
    BY <1>1 DEF Held
  <2> QED BY <1>2, <1>8, <1>11, <2>1 DEF Held
<1>14. OneStartup'
  <2>1. \A o \in Startups : ~Waiting(o)'
    <3>1. \A o \in Startups : ~In(o, queue) /\ lane.op # o
      BY <1>3, <1>9, EmptyIn, OpsAre
    <3> QED BY <1>9, <3>1 DEF Waiting
  <2> QED BY <1>4, <1>9, <2>1, OpsAre DEF OneStartup
<1>15. Handed'
  <2> SUFFICES ASSUME NEW b \in Known \ {owner} PROVE Answerable(b)'
    BY <1>11 DEF Handed
  <2>1. Answerable(b)
    BY <1>1 DEF Handed
  <2>2. starter[b] # NoOp
    BY <1>2, <2>1 DEF Answerable
  <2>3. starter[b] \in Startups
    <3>1. starter \in Seq(Startups \cup {NoOp}) /\ b \in 1 .. Len(starter)
      BY <1>1 DEF RuntimeTyped, Known
    <3> QED BY <2>2, <3>1, ElementOfSeq
  <2>4. PICK o \in Startups : starter[b] = o
    BY <2>3
  <2>5. Accounts(o) /\ reg[o] = "unknown"
    <3>1. Accounts(o)
      BY <2>1, <2>4 DEF Answerable
    <3>2. reg[o] = OnDisk(o) /\ reg[o] \notin Live
      BY <1>3, <1>4, OpsAre
    <3> QED BY <3>1, <3>2 DEF Accounts
  <2>6. svc'.request \in Unknowns'
    <3>1. RecoverableStartup \in Unknowns
      BY <1>5, <2>5
    <3> QED BY <1>8, <1>9, <3>1 DEF Unknowns
  <2>7. Accounts(o)'
    <3>1. OnDisk(o)' = OnDisk(o)
      BY <1>2 DEF OnDisk
    <3> QED BY <1>9, <2>5, <3>1 DEF Accounts
  <2>8. \A s \in Startups : starter'[b] = s => Accounts(s)'
    BY <1>2, <2>4, <2>7
  <2>9. starter'[b] # NoOp
    BY <1>2, <2>2
  <2> QED BY <2>6, <2>8, <2>9 DEF Answerable
<1>16. AbortCoversGeneration'
  BY <1>4, <1>9, OpsAre DEF AbortCoversGeneration
<1> QED BY <1>7, <1>10, <1>12, <1>13, <1>14, <1>15, <1>16 DEF Inv, Serving

-----------------------------------------------------------------------------
(* The invariant of the specification, and what follows from it.           *)

LEMMA InvInit == Init => Inv
<1> SUFFICES ASSUME Init PROVE Inv
  OBVIOUS
<1>1. /\ journal = <<>> /\ reg = [o \in Ops |-> "none"] /\ order = <<>> /\ queue = <<>>
      /\ lane = IdleLane /\ told = [o \in Ops |-> {}] /\ refused = {}
      /\ svc = NewService /\ api = 0 /\ owner = 0 /\ of = [o \in Runs |-> 0]
      /\ process = "up" /\ alive = {} /\ starter = <<>> /\ stray = {}
      /\ dispatched = [o \in Runs |-> 0]
  BY DEF Init, RegistryInit
<1>2. lane.op = NoOp /\ lane.step = "idle" /\ lane \in Lanes /\ "none" \in States
  BY <1>1 DEF IdleLane, Lanes, States
<1>3. \A o : OnDisk(o) = "none"
  BY <1>1, ReplayEmpty DEF OnDisk
<1>4. \A o, e : ~Journalled(o, e)
  BY <1>1 DEF Journalled
<1>5. RegistryTyped
  <2>1. /\ <<>> \in Seq(Records) /\ <<>> \in Seq(Ops)
    OBVIOUS
  <2> QED BY <1>1, <1>2, <2>1 DEF RegistryTyped
<1>6. Remembered
  <2>1. \A o \in Ops : reg[o] = OnDisk(o) /\ reg[o] = "none"
    BY <1>1, <1>3
  <2>2. \A o \in Ops : Remembers(o)
    BY <2>1 DEF Remembers
  <2> QED BY <1>1, <1>3, <1>4, <2>2 DEF Remembered
<1>7. InLane
  <2>1. \A o \in Ops : lane.op # o /\ ~In(o, queue)
    BY <1>1, <1>2, EmptyIn, OpsAre
  <2> QED BY <1>2, <2>1 DEF InLane
<1>8. Answered
  BY <1>1, <1>3 DEF Answered
<1>9. Dispatching
  BY <1>1, <1>2 DEF Dispatching
<1>10. RuntimeTyped
  <2>1. svc \in Services
    BY <1>1 DEF NewService, Services
  <2>2. starter \in Seq(Startups \cup {NoOp}) /\ Len(starter) = 0
    BY <1>1
  <2>3. Len(starter) <= MaxBackend
    BY <2>2, MaxBackendAssumption
  <2> QED BY <1>1, <2>1, <2>2, <2>3 DEF RuntimeTyped
<1>11. OneStartup
  <2>1. \A o \in Startups : reg[o] \notin Live /\ ~Waiting(o)
    BY <1>1, <1>2, EmptyIn, OpsAre DEF Live, Waiting
  <2> QED BY <1>2, <2>1 DEF OneStartup
<1>12. svc.runtime = 0 /\ svc.pending = 0 /\ svc.orphan = 0 /\ Publishing = 0 /\ Known = {}
  BY <1>1, <1>2 DEF NewService, Publishing, Known
<1>13. Exclusive /\ Held /\ Handed
  BY <1>1, <1>12 DEF Exclusive, Held, Handed
<1>14. AbortCoversGeneration
  BY <1>1, OpsAre DEF AbortCoversGeneration, Live
<1> QED BY <1>5, <1>6, <1>7, <1>8, <1>9, <1>10, <1>11, <1>13, <1>14 DEF Inv, Registered, Serving

LEMMA InvStutters == ASSUME Inv, UNCHANGED vars PROVE Inv'
<1>1. /\ \A o : OnDisk(o)' = OnDisk(o)
      /\ \A o, e : Journalled(o, e)' <=> Journalled(o, e)
  BY DEF OnDisk, Journalled, vars
<1>2. /\ RegistryTyped /\ Remembered /\ InLane /\ Answered /\ Dispatching /\ RuntimeTyped
      /\ OneStartup /\ Exclusive /\ Held /\ Handed /\ AbortCoversGeneration
  BY DEF Inv, Registered, Serving
<1>3. RegistryTyped' /\ RuntimeTyped'
  BY <1>2 DEF RegistryTyped, RuntimeTyped, vars
<1>4. Remembered'
  <2>1. \A o : Remembers(o) => Remembers(o)'
    BY <1>1 DEF Remembers, vars
  <2> QED BY <1>1, <1>2, <2>1 DEF Remembered, vars
<1>5. InLane' /\ Answered'
  BY <1>1, <1>2 DEF InLane, Answered, vars
<1>6. Dispatching'
  BY <1>1, <1>2 DEF Dispatching, vars
<1>7. OneStartup'
  <2>1. \A o : Waiting(o)' <=> Waiting(o)
    BY DEF Waiting, vars
  <2> QED BY <1>2, <2>1 DEF OneStartup, vars
<1>8. Publishing' = Publishing /\ Known' = Known
  BY DEF Publishing, Known, vars
<1>9. Exclusive' /\ Held'
  BY <1>2, <1>8 DEF Exclusive, Held, vars
<1>10. Handed'
  <2>1. /\ \A o : Accounts(o) => Accounts(o)'
        /\ Unknowns' = Unknowns /\ (Unheld' <=> Unheld)
    BY <1>1, <1>8 DEF Accounts, Unknowns, Unheld, vars
  <2>2. ASSUME NEW b, Answerable(b) PROVE Answerable(b)'
    BY <2>1, <2>2 DEF Answerable, vars
  <2> QED BY <1>2, <1>8, <2>2 DEF Handed, vars
<1>11. AbortCoversGeneration'
  BY <1>2 DEF AbortCoversGeneration, vars
<1> QED BY <1>3, <1>4, <1>5, <1>6, <1>7, <1>9, <1>10, <1>11 DEF Inv, Registered, Serving

LEMMA InvStep == Inv /\ [Next]_vars => Inv'
<1> SUFFICES ASSUME Inv, [Next]_vars PROVE Inv'
  OBVIOUS
<1>1. CASE LaneStep
  BY <1>1, LaneStepKeeps
<1>2. CASE EnsureReady \/ RuntimeStart \/ StartPublishes
  BY <1>2, EnsureReadyKeeps, RuntimeStartKeeps, StartPublishesKeeps
<1>3. CASE Restart
  BY <1>3, RestartOverOrphanKeeps, RestartOverUnknownKeeps, RestartOverRuntimeKeeps DEF Restart
<1>4. ASSUME NEW o, EnsureStarts(o) \/ SubmitRun(o) PROVE Inv'
  BY <1>4, EnsureStartsKeeps, SubmitRunKeeps
<1>5. CASE Close \/ ServiceCloses
  BY <1>5, ClosesKeep
<1>6. CASE Crash \/ Boot \/ Recover \/ Open
  BY <1>6, CrashKeeps, BootKeeps, RecoverKeeps, OpenKeeps
<1>7. CASE UNCHANGED vars
  BY <1>7, InvStutters
<1> QED BY <1>1, <1>2, <1>3, <1>4, <1>5, <1>6, <1>7 DEF Next

\* The inductive invariant, for any number of startups, runs, backends and crashes.
THEOREM AgentRuntimeInvariant == Spec => []Inv
<1>1. Init => Inv
  BY InvInit
<1>2. Inv /\ [Next]_vars => Inv'
  BY InvStep
<1> QED BY <1>1, <1>2, PTL DEF Spec

\* Memory runs ahead of the journal for a refused submission only (operations.py), and
\* every field keeps its type.
THEOREM AgentRuntimeTypeOK == Spec => []TypeOK
<1>1. Inv => TypeOK
  <2> SUFFICES ASSUME Inv PROVE TypeOK
    OBVIOUS
  <2>1. RegistryTyped /\ Remembered /\ RuntimeTyped
    BY DEF Inv, Registered, Serving
  <2>2. ASSUME NEW i \in DOMAIN journal
        PROVE  /\ journal[i].op \in Ops
               /\ journal[i].event \in {"submitted", "started", "provenance"} \cup Terminal
    <3>1. journal[i] \in Records
      BY <2>1, LenProperties, ElementOfSeq DEF RegistryTyped
    <3> QED BY <3>1 DEF Records, Events
  <2>3. reg \in [Ops -> {"none"} \cup Live \cup Terminal]
    BY <2>1 DEF RegistryTyped, States
  <2>4. ASSUME NEW o \in Ops, process # "down", reg[o] # OnDisk(o)
        PROVE  o \in refused /\ reg[o] # "completed"
    BY <2>1, <2>4 DEF Remembered, Remembers, Forgettable
  <2>5. lane.step \in {"idle", "execute", "recorded", "publish", "settle"}
    BY <2>1 DEF RegistryTyped, Lanes
  <2>6. svc.runtime \in Backends \cup {0} /\ svc.request \in Startups \cup {NoOp}
    BY <2>1 DEF RuntimeTyped, Services
  <2>7. /\ owner \in Backends \cup {0} /\ api \in Backends \cup {0}
    BY <2>1 DEF RuntimeTyped
  <2>8. alive \subseteq Backends
    <3>1. alive \subseteq 1 .. Len(starter) /\ Len(starter) <= MaxBackend /\ Len(starter) \in Nat
      BY <2>1, LenProperties DEF RuntimeTyped
    <3>2. 1 .. Len(starter) \subseteq 1 .. MaxBackend
      BY <3>1, MaxBackendAssumption
    <3> QED BY <3>1, <3>2 DEF Backends
  <2> QED BY <2>2, <2>3, <2>4, <2>5, <2>6, <2>7, <2>8 DEF TypeOK
<1> QED BY <1>1, AgentRuntimeInvariant, PTL

\* An answer that was shown as completed or failed is shown so ever after, by this process
\* and by the next one.
THEOREM AgentRuntimeAnswersLast == Spec => []AnswersLast
<1>1. Inv => AnswersLast
  <2> SUFFICES ASSUME Inv, process = "up", NEW o \in Ops, Journalled(o, "submitted")
               PROVE  told[o] \subseteq {reg[o]} \cup (IF o \in Startups /\ reg[o] = "failed"
                                                      THEN {"unknown"} ELSE {})
    BY DEF AnswersLast
  <2>1. Remembered /\ Answered
    BY DEF Inv, Registered
  <2>2. OnDisk(o) # "none"
    BY <2>1 DEF Remembered
  <2>3. reg[o] = OnDisk(o)
    BY <2>1, <2>2 DEF Remembered, Remembers
  <2> QED BY <2>1, <2>2, <2>3 DEF Answered
<1> QED BY <1>1, AgentRuntimeInvariant, PTL

\* Nothing reaches a backend twice, or before the journal has it as started and has the
\* identity of its execution.
THEOREM AgentRuntimeDispatchIsJournalled == Spec => []DispatchIsJournalled
<1>1. Inv => DispatchIsJournalled
  <2> SUFFICES ASSUME Inv, NEW o \in Runs, dispatched[o] > 0
               PROVE  /\ dispatched[o] = 1
                      /\ Journalled(o, "submitted") /\ Journalled(o, "started")
                      /\ Journalled(o, "provenance")
    BY DEF DispatchIsJournalled
  <2>1. Remembered /\ Dispatching /\ o \in Ops
    BY OpsAre DEF Inv, Registered
  <2>2. /\ dispatched[o] = 1 /\ OnDisk(o) \in Started
        /\ Journalled(o, "started") /\ Journalled(o, "provenance")
    BY <2>1 DEF Dispatching
  <2>3. OnDisk(o) # "none"
    BY <2>2 DEF Started, Terminal
  <2> QED BY <2>1, <2>2, <2>3 DEF Remembered
<1> QED BY <1>1, AgentRuntimeInvariant, PTL

\* One runtime at a time, in the hands of the service, of the lane, of a call, of the
\* ownership file or of a startup whose outcome is open.
THEOREM AgentRuntimeRuntimeOwned == Spec => []RuntimeOwned
<1>1. Inv => RuntimeOwned
  <2> SUFFICES ASSUME Inv PROVE RuntimeOwned
    OBVIOUS
  <2>1. RuntimeTyped /\ Held /\ Handed
    BY DEF Inv, Serving
  <2>2. OneRuntime
    <3>1. Known = {} \/ \E b : Known = {b}
      BY <2>1 DEF Held
    <3>2. Cardinality(Known) <= 1
      <4>1. CASE Known = {}
        <5>1. Cardinality(Known) = 0
          BY <4>1, FS_EmptySet
        <5> QED BY <5>1
      <4>2. ASSUME NEW b, Known = {b} PROVE Cardinality(Known) <= 1
        <5>1. Cardinality(Known) = 1
          BY <4>2, FS_Singleton
        <5> QED BY <5>1
      <4> QED BY <3>1, <4>1, <4>2
    <3> QED BY <3>2 DEF OneRuntime, Known
  <2>3. RuntimeAccounted
    <3> SUFFICES ASSUME NEW b \in Known
                 PROVE  \/ b \in {svc.runtime, svc.pending, svc.orphan, lane.backend, api, owner}
                        \/ starter[b] # NoOp /\ OnDisk(starter[b]) \in Live \cup {"unknown"}
      BY DEF RuntimeAccounted, Known
    <3>1. CASE b = owner
      BY <3>1
    <3>2. CASE b # owner
      <4>1. Answerable(b)
        BY <2>1, <3>2 DEF Handed
      <4>2. CASE starter[b] = NoOp
        BY <4>1, <4>2 DEF Answerable
      <4>3. CASE starter[b] # NoOp
        <5>1. starter[b] \in Startups
          <6>1. starter \in Seq(Startups \cup {NoOp}) /\ b \in 1 .. Len(starter)
            BY <2>1 DEF RuntimeTyped, Known
          <6> QED BY <4>3, <6>1, ElementOfSeq
        <5>2. Accounts(starter[b])
          BY <4>1, <5>1 DEF Answerable
        <5> QED BY <4>3, <5>2 DEF Accounts
      <4> QED BY <4>2, <4>3
    <3> QED BY <3>1, <3>2
  <2> QED BY <2>2, <2>3 DEF RuntimeOwned
<1> QED BY <1>1, AgentRuntimeInvariant, PTL

\* A run that still looks queued or running belongs to the runtime there is: closing or
\* replacing a runtime leaves no run of it to wait for.
THEOREM AgentRuntimeAbortCoversGeneration == Spec => []AbortCoversGeneration
<1>1. Inv => AbortCoversGeneration
  BY DEF Inv, Serving
<1> QED BY <1>1, AgentRuntimeInvariant, PTL

=============================================================================
