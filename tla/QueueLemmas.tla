---------------------------- MODULE QueueLemmas ----------------------------
(***************************************************************************)
(* What the mailbox of RdbgArbiter does to its deque of tickets: append,   *)
(* appendleft, popleft, remove and the cancellation of a prefix, for every *)
(* sequence over every set. With them, the least member of a set of        *)
(* numbers and the induction that follows from it.                         *)
(***************************************************************************)
EXTENDS Integers, Sequences, SequencesExt, SequenceTheorems, WellFoundedInduction, TLAPS

\* The members of q are distinct.
Distinct(q) == \A i, j \in DOMAIN q : q[i] = q[j] => i = j

\* Appending a new element.
LEMMA AppendDistinct ==
    ASSUME NEW S, NEW q \in Seq(S), NEW c \in S, c \notin ToSet(q), Distinct(q)
    PROVE  ToSet(Append(q, c)) = ToSet(q) \cup {c} /\ Distinct(Append(q, c))
<1>1. /\ Len(q) \in Nat /\ DOMAIN q = 1..Len(q)
      /\ DOMAIN Append(q, c) = 1..(Len(q) + 1)
      /\ \A i \in 1..Len(q) : Append(q, c)[i] = q[i]
      /\ Append(q, c)[Len(q) + 1] = c
  BY AppendProperties, LenProperties
<1>2. ToSet(Append(q, c)) = ToSet(q) \cup {c}
  BY <1>1 DEF ToSet
<1>3. Distinct(Append(q, c))
  BY <1>1 DEF ToSet, Distinct
<1> QED
  BY <1>2, <1>3

\* Putting a new element first.
LEMMA PushDistinct ==
    ASSUME NEW S, NEW q \in Seq(S), NEW c \in S, c \notin ToSet(q), Distinct(q)
    PROVE  ToSet(<<c>> \o q) = ToSet(q) \cup {c} /\ Distinct(<<c>> \o q)
<1> DEFINE p == <<c>> \o q
<1>1. <<c>> \in Seq(S) /\ Len(<<c>>) = 1 /\ <<c>>[1] = c
  OBVIOUS
<1>2. /\ Len(q) \in Nat /\ DOMAIN q = 1..Len(q)
      /\ DOMAIN p = 1..(Len(q) + 1)
      /\ p[1] = c
      /\ \A i \in 2..(Len(q) + 1) : p[i] = q[i - 1]
  BY <1>1, ConcatProperties, LenProperties
<1> HIDE DEF p
<1>3. ToSet(p) = ToSet(q) \cup {c}
  <2>1. ToSet(p) \subseteq ToSet(q) \cup {c}
    BY <1>2 DEF ToSet
  <2>2. ASSUME NEW i \in 1..Len(q) PROVE q[i] \in ToSet(p)
    <3>1. i + 1 \in DOMAIN p /\ p[i + 1] = q[i]
      BY <1>2
    <3> QED BY <3>1 DEF ToSet
  <2>3. c \in ToSet(p)
    BY <1>2 DEF ToSet
  <2> QED BY <1>2, <2>1, <2>2, <2>3 DEF ToSet
<1>4. Distinct(p)
  BY <1>2, SMTT(30) DEF ToSet, Distinct
<1> QED
  BY <1>3, <1>4 DEF p

\* Every suffix.
LEMMA SuffixDistinct ==
    ASSUME NEW S, NEW q \in Seq(S), NEW n \in DOMAIN q, Distinct(q)
    PROVE  /\ ToSet(SubSeq(q, n, Len(q))) = ToSet(q) \ {q[j] : j \in 1..(n - 1)}
           /\ Distinct(SubSeq(q, n, Len(q)))
<1> DEFINE p == SubSeq(q, n, Len(q))
<1>1. /\ Len(q) \in Nat /\ DOMAIN q = 1..Len(q) /\ n \in 1..Len(q)
      /\ DOMAIN p = 1..(Len(q) - n + 1)
      /\ \A i \in 1..(Len(q) - n + 1) : p[i] = q[n + i - 1]
  BY SubSeqProperties, LenProperties, ElementOfSeq
<1> HIDE DEF p
<1>2. ASSUME NEW i \in n..Len(q) PROVE q[i] \in ToSet(p)
  <2>1. i - n + 1 \in 1..(Len(q) - n + 1) /\ n + (i - n + 1) - 1 = i
    BY <1>1
  <2>2. i - n + 1 \in DOMAIN p /\ p[i - n + 1] = q[i]
    BY <1>1, <2>1
  <2> QED BY <2>2 DEF ToSet
<1>3. ASSUME NEW k \in DOMAIN p PROVE p[k] \in ToSet(q) \ {q[j] : j \in 1..(n - 1)}
  <2>1. n + k - 1 \in n..Len(q) /\ n + k - 1 \in DOMAIN q /\ p[k] = q[n + k - 1]
    BY <1>1
  <2>2. \A j \in 1..(n - 1) : j \in DOMAIN q /\ j # n + k - 1
    BY <1>1, <2>1
  <2> QED BY <2>1, <2>2 DEF ToSet, Distinct
<1>4. ASSUME NEW x \in ToSet(q) \ {q[j] : j \in 1..(n - 1)} PROVE x \in ToSet(p)
  <2>1. PICK k \in DOMAIN q : x = q[k]
    BY DEF ToSet
  <2>2. k \in n..Len(q)
    BY <1>1, <2>1
  <2> QED BY <1>2, <2>1, <2>2
<1>5. ToSet(p) = ToSet(q) \ {q[j] : j \in 1..(n - 1)}
  <2>1. \A x \in ToSet(p) : \E k \in DOMAIN p : x = p[k]
    BY DEF ToSet
  <2> QED BY <1>3, <1>4, <2>1
<1>6. Distinct(p)
  BY <1>1, SMTT(30) DEF Distinct
<1> QED
  BY <1>5, <1>6 DEF p

\* Dropping the head.
LEMMA TailDistinct ==
    ASSUME NEW S, NEW q \in Seq(S), q # <<>>, Distinct(q)
    PROVE  ToSet(Tail(q)) = ToSet(q) \ {Head(q)} /\ Distinct(Tail(q)) /\ Head(q) \in ToSet(q)
<1> DEFINE p == Tail(q)
<1>1. /\ Len(q) \in Nat \ {0} /\ DOMAIN q = 1..Len(q) /\ Head(q) = q[1]
      /\ DOMAIN p = 1..(Len(q) - 1)
      /\ \A i \in 1..(Len(q) - 1) : p[i] = q[i + 1]
  BY HeadTailProperties, LenProperties, EmptySeq
<1> HIDE DEF p
<1>2. ASSUME NEW i \in 2..Len(q) PROVE q[i] \in ToSet(p)
  <2>1. i - 1 \in DOMAIN p /\ p[i - 1] = q[i]
    BY <1>1
  <2> QED BY <2>1 DEF ToSet
<1>3. ToSet(p) = {q[i] : i \in 2..Len(q)}
  BY <1>1, <1>2 DEF ToSet
<1>4. ToSet(q) \ {Head(q)} = {q[i] : i \in 2..Len(q)} /\ Head(q) \in ToSet(q)
  BY <1>1 DEF ToSet, Distinct
<1>5. Distinct(p)
  BY <1>1 DEF Distinct
<1> QED
  BY <1>3, <1>4, <1>5 DEF p

\* What removing one element leaves at each place.
LEMMA RemoveAtElements ==
    ASSUME NEW S, NEW q \in Seq(S), NEW n \in DOMAIN q
    PROVE  /\ DOMAIN RemoveAt(q, n) = 1..(Len(q) - 1)
           /\ \A i \in 1..(n - 1) : RemoveAt(q, n)[i] = q[i]
           /\ \A i \in n..(Len(q) - 1) : RemoveAt(q, n)[i] = q[i + 1]
<1> DEFINE p == RemoveAt(q, n)
           a == SubSeq(q, 1, n - 1)
           b == SubSeq(q, n + 1, Len(q))
<1>1. Len(q) \in Nat /\ DOMAIN q = 1..Len(q) /\ n \in 1..Len(q) /\ n \in Nat
  BY LenProperties
<1>2. a \in Seq(S) /\ Len(a) = n - 1 /\ \A i \in 1..(n - 1) : a[i] = q[i]
  BY <1>1, SubSeqProperties, ElementOfSeq
<1>3. b \in Seq(S) /\ Len(b) = Len(q) - n /\ \A i \in 1..(Len(q) - n) : b[i] = q[n + i]
  BY <1>1, SubSeqProperties, ElementOfSeq
<1>4. /\ p \in Seq(S) /\ Len(p) = Len(a) + Len(b)
      /\ \A i \in 1..(Len(a) + Len(b)) : p[i] = IF i <= Len(a) THEN a[i] ELSE b[i - Len(a)]
  BY <1>2, <1>3, ConcatProperties, Zenon DEF RemoveAt
<1> HIDE DEF p, a, b
<1>5. Len(p) = Len(q) - 1 /\ DOMAIN p = 1..(Len(q) - 1)
  BY <1>1, <1>2, <1>3, <1>4, LenProperties
<1>6. ASSUME NEW i \in 1..(n - 1) PROVE p[i] = q[i]
  <2>1. i \in 1..(Len(a) + Len(b)) /\ i <= Len(a)
    BY <1>1, <1>2, <1>3
  <2> QED BY <1>2, <1>4, <2>1
<1>7. ASSUME NEW i \in n..(Len(q) - 1) PROVE p[i] = q[i + 1]
  <2>1. /\ i \in 1..(Len(a) + Len(b)) /\ ~(i <= Len(a))
        /\ i - Len(a) \in 1..(Len(q) - n) /\ n + (i - Len(a)) = i + 1
    BY <1>1, <1>2, <1>3
  <2>2. p[i] = b[i - Len(a)]
    BY <1>4, <2>1
  <2>3. b[i - Len(a)] = q[n + (i - Len(a))]
    BY <1>3, <2>1
  <2> QED BY <2>1, <2>2, <2>3
<1> QED
  BY <1>5, <1>6, <1>7 DEF p

\* Removing one element.
LEMMA RemoveAtDistinct ==
    ASSUME NEW S, NEW q \in Seq(S), NEW n \in DOMAIN q, Distinct(q)
    PROVE  ToSet(RemoveAt(q, n)) = ToSet(q) \ {q[n]} /\ Distinct(RemoveAt(q, n))
<1> DEFINE p == RemoveAt(q, n)
<1>1. Len(q) \in Nat /\ DOMAIN q = 1..Len(q) /\ n \in 1..Len(q) /\ n \in Nat
  BY LenProperties
<1>2. /\ DOMAIN p = 1..(Len(q) - 1)
      /\ \A i \in 1..(n - 1) : p[i] = q[i]
      /\ \A i \in n..(Len(q) - 1) : p[i] = q[i + 1]
  BY RemoveAtElements
<1> HIDE DEF p
<1>3. ASSUME NEW i \in 1..Len(q), i # n PROVE q[i] \in ToSet(p)
  <2>1. CASE i < n
    <3>1. i \in DOMAIN p /\ p[i] = q[i]
      BY <1>1, <1>2, <2>1
    <3> QED BY <3>1 DEF ToSet
  <2>2. CASE i > n
    <3>1. i - 1 \in n..(Len(q) - 1) /\ i - 1 \in 1..(Len(q) - 1) /\ (i - 1) + 1 = i
      BY <1>1, <2>2
    <3>2. i - 1 \in DOMAIN p /\ p[i - 1] = q[i]
      BY <1>2, <3>1
    <3> QED BY <3>2 DEF ToSet
  <2>3. i < n \/ i > n
    BY <1>1, <1>3
  <2> QED BY <2>1, <2>2, <2>3
<1>4. ASSUME NEW k \in DOMAIN p PROVE p[k] \in ToSet(q) \ {q[n]}
  <2>1. PICK i \in DOMAIN q : i # n /\ p[k] = q[i]
    <3>1. CASE k \in 1..(n - 1)
      BY <1>1, <1>2, <3>1
    <3>2. CASE k \in n..(Len(q) - 1)
      <4>1. k + 1 \in DOMAIN q /\ k + 1 # n /\ p[k] = q[k + 1]
        BY <1>1, <1>2, <3>2
      <4> QED BY <4>1
    <3> QED BY <1>1, <1>2, <3>1, <3>2
  <2> QED BY <1>1, <2>1 DEF ToSet, Distinct
<1>5. ToSet(p) = ToSet(q) \ {q[n]}
  <2>1. /\ \A x \in ToSet(p) : \E k \in DOMAIN p : x = p[k]
        /\ \A x \in ToSet(q) : \E k \in DOMAIN q : x = q[k]
    BY DEF ToSet
  <2>2. \A x \in ToSet(p) : x \in ToSet(q) \ {q[n]}
    BY <1>4, <2>1
  <2>3. \A x \in ToSet(q) \ {q[n]} : x \in ToSet(p)
    BY <1>1, <1>3, <2>1
  <2> QED BY <2>2, <2>3
<1>6. Distinct(p)
  <2>1. SUFFICES ASSUME NEW k \in DOMAIN p, NEW m \in DOMAIN p, p[k] = p[m]
                 PROVE  k = m
    BY DEF Distinct
  <2>2. \A i, j \in 1..Len(q) : q[i] = q[j] => i = j
    BY <1>1 DEF Distinct
  <2>3. ASSUME NEW x \in DOMAIN p
        PROVE  /\ x < n => x \in 1..Len(q) /\ p[x] = q[x]
               /\ ~(x < n) => x + 1 \in 1..Len(q) /\ p[x] = q[x + 1]
    <3>1. CASE x < n
      <4>1. x \in 1..(n - 1) /\ x \in 1..Len(q)
        BY <1>1, <1>2, <3>1
      <4> QED BY <1>2, <3>1, <4>1
    <3>2. CASE ~(x < n)
      <4>1. x \in n..(Len(q) - 1) /\ x + 1 \in 1..Len(q)
        BY <1>1, <1>2, <3>2
      <4> QED BY <1>2, <3>2, <4>1
    <3> QED BY <3>1, <3>2
  <2>4. k \in Nat /\ m \in Nat
    BY <1>1, <1>2
  <2>5. CASE k < n /\ m < n
    BY <2>1, <2>2, <2>3, <2>5
  <2>6. CASE k < n /\ ~(m < n)
    <3>1. k = m + 1
      BY <2>1, <2>2, <2>3, <2>6
    <3> QED BY <1>1, <2>4, <2>6, <3>1
  <2>7. CASE ~(k < n) /\ m < n
    <3>1. k + 1 = m
      BY <2>1, <2>2, <2>3, <2>7
    <3> QED BY <1>1, <2>4, <2>7, <3>1
  <2>8. CASE ~(k < n) /\ ~(m < n)
    <3>1. k + 1 = m + 1
      BY <2>1, <2>2, <2>3, <2>8
    <3> QED BY <2>4, <3>1
  <2> QED BY <2>5, <2>6, <2>7, <2>8
<1> QED
  BY <1>5, <1>6 DEF p

\* Removing one element keeps the type of the queue.
LEMMA RemoveAtType ==
    ASSUME NEW S, NEW q \in Seq(S), NEW i \in DOMAIN q
    PROVE  RemoveAt(q, i) \in Seq(S)
<1>1. i \in 1..Len(q) /\ Len(q) \in Nat
  BY LenProperties
<1>2. SubSeq(q, 1, i - 1) \in Seq(S)
  BY <1>1, SubSeqProperties, ElementOfSeq
<1>3. SubSeq(q, i + 1, Len(q)) \in Seq(S)
  BY <1>1, SubSeqProperties, ElementOfSeq
<1> QED
  BY <1>2, <1>3, ConcatProperties DEF RemoveAt

-----------------------------------------------------------------------------
(* Members of C may only come first.                                       *)

HeadOnly(q, C) == \A i \in DOMAIN q : q[i] \in C => i = 1

\* Appending another element.
LEMMA AppendHeadOnly ==
    ASSUME NEW S, NEW q \in Seq(S), NEW c \in S, NEW C, c \notin C, HeadOnly(q, C)
    PROVE  HeadOnly(Append(q, c), C)
<1>1. /\ Len(q) \in Nat /\ DOMAIN q = 1..Len(q)
      /\ DOMAIN Append(q, c) = 1..(Len(q) + 1)
      /\ \A i \in 1..Len(q) : Append(q, c)[i] = q[i]
      /\ Append(q, c)[Len(q) + 1] = c
  BY AppendProperties, LenProperties
<1> QED
  BY <1>1 DEF HeadOnly

\* Putting an element before others.
LEMMA PushHeadOnly ==
    ASSUME NEW S, NEW q \in Seq(S), NEW c \in S, NEW C, ToSet(q) \cap C = {}
    PROVE  HeadOnly(<<c>> \o q, C)
<1> DEFINE p == <<c>> \o q
<1>1. <<c>> \in Seq(S) /\ Len(<<c>>) = 1 /\ <<c>>[1] = c
  OBVIOUS
<1>2. /\ Len(q) \in Nat /\ DOMAIN q = 1..Len(q)
      /\ DOMAIN p = 1..(Len(q) + 1)
      /\ \A i \in 2..(Len(q) + 1) : p[i] = q[i - 1]
  BY <1>1, ConcatProperties, LenProperties
<1> HIDE DEF p
<1>3. \A i \in 2..(Len(q) + 1) : p[i] \in ToSet(q)
  BY <1>2 DEF ToSet
<1> QED
  BY <1>2, <1>3 DEF HeadOnly, p

\* Every suffix.
LEMMA SuffixHeadOnly ==
    ASSUME NEW S, NEW q \in Seq(S), NEW n \in DOMAIN q, NEW C, HeadOnly(q, C)
    PROVE  HeadOnly(SubSeq(q, n, Len(q)), C)
<1> DEFINE p == SubSeq(q, n, Len(q))
<1>1. /\ Len(q) \in Nat /\ DOMAIN q = 1..Len(q) /\ n \in 1..Len(q)
      /\ DOMAIN p = 1..(Len(q) - n + 1)
      /\ \A i \in 1..(Len(q) - n + 1) : p[i] = q[n + i - 1]
  BY SubSeqProperties, LenProperties, ElementOfSeq
<1> HIDE DEF p
<1>2. ASSUME NEW i \in DOMAIN p, p[i] \in C PROVE i = 1
  <2>1. i \in Nat /\ i >= 1 /\ n + i - 1 \in DOMAIN q /\ p[i] = q[n + i - 1]
    BY <1>1
  <2>2. n + i - 1 = 1
    BY <1>2, <2>1 DEF HeadOnly
  <2> QED BY <1>1, <2>1, <2>2
<1> QED
  BY <1>2 DEF HeadOnly, p

\* Dropping the head leaves none.
LEMMA TailHeadOnly ==
    ASSUME NEW S, NEW q \in Seq(S), q # <<>>, NEW C, HeadOnly(q, C)
    PROVE  ToSet(Tail(q)) \cap C = {}
<1> DEFINE p == Tail(q)
<1>1. /\ Len(q) \in Nat \ {0} /\ DOMAIN q = 1..Len(q)
      /\ DOMAIN p = 1..(Len(q) - 1)
      /\ \A i \in 1..(Len(q) - 1) : p[i] = q[i + 1]
  BY HeadTailProperties, LenProperties, EmptySeq
<1> HIDE DEF p
<1>2. \A i \in DOMAIN p : p[i] \notin C
  BY <1>1 DEF HeadOnly
<1> QED
  BY <1>2 DEF ToSet, p

\* Removing one element.
LEMMA RemoveAtHeadOnly ==
    ASSUME NEW S, NEW q \in Seq(S), NEW n \in DOMAIN q, NEW C, HeadOnly(q, C)
    PROVE  HeadOnly(RemoveAt(q, n), C)
<1>1. Len(q) \in Nat /\ DOMAIN q = 1..Len(q) /\ n \in 1..Len(q)
  BY LenProperties
<1>2. /\ DOMAIN RemoveAt(q, n) = 1..(Len(q) - 1)
      /\ \A i \in 1..(n - 1) : RemoveAt(q, n)[i] = q[i]
      /\ \A i \in n..(Len(q) - 1) : RemoveAt(q, n)[i] = q[i + 1]
  BY RemoveAtElements
<1>3. ASSUME NEW i \in DOMAIN RemoveAt(q, n), RemoveAt(q, n)[i] \in C PROVE i = 1
  <2>1. CASE i \in 1..(n - 1)
    BY <1>1, <1>2, <1>3, <2>1 DEF HeadOnly
  <2>2. CASE i \in n..(Len(q) - 1)
    <3>1. i + 1 \in DOMAIN q /\ q[i + 1] \in C /\ i + 1 # 1
      BY <1>1, <1>2, <1>3, <2>2
    <3> QED BY <3>1 DEF HeadOnly
  <2> QED BY <1>1, <1>2, <2>1, <2>2
<1> QED
  BY <1>3 DEF HeadOnly

\* A set of numbers that is not empty has a least member.
LEMMA LeastMember ==
    ASSUME NEW S \in SUBSET Nat, S # {}
    PROVE  \E i \in S : \A j \in S : i <= j
<1>1. IsWellFoundedOn(OpToRel(<, Nat), Nat)
  BY NatLessThanWellFounded
<1>2. \E i \in S : \A j \in S : ~ (<<j, i>> \in OpToRel(<, Nat))
  BY <1>1, WFMin
<1>3. \A i, j \in S : <<j, i>> \in OpToRel(<, Nat) <=> j < i
  BY DEF OpToRel
<1>4. PICK i \in S : \A j \in S : ~ (<<j, i>> \in OpToRel(<, Nat))
  BY <1>2
<1>5. \A j \in S : ~ (j < i)
  BY <1>3, <1>4
<1>6. \A j \in S : j \in Int /\ i \in Int
  OBVIOUS
<1> QED BY <1>5, <1>6

\* Induction, over a set of numbers.
LEMMA InductionUpTo ==
    ASSUME NEW N \in Nat, NEW S, 0 \in S, \A n \in 1 .. N : n - 1 \in S => n \in S
    PROVE  0 .. N \subseteq S
<1> DEFINE Bad == {n \in Nat : n <= N /\ n \notin S}
<1>1. SUFFICES ASSUME Bad # {} PROVE FALSE
  OBVIOUS
<1>2. PICK n \in Bad : \A m \in Bad : n <= m
  BY <1>1, LeastMember
<1>3. n \in 1 .. N /\ n \notin S
  BY <1>2
<1>4. n - 1 \notin Bad /\ n - 1 \in Nat /\ n - 1 <= N
  BY <1>2, <1>3
<1> QED BY <1>3, <1>4

\* A function on 0 .. N that takes each of its values from the one before exists.
StepFunctions(N, S) == [1 .. N -> [S -> S]]
Iterates(f, N, S, base, step) ==
    /\ f \in [0 .. N -> S] /\ f[0] = base
    /\ \A n \in 1 .. N : f[n] = step[n][f[n - 1]]

LEMMA Iterated ==
    ASSUME NEW N \in Nat, NEW S, NEW base \in S, NEW step \in StepFunctions(N, S)
    PROVE  \E f : Iterates(f, N, S, base, step)
<1> DEFINE Good == {m \in 0 .. N : \E f : Iterates(f, m, S, base, step)}
<1>0. step \in [1 .. N -> [S -> S]]
  BY DEF StepFunctions
<1>1. 0 \in Good
  <2> DEFINE f == [i \in 0 .. 0 |-> base]
  <2>1. f \in [0 .. 0 -> S] /\ f[0] = base
    OBVIOUS
  <2> HIDE DEF f
  <2>2. \A n \in 1 .. 0 : f[n] = step[n][f[n - 1]]
    OBVIOUS
  <2>3. Iterates(f, 0, S, base, step)
    BY <2>1, <2>2 DEF Iterates
  <2> QED BY <2>3
<1>2. ASSUME NEW m \in 1 .. N, m - 1 \in Good PROVE m \in Good
  <2>0. PICK f : Iterates(f, m - 1, S, base, step)
    BY <1>2
  <2>1. /\ f \in [0 .. m - 1 -> S] /\ f[0] = base
        /\ \A n \in 1 .. m - 1 : f[n] = step[n][f[n - 1]]
    BY <2>0 DEF Iterates
  <2> DEFINE g == [i \in 0 .. m |-> IF i = m THEN step[m][f[m - 1]] ELSE f[i]]
  <2>2. f[m - 1] \in S /\ step[m][f[m - 1]] \in S
    BY <1>0, <2>1
  <2>3. g \in [0 .. m -> S]
    BY <2>1, <2>2
  <2>4. g[0] = base
    BY <2>1
  <2>5. ASSUME NEW n \in 1 .. m PROVE g[n] = step[n][g[n - 1]]
    <3>1. n - 1 \in 0 .. m - 1 /\ n \in 0 .. m /\ n - 1 \in 0 .. m
      OBVIOUS
    <3>2. g[n - 1] = f[n - 1]
      BY <3>1
    <3>3. CASE n = m
      BY <3>2, <3>3
    <3>4. CASE n # m
      <4>1. n \in 1 .. m - 1
        BY <3>4
      <4> QED BY <2>1, <3>2, <3>4, <4>1
    <3> QED BY <3>3, <3>4
  <2> HIDE DEF g
  <2>6. Iterates(g, m, S, base, step)
    BY <2>3, <2>4, <2>5 DEF Iterates
  <2> QED BY <2>6
<1>3. 0 .. N \subseteq Good
  <2> HIDE DEF Good
  <2> QED BY <1>1, <1>2, InductionUpTo
<1>4. N \in Good
  <2> HIDE DEF Good
  <2> QED BY <1>3
<1> QED BY <1>4

\* There is one such function.
AgreeUpTo(f, g, N) == f[0] = g[0] /\ \A n \in 1 .. N : f[n - 1] = g[n - 1] => f[n] = g[n]

LEMMA IteratedOnce ==
    ASSUME NEW N \in Nat, NEW f, NEW g, AgreeUpTo(f, g, N)
    PROVE  \A n \in 0 .. N : f[n] = g[n]
<1> DEFINE Same == {n \in 0 .. N : f[n] = g[n]}
<1>1. 0 \in Same /\ \A n \in 1 .. N : n - 1 \in Same => n \in Same
  BY DEF AgreeUpTo
<1>2. 0 .. N \subseteq Same
  <2> HIDE DEF Same
  <2> QED BY <1>1, InductionUpTo
<1> QED BY <1>2

====
