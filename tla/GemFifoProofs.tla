---------------------------- MODULE GemFifoProofs ----------------------------
(***************************************************************************)
(* What taking a channel off a list leaves: facts about GemFifo's Without  *)
(* that the proofs about the lock and about the links both rest on.  At    *)
(* the end, two facts about finite sets of numbers that the links and the  *)
(* forms need.                                                             *)
(***************************************************************************)
EXTENDS GemFifo, FiniteSetTheorems, WellFoundedInduction, SequenceTheorems, TLAPS

\* Nothing before the channel moves and everything behind it moves up.
LEMMA WithoutAt ==
    ASSUME NEW S, NEW list \in Seq(S), NEW i \in 1 .. Len(list),
           \A j, k \in 1 .. Len(list) : list[j] = list[k] => j = k
    PROVE  LET rest == Without(list, list[i])
           IN  /\ rest \in Seq(S)
               /\ Len(rest) = Len(list) - 1
               /\ \A j \in 1 .. Len(list) - 1 :
                     rest[j] = IF j < i THEN list[j] ELSE list[j + 1]
<1> DEFINE rest == Without(list, list[i])
           n == Len(list)
           f == [j \in 1 .. n - 1 |-> IF j < i THEN list[j] ELSE list[j + 1]]
<1>1. n \in Nat /\ DOMAIN list = 1 .. n /\ list \in [1 .. n -> S]
  BY LenProperties
<1>2. (CHOOSE j \in DOMAIN list : list[j] = list[i]) = i
  BY <1>1
<1>3. rest = f
  BY <1>1, <1>2 DEF Without
<1>4. n - 1 \in Nat
  BY <1>1
<1>5. f \in [1 .. n - 1 -> S]
  BY <1>1
<1>6. f \in Seq(S) /\ Len(f) = n - 1
  <2>1. f \in Seq(S)
    BY <1>4, <1>5, SeqDef
  <2>2. DOMAIN f = 1 .. Len(f) /\ Len(f) \in Nat
    BY <2>1, LenProperties
  <2>3. DOMAIN f = 1 .. n - 1
    OBVIOUS
  <2> HIDE DEF f
  <2> QED BY <1>4, <2>1, <2>2, <2>3
<1>7. \A j \in 1 .. n - 1 : f[j] = IF j < i THEN list[j] ELSE list[j + 1]
  OBVIOUS
<1> HIDE DEF f
<1> QED BY <1>3, <1>6, <1>7

\* A channel that is not listed is taken off for nothing.
LEMMA WithoutAbsent ==
    ASSUME NEW S, NEW list \in Seq(S), NEW c,
           \A i \in 1 .. Len(list) : list[i] # c
    PROVE  Without(list, c) = list
BY LenProperties DEF Without

\* Taking a channel off a list that names nobody twice leaves a list that
\* names nobody twice and exactly the others.
LEMMA WithoutKeepsOthers ==
    ASSUME NEW S, NEW list \in Seq(S), NEW c,
           \A i, j \in 1 .. Len(list) : list[i] = list[j] => i = j
    PROVE  LET rest == Without(list, c)
           IN  /\ rest \in Seq(S)
               /\ \A i, j \in 1 .. Len(rest) : rest[i] = rest[j] => i = j
               /\ \A x \in S :
                     (\E i \in 1 .. Len(rest) : rest[i] = x)
                     <=> x # c /\ \E i \in 1 .. Len(list) : list[i] = x
<1> DEFINE rest == Without(list, c)
           n == Len(list)
<1>0. n \in Nat
  BY LenProperties
<1>1. CASE \A i \in 1 .. n : list[i] # c
  <2>1. rest = list
    BY <1>1, WithoutAbsent
  <2> QED BY <1>0, <1>1, <2>1
<1>2. CASE \E i \in 1 .. n : list[i] = c
  <2>1. PICK at \in 1 .. n : list[at] = c
    BY <1>2
  <2>2. /\ rest \in Seq(S) /\ Len(rest) = n - 1
        /\ \A j \in 1 .. n - 1 :
              rest[j] = IF j < at THEN list[j] ELSE list[j + 1]
    BY <2>1, WithoutAt
  <2> HIDE DEF rest
  <2>3. \A i, j \in 1 .. n - 1 : rest[i] = rest[j] => i = j
    BY <1>0, <2>1, <2>2
  <2>4. ASSUME NEW x \in S, NEW i \in 1 .. n - 1, rest[i] = x
        PROVE  x # c /\ \E k \in 1 .. n : list[k] = x
    <3>1. CASE i < at
      <4>1. i \in 1 .. n /\ list[i] = x
        BY <1>0, <2>2, <2>4, <3>1
      <4> QED BY <1>0, <2>1, <3>1, <4>1
    <3>2. CASE ~(i < at)
      <4>1. i + 1 \in 1 .. n /\ list[i + 1] = x
        BY <1>0, <2>2, <2>4, <3>2
      <4> QED BY <1>0, <2>1, <3>2, <4>1
    <3> QED BY <3>1, <3>2
  <2>5. ASSUME NEW x \in S, x # c, NEW k \in 1 .. n, list[k] = x
        PROVE  \E i \in 1 .. n - 1 : rest[i] = x
    <3>1. CASE k < at
      BY <1>0, <2>1, <2>2, <2>5, <3>1
    <3>2. CASE k > at
      <4>1. k - 1 \in 1 .. n - 1 /\ ~(k - 1 < at) /\ (k - 1) + 1 = k
        BY <1>0, <2>1, <3>2
      <4>2. rest[k - 1] = x
        BY <2>2, <2>5, <4>1
      <4> QED BY <4>1, <4>2
    <3>3. k # at
      BY <2>1, <2>5
    <3> QED BY <1>0, <2>1, <3>1, <3>2, <3>3
  <2> QED BY <2>2, <2>3, <2>4, <2>5 DEF rest
<1> QED BY <1>1, <1>2

\* The same, in terms of Listed and NoRepeats.
LEMMA WithoutListed ==
    ASSUME NEW S, NEW list \in Seq(S), NEW c, NoRepeats(list),
           NEW rest, rest = Without(list, c)
    PROVE  /\ rest \in Seq(S)
           /\ NoRepeats(rest)
           /\ \A x \in S : Listed(rest, x) <=> x # c /\ Listed(list, x)
<1>1. DOMAIN list = 1 .. Len(list)
  BY LenProperties
<1>2. \A i, j \in 1 .. Len(list) : list[i] = list[j] => i = j
  BY <1>1 DEF NoRepeats
<1>3. /\ rest \in Seq(S)
      /\ \A i, j \in 1 .. Len(rest) : rest[i] = rest[j] => i = j
      /\ \A x \in S : (\E i \in 1 .. Len(rest) : rest[i] = x)
                <=> x # c /\ \E i \in 1 .. Len(list) : list[i] = x
  BY <1>2, WithoutKeepsOthers
<1>4. DOMAIN rest = 1 .. Len(rest)
  BY <1>3, LenProperties
<1> QED BY <1>1, <1>3, <1>4 DEF NoRepeats, Listed

\* Taking the first channel off leaves the tail of the list.
LEMMA WithoutFirst ==
    ASSUME NEW S, NEW list \in Seq(S), list # <<>>,
           \A j, k \in 1 .. Len(list) : list[j] = list[k] => j = k
    PROVE  Without(list, list[1]) = Tail(list)
<1> DEFINE n == Len(list)
           rest == Without(list, list[1])
           last == Tail(list)
<1>1. n \in Nat /\ n # 0 /\ 1 \in 1 .. n
  BY LenProperties, EmptySeq
<1>2. /\ rest \in Seq(S) /\ Len(rest) = n - 1
      /\ \A j \in 1 .. n - 1 : rest[j] = IF j < 1 THEN list[j] ELSE list[j + 1]
  BY <1>1, WithoutAt
<1>3. /\ last \in Seq(S) /\ Len(last) = n - 1
      /\ \A j \in 1 .. n - 1 : last[j] = list[j + 1]
  BY HeadTailProperties
<1> HIDE DEF rest, last, n
<1>4. \A j \in 1 .. n - 1 : rest[j] = last[j]
  BY <1>1, <1>2, <1>3
<1>5. rest = [j \in 1 .. n - 1 |-> rest[j]] /\ last = [j \in 1 .. n - 1 |-> last[j]]
  BY <1>2, <1>3, LenProperties
<1>6. rest = last
  BY <1>4, <1>5
<1> QED BY <1>6 DEF rest, last

\* a is on the list, and b behind it.
Before(list, a, b) ==
    \E i, j \in DOMAIN list : i < j /\ list[i] = a /\ list[j] = b

\* The list new is the list with c behind it.
Longer(list, new, c) ==
    /\ \A x : Listed(new, x) <=> x = c \/ Listed(list, x)
    /\ \A a, b : Before(list, a, b) => Before(new, a, b)

\* Appending keeps the order and adds one channel, once.
LEMMA AppendListed ==
    ASSUME NEW S, NEW list \in Seq(S), NEW c \in S, NoRepeats(list), ~Listed(list, c)
    PROVE  /\ Append(list, c) \in Seq(S) /\ NoRepeats(Append(list, c))
           /\ Append(list, c) # <<>> /\ Longer(list, Append(list, c), c)
<1> DEFINE n == Len(list)
           new == Append(list, c)
<1>1. n \in Nat /\ DOMAIN list = 1 .. n
  BY LenProperties
<1>2. new \in Seq(S) /\ Len(new) = n + 1 /\ new[n + 1] = c
      /\ \A i \in 1 .. n : new[i] = list[i]
  BY <1>1, AppendProperties
<1>3. DOMAIN new = 1 .. n + 1
  BY <1>2, LenProperties
<1> HIDE DEF n, new
<1>4. \A i \in 1 .. n + 1 : i \in 1 .. n \/ i = n + 1
  BY <1>1
<1>5. 1 .. n \subseteq 1 .. n + 1 /\ n + 1 \in 1 .. n + 1
  BY <1>1
<1>6. \A i \in 1 .. n : list[i] # c
  BY <1>1 DEF Listed
<1>7. NoRepeats(new)
  BY <1>1, <1>2, <1>3, <1>4, <1>6 DEF NoRepeats
<1>8. ASSUME NEW x PROVE Listed(new, x) <=> x = c \/ Listed(list, x)
  BY <1>1, <1>2, <1>3, <1>4, <1>5 DEF Listed
<1>9. ASSUME NEW a, NEW b, Before(list, a, b) PROVE Before(new, a, b)
  BY <1>1, <1>2, <1>3, <1>5, <1>9 DEF Before
<1>10. new # <<>>
  BY <1>1, <1>2, EmptySeq
<1> QED BY <1>2, <1>7, <1>8, <1>9, <1>10 DEF Longer, new

\* Removing a channel keeps the order of the others.
LEMMA WithoutBefore ==
    ASSUME NEW S, NEW list \in Seq(S), NEW c, NoRepeats(list),
           NEW a, NEW b, a # c, b # c, Before(list, a, b)
    PROVE  Before(Without(list, c), a, b)
<1> DEFINE n == Len(list)
           rest == Without(list, c)
<1>1. n \in Nat /\ DOMAIN list = 1 .. n
  BY LenProperties
<1>2. PICK i \in 1 .. n, j \in 1 .. n : i < j /\ list[i] = a /\ list[j] = b
  BY <1>1 DEF Before
<1>3. \A k, l \in 1 .. n : list[k] = list[l] => k = l
  BY <1>1 DEF NoRepeats
<1>4. CASE \A k \in 1 .. n : list[k] # c
  <2>1. rest = list
    BY <1>4, WithoutAbsent
  <2> QED BY <2>1
<1>5. CASE \E k \in 1 .. n : list[k] = c
  <2>1. PICK at \in 1 .. n : list[at] = c
    BY <1>5
  <2>2. /\ rest \in Seq(S) /\ Len(rest) = n - 1
        /\ \A k \in 1 .. n - 1 : rest[k] = IF k < at THEN list[k] ELSE list[k + 1]
    BY <1>3, <2>1, WithoutAt
  <2> HIDE DEF rest
  <2>3. DOMAIN rest = 1 .. n - 1
    BY <2>2, LenProperties
  <2>4. i # at /\ j # at
    BY <1>2, <2>1
  <2> DEFINE new(k) == IF k < at THEN k ELSE k - 1
  <2>5. ASSUME NEW k \in 1 .. n, k # at
        PROVE  new(k) \in 1 .. n - 1 /\ rest[new(k)] = list[k]
    <3>1. CASE k < at
      <4>1. k \in 1 .. n - 1 /\ new(k) = k
        BY <1>1, <3>1
      <4> QED BY <2>2, <3>1, <4>1
    <3>2. CASE k > at
      <4>1. k - 1 \in 1 .. n - 1 /\ new(k) = k - 1 /\ ~(k - 1 < at) /\ (k - 1) + 1 = k
        BY <1>1, <2>1, <3>2
      <4>2. rest[k - 1] = list[(k - 1) + 1]
        BY <2>2, <4>1
      <4> QED BY <4>1, <4>2
    <3> QED BY <1>1, <2>1, <2>5, <3>1, <3>2
  <2>6. new(i) < new(j)
    BY <1>1, <1>2, <2>1, <2>4
  <2>7. /\ new(i) \in 1 .. n - 1 /\ rest[new(i)] = list[i]
        /\ new(j) \in 1 .. n - 1 /\ rest[new(j)] = list[j]
    BY <2>4, <2>5
  <2> HIDE DEF new
  <2>8. new(i) \in DOMAIN rest /\ new(j) \in DOMAIN rest
        /\ rest[new(i)] = a /\ rest[new(j)] = b
    BY <1>2, <2>3, <2>7
  <2>9. Before(rest, a, b)
    BY <2>6, <2>8 DEF Before
  <2> QED BY <2>9 DEF rest
<1> QED BY <1>4, <1>5

\* A finite set of numbers that is not empty has a least member.
LEMMA LeastMember ==
    ASSUME NEW S \in SUBSET Nat, IsFiniteSet(S), S # {}
    PROVE  \E x \in S : \A y \in S : x <= y
<1> DEFINE Below(x) == {y \in S : y < x}
           Cuts == {Below(x) : x \in S}
<1>1. IsWellFoundedOn(StrictSubsetOrdering(S), SUBSET S)
  BY FS_StrictSubsetOrderingWellFounded, FS_FiniteSubsetsOfFinite
<1>2. Cuts \subseteq SUBSET S /\ Cuts # {}
  OBVIOUS
<1>3. \E D \in Cuts : \A B \in Cuts : ~(<<B, D>> \in StrictSubsetOrdering(S))
  BY <1>1, <1>2, WFMin
<1>4. PICK x \in S : \A B \in Cuts : ~(<<B, Below(x)>> \in StrictSubsetOrdering(S))
  BY <1>3
<1>5. ASSUME NEW y \in S PROVE x <= y
  <2>1. SUFFICES ASSUME y < x PROVE FALSE
    OBVIOUS
  <2>2. Below(y) \subseteq Below(x) /\ Below(y) # Below(x) /\ Below(y) \in Cuts
    <3>1. \A z \in S : z < y => z < x
      BY <2>1
    <3>2. y \in Below(x) /\ y \notin Below(y)
      BY <2>1
    <3> QED BY <3>1, <3>2
  <2>3. <<Below(y), Below(x)>> \in StrictSubsetOrdering(S)
    BY <1>2, <2>2 DEF StrictSubsetOrdering
  <2> QED BY <1>4, <2>2, <2>3
<1> QED BY <1>5

\* And one up to a bound has a greatest member.
LEMMA GreatestMember ==
    ASSUME NEW n \in Nat, NEW S \in SUBSET (0 .. n), S # {}
    PROVE  \E x \in S : \A y \in S : y <= x
<1>1. PICK T : T = {n - x : x \in S}
  OBVIOUS
<1>2. T # {} /\ \A t \in T : t \in 0 .. n
  <2>1. ASSUME NEW x \in S PROVE n - x \in 0 .. n
    OBVIOUS
  <2> QED BY <1>1, <2>1
<1>3. IsFiniteSet(0 .. n)
  BY FS_Interval, 0 \in Int
<1>4. T \in SUBSET (0 .. n)
  BY <1>2
<1>5. IsFiniteSet(T) /\ T \in SUBSET Nat
  <2>1. IsFiniteSet(T)
    BY ONLY <1>3, <1>4, FS_Subset
  <2> QED BY <1>4, <2>1
<1>6. PICK m \in T : \A k \in T : m <= k
  BY <1>2, <1>5, LeastMember
<1>7. PICK x \in S : m = n - x
  BY <1>1
<1>8. ASSUME NEW y \in S PROVE y <= x
  <2>1. n - y \in T
    BY <1>1
  <2>2. n - x <= n - y
    BY <1>6, <1>7, <2>1
  <2>3. x \in Int /\ y \in Int
    OBVIOUS
  <2> QED BY <2>2, <2>3
<1> QED BY <1>8

\* What holds before the first turn and is kept by every turn holds at the end.
LEMMA Turns ==
    ASSUME NEW n \in Nat, NEW P, 0 \in P,
           \A i \in 1 .. n : i - 1 \in P => i \in P
    PROVE  n \in P
<1>1. SUFFICES ASSUME n \notin P PROVE FALSE
  OBVIOUS
<1> DEFINE Q == (0 .. n) \ P
<1>2. PICK m \in Q : \A k \in Q : m <= k
  <2>1. Q \in SUBSET Nat /\ Q # {}
    BY <1>1
  <2>2. IsFiniteSet(Q)
    BY FS_Interval, FS_Subset, 0 \in Int, n \in Int
  <2> QED BY <2>1, <2>2, LeastMember
<1>3. m \in 1 .. n
  BY <1>2
<1>4. m - 1 \in 0 .. n /\ m - 1 \notin Q
  BY <1>2, <1>3
<1> QED BY <1>2, <1>3, <1>4
=============================================================================
