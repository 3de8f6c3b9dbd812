-------------------------- MODULE LinuxDistProofs --------------------------
(***************************************************************************)
(* Proofs about LinuxDist for every set of versions and every content of   *)
(* freed memory, and about the comparison of versions for every two of     *)
(* them.                                                                   *)
(***************************************************************************)
EXTENDS LinuxDist, FiniteSetTheorems, WellFoundedInduction, TLAPS

-----------------------------------------------------------------------------
(* The order of versions.                                                  *)

\* Every non-empty set of natural numbers has a least member, and it is Min.
LEMMA LeastMember ==
    ASSUME NEW S \in SUBSET Nat, S # {}
    PROVE  Min(S) \in S /\ \A m \in S : Min(S) <= m
<1> DEFINE R == {p \in Nat \X Nat : p[1] < p[2]}
<1>1. IsWellFoundedOn(OpToRel(<,Nat), Nat)
  BY NatLessThanWellFounded
<1>2. IsWellFoundedOn(R, Nat)
  BY <1>1 DEF OpToRel
<1>3. PICK n \in S : \A m \in S : ~(<<m, n>> \in R)
  <2> HIDE DEF R
  <2> QED
    BY <1>2, WFMin
<1>4. ASSUME NEW m \in S
      PROVE  n <= m
  <2>1. <<m, n>> \in Nat \X Nat
    OBVIOUS
  <2>2. ~(m < n)
    BY <2>1, <1>3
  <2> QED
    BY <2>2
<1> QED
  BY <1>4 DEF Min

\* A set of natural numbers none of which is the least one is empty: a proof by
\* induction, stated about the set of the numbers that would be exceptions.
LEMMA NoLeast ==
    ASSUME NEW T \in SUBSET Nat, \A k \in T : \E j \in T : j < k
    PROVE  T = {}
<1> SUFFICES ASSUME T # {}
             PROVE  FALSE
  OBVIOUS
<1>1. Min(T) \in T /\ \A k \in T : Min(T) <= k
  BY LeastMember
<1>2. PICK j \in T : j < Min(T)
  BY <1>1
<1>3. j \in Nat /\ Min(T) \in Nat /\ Min(T) <= j
  BY <1>1
<1> QED
  BY <1>2, <1>3


\* Where the loops over a class of characters stop.
LEMMA PastIs ==
    ASSUME NEW v \in Seq(Nat), NEW i \in 1..Len(v) + 1, NEW class
    PROVE  /\ Past(v, i, class) \in i..Len(v) + 1
           /\ Past(v, i, class) <= Len(v) => v[Past(v, i, class)] \notin class
           /\ \A k \in i..Past(v, i, class) - 1 : v[k] \in class
<1> DEFINE S == {k \in i..Len(v) + 1 : k > Len(v) \/ v[k] \notin class}
           e == Min(S)
<1>1. Len(v) + 1 \in S /\ S \in SUBSET Nat
  OBVIOUS
<1>2. e \in S /\ \A k \in S : e <= k
  <2> HIDE DEF S
  <2> QED
    BY <1>1, LeastMember
<1>3. e \in i..Len(v) + 1 /\ (e <= Len(v) => v[e] \notin class)
  <2> HIDE DEF e
  <2> QED
    BY <1>2
<1>4. ASSUME NEW k \in i..e - 1
      PROVE  v[k] \in class
  <2> HIDE DEF e
  <2>1. k \in i..Len(v) + 1 /\ k < e
    BY <1>3
  <2>2. k \notin S
    <3> HIDE DEF S
    <3> QED
      BY <1>2, <1>3, <2>1
  <2> QED
    BY <2>1, <2>2
<1>5. Past(v, i, class) = e
  BY DEF Past
<1> HIDE DEF e
<1> QED
  BY <1>3, <1>4, <1>5

\* Where the loops over separators stop.
LEMMA FirstAlnumIs ==
    ASSUME NEW v \in Seq(Nat), NEW i \in 1..Len(v) + 1
    PROVE  /\ FirstAlnum(v, i) \in i..Len(v) + 1
           /\ FirstAlnum(v, i) <= Len(v) => Alnum(v[FirstAlnum(v, i)])
           /\ \A k \in i..FirstAlnum(v, i) - 1 : ~Alnum(v[k])
<1> DEFINE S == {k \in i..Len(v) + 1 : k > Len(v) \/ Alnum(v[k])}
           e == Min(S)
<1>1. Len(v) + 1 \in S /\ S \in SUBSET Nat
  OBVIOUS
<1>2. e \in S /\ \A k \in S : e <= k
  <2> HIDE DEF S
  <2> QED
    BY <1>1, LeastMember
<1>3. e \in i..Len(v) + 1 /\ (e <= Len(v) => Alnum(v[e]))
  <2> HIDE DEF e
  <2> QED
    BY <1>2
<1>4. ASSUME NEW k \in i..e - 1
      PROVE  ~Alnum(v[k])
  <2> HIDE DEF e
  <2>1. k \in i..Len(v) + 1 /\ k < e
    BY <1>3
  <2>2. k \notin S
    <3> HIDE DEF S
    <3> QED
      BY <1>2, <1>3, <2>1
  <2> QED
    BY <2>1, <2>2
<1>5. FirstAlnum(v, i) = e
  BY DEF FirstAlnum
<1> HIDE DEF e
<1> QED
  BY <1>3, <1>4, <1>5

\* The class a part is of, as the loop has it.
PartClass(c) == IF c \in Digits THEN Digits ELSE Letters

\* The class that PartAt() and the loop have for the part c starts.
LEMMA ClassIs ==
    ASSUME NEW c \in Nat, Alnum(c)
    PROVE  /\ {d \in Digits \union Letters : ClassOf(d) = ClassOf(c)} = PartClass(c)
           /\ c \in PartClass(c)
           /\ \A d \in PartClass(c) : Alnum(d) /\ ClassOf(d) = ClassOf(c)
           /\ \A d \in Nat : d \notin PartClass(c) => ClassOf(d) # ClassOf(c)
BY DEF ClassOf, PartClass, Alnum, Digits, Letters

\* What the loop knows of a version it is at the place i of: n parts are in
\* front of i, and none goes on there.
BetweenParts(v, i) ==
    \/ i = 1
    \/ /\ Alnum(v[i - 1])
       /\ i <= Len(v) => ClassOf(v[i]) # ClassOf(v[i - 1])

PartsBefore(v, i, n) ==
    /\ i \in 1..Len(v) + 1
    /\ BetweenParts(v, i)
    /\ n \in Nat
    /\ Cardinality({s \in PartStarts(v) : s < i}) = n

\* The places parts start at are finitely many.
LEMMA StartsAre ==
    ASSUME NEW v \in Seq(Nat)
    PROVE  /\ PartStarts(v) \subseteq 1..Len(v)
           /\ \A S \in SUBSET PartStarts(v) : IsFiniteSet(S) /\ Cardinality(S) \in Nat
<1>1. PartStarts(v) \subseteq 1..Len(v)
  BY DEF PartStarts
<1>2. IsFiniteSet(1..Len(v))
  BY FS_Interval
<1>3. ASSUME NEW S \in SUBSET PartStarts(v)
      PROVE  IsFiniteSet(S) /\ Cardinality(S) \in Nat
  <2>1. S \in SUBSET (1..Len(v))
    BY <1>1
  <2>2. IsFiniteSet(S)
    BY <1>2, <2>1, FS_Subset
  <2> QED
    BY <2>2, FS_CardinalityType
<1> QED
  BY <1>1, <1>3

\* What the loop knows before its first round.
LEMMA NoPartsBefore ==
    ASSUME NEW v \in Seq(Nat)
    PROVE  PartsBefore(v, 1, 0)
<1>1. {s \in PartStarts(v) : s < 1} = {}
  BY StartsAre
<1>2. 1 \in 1..Len(v) + 1
  OBVIOUS
<1>3. Cardinality({s \in PartStarts(v) : s < 1}) = 0
  BY <1>1, FS_EmptySet
<1>4. 0 \in Nat /\ BetweenParts(v, 1)
  BY DEF BetweenParts
<1> QED
  BY ONLY <1>2, <1>3, <1>4 DEF PartsBefore

\* A function on the first N numbers is a sequence of its values.
LEMMA IsSequence ==
    ASSUME NEW N \in Nat, NEW g, g = [n \in 1..N |-> g[n]]
    PROVE  g \in Seq({g[n] : n \in 1..N}) /\ Len(g) = N
<1> DEFINE S == {g[n] : n \in 1..N}
<1>1. \A n \in 1..N : g[n] \in S
  OBVIOUS
<1> HIDE DEF S
<1>2. g \in [1..N -> S]
  BY <1>1
<1>3. g \in Seq(S) /\ Len(g) = N
  BY ONLY <1>2, N \in Nat
<1> QED
  BY <1>3 DEF S

\* The number of parts, and one for a separator at the end.
LEMMA PartsAre ==
    ASSUME NEW v \in Seq(Nat)
    PROVE  LET N == Cardinality(PartStarts(v))
           IN  /\ N \in Nat
               /\ Len(Parts(v)) = IF v # <<>> /\ ~Alnum(v[Len(v)]) THEN N + 1 ELSE N
               /\ DOMAIN Parts(v) = 1..Len(Parts(v))
               /\ \A n \in 1..N : Parts(v)[n] = PartAt(v, PartStart(v, n))
               /\ Len(Parts(v)) = N + 1 => Parts(v)[N + 1] = <<0>>
<1> DEFINE N == Cardinality(PartStarts(v))
           parts == [n \in 1..N |-> PartAt(v, PartStart(v, n))]
<1>1. N \in Nat
  BY StartsAre
<1>2. parts \in Seq({parts[n] : n \in 1..N}) /\ Len(parts) = N
  <2>1. parts = [n \in 1..N |-> parts[n]]
    OBVIOUS
  <2> HIDE DEF N, parts
  <2> QED
    BY ONLY <1>1, <2>1, IsSequence
<1>3. \A n \in 1..N : parts[n] = PartAt(v, PartStart(v, n))
  OBVIOUS
<1>4. Parts(v) = IF v # <<>> /\ ~Alnum(v[Len(v)]) THEN Append(parts, <<0>>) ELSE parts
  BY DEF Parts
<1> HIDE DEF N, parts
<1>5. /\ Len(Append(parts, <<0>>)) = N + 1
      /\ DOMAIN Append(parts, <<0>>) = 1..N + 1
      /\ \A n \in 1..N : Append(parts, <<0>>)[n] = parts[n]
      /\ Append(parts, <<0>>)[N + 1] = <<0>>
  BY <1>1, <1>2
<1>6. DOMAIN parts = 1..N /\ N + 1 # N
  BY <1>1, <1>2
<1> QED
  BY <1>1, <1>2, <1>3, <1>4, <1>5, <1>6 DEF N

\* The next part behind i starts at the next character that is a letter or a
\* digit.
LEMMA NextStart ==
    ASSUME NEW v \in Seq(Nat), NEW i, NEW n, PartsBefore(v, i, n)
    PROVE  LET m == FirstAlnum(v, i)
           IN  /\ m \in i..Len(v) + 1
               /\ \A s \in PartStarts(v) : s < i \/ m <= s
               /\ m <= Len(v) => m \in PartStarts(v)
<1> DEFINE m == FirstAlnum(v, i)
<1>1. /\ i \in 1..Len(v) + 1 /\ Len(v) \in Nat
      /\ i = 1 \/ (Alnum(v[i - 1]) /\ (i <= Len(v) => ClassOf(v[i]) # ClassOf(v[i - 1])))
  BY DEF PartsBefore, BetweenParts
<1>2. /\ m \in i..Len(v) + 1
      /\ m <= Len(v) => Alnum(v[m])
      /\ \A k \in i..m - 1 : ~Alnum(v[k])
  BY <1>1, FirstAlnumIs
<1> HIDE DEF m
<1>3. ASSUME NEW s \in PartStarts(v), ~(s < i), ~(m <= s)
      PROVE  FALSE
  <2>1. s \in 1..Len(v) /\ Alnum(v[s])
    BY DEF PartStarts
  <2>2. s \in i..m - 1
    BY <1>1, <1>2, <1>3, <2>1
  <2> QED
    BY <1>2, <2>1, <2>2
<1>4. ASSUME m <= Len(v)
      PROVE  m \in PartStarts(v)
  <2>1. m \in DOMAIN v /\ Alnum(v[m])
    BY <1>1, <1>2, <1>4
  <2>2. CASE m = 1
    BY <2>1, <2>2 DEF PartStarts
  <2>3. CASE m # 1 /\ m = i
    BY <1>1, <1>4, <2>1, <2>3 DEF PartStarts
  <2>4. CASE m # 1 /\ m # i
    <3>1. m - 1 \in i..m - 1
      BY <1>1, <1>2, <2>4
    <3>2. ~Alnum(v[m - 1])
      BY <1>2, <3>1
    <3>3. ClassOf(v[m - 1]) = "separator"
      BY <3>2 DEF ClassOf, Alnum
    <3>4. ClassOf(v[m]) # "separator"
      BY <2>1 DEF ClassOf
    <3> QED
      BY <2>1, <3>3, <3>4 DEF PartStarts
  <2> QED
    BY <2>2, <2>3, <2>4
<1> QED
  BY <1>2, <1>3, <1>4 DEF m

\* That part is the next one in the order of their places.
LEMMA NextRank ==
    ASSUME NEW v \in Seq(Nat), NEW i, NEW n, PartsBefore(v, i, n),
           FirstAlnum(v, i) <= Len(v)
    PROVE  /\ PartStart(v, n + 1) = FirstAlnum(v, i)
           /\ n + 1 <= Cardinality(PartStarts(v))
           /\ Cardinality({s \in PartStarts(v) : s <= FirstAlnum(v, i)}) = n + 1
<1> DEFINE m == FirstAlnum(v, i)
           S == PartStarts(v)
           before == {s \in S : s < i}
           upto(k) == {s \in S : s <= k}
<1>1. /\ m \in i..Len(v) + 1 /\ i \in 1..Len(v) + 1
      /\ \A s \in S : s < i \/ m <= s
      /\ m \in S
  BY NextStart DEF PartsBefore, BetweenParts
<1>2. S \subseteq 1..Len(v) /\ \A T \in SUBSET S : IsFiniteSet(T) /\ Cardinality(T) \in Nat
  BY StartsAre
<1>3. n \in Nat /\ Cardinality(before) = n
  BY DEF PartsBefore, BetweenParts
<1> HIDE DEF m, S
<1>4. upto(m) = before \union {m} /\ m \notin before
  <2>1. \A s \in S : s \in Nat
    BY <1>2
  <2>2. i \in Nat /\ m \in Nat /\ i <= m
    BY <1>1
  <2>3. \A s \in S : s <= m <=> s < i \/ s = m
    BY ONLY <1>1, <2>1, <2>2
  <2>4. ~(m < i)
    BY <2>2
  <2> QED
    BY ONLY <1>1, <2>3, <2>4
<1>5. before \in SUBSET S /\ S \in SUBSET S /\ \A k : upto(k) \in SUBSET S
  OBVIOUS
<1>6. IsFiniteSet(before)
  BY <1>2, <1>5
<1> HIDE DEF before, upto
<1>7. Cardinality(upto(m)) = n + 1
  BY <1>3, <1>4, <1>6, FS_AddElement
<1>8. n + 1 <= Cardinality(S)
  BY <1>2, <1>5, <1>7, FS_Subset
<1>9. ASSUME NEW k \in S, k # m
      PROVE  Cardinality(upto(k)) # n + 1
  <2>0. k \in Nat /\ m \in Nat /\ i \in Nat /\ \A s \in S : s \in Nat
    BY <1>1, <1>2, <1>9
  <2>1. CASE k < m
    <3>1. upto(k) \in SUBSET before
      <4>1. \A s \in S : s <= k => s < i
        BY ONLY <1>1, <2>1, <2>0
      <4> QED
        BY ONLY <4>1 DEF upto, before
    <3>2. Cardinality(upto(k)) <= n
      BY <1>3, <1>6, <3>1, FS_Subset
    <3> QED
      BY <1>2, <1>3, <1>5, <3>2
  <2>2. CASE k > m
    <3>1. upto(m) \in SUBSET upto(k) /\ k \in upto(k) /\ k \notin upto(m)
      <4>1. k <= k /\ ~(k <= m) /\ \A s \in S : s <= m => s <= k
        BY ONLY <2>0, <2>2
      <4> QED
        BY ONLY <1>9, <4>1 DEF upto
    <3>2. IsFiniteSet(upto(k)) /\ upto(k) # upto(m)
      BY <1>2, <1>5, <3>1
    <3> QED
      BY <1>7, <3>1, <3>2, FS_Subset
  <2> QED
    BY <1>1, <1>2, <1>9, <2>1, <2>2
<1>10. PartStart(v, n + 1) = m
  <2>1. PartStart(v, n + 1) = CHOOSE k \in S : Cardinality(upto(k)) = n + 1
    BY DEF PartStart, S, upto
  <2> QED
    BY <1>1, <1>7, <1>9, <2>1
<1> QED
  BY <1>7, <1>8, <1>10 DEF m, S, upto

\* What a round of the loop finds is the next member of the list of parts, and
\* behind it the loop knows of one more.
LEMMA NextPart ==
    ASSUME NEW v \in Seq(Nat), NEW i, NEW n, PartsBefore(v, i, n),
           FirstAlnum(v, i) <= Len(v)
    PROVE  LET m == FirstAlnum(v, i)
               e == Past(v, m, PartClass(v[m]))
               s == SubSeq(v, m, e - 1)
           IN  /\ PartsBefore(v, e, n + 1)
               /\ i < e /\ m < e /\ m \in 1..Len(v)
               /\ n + 1 <= Len(Parts(v))
               /\ Parts(v)[n + 1] = IF v[m] \in Digits THEN <<2, NumberOf(s)>> ELSE <<1, s>>
               /\ \A k \in m..e - 1 : v[k] \in PartClass(v[m])
<1> DEFINE m == FirstAlnum(v, i)
           e == Past(v, m, PartClass(v[m]))
           S == PartStarts(v)
<1>1. /\ m \in i..Len(v) + 1 /\ i \in 1..Len(v) + 1 /\ n \in Nat
      /\ \A s \in S : s < i \/ m <= s
      /\ m \in S /\ m <= Len(v)
  BY NextStart DEF PartsBefore, BetweenParts
<1>2. /\ PartStart(v, n + 1) = m
      /\ n + 1 <= Cardinality(S)
      /\ Cardinality({s \in S : s <= m}) = n + 1
  BY NextRank
<1>3. m \in 1..Len(v) /\ Alnum(v[m]) /\ v[m] \in Nat
  BY <1>1 DEF PartStarts
<1> HIDE DEF m
<1>4. /\ {d \in Digits \union Letters : ClassOf(d) = ClassOf(v[m])} = PartClass(v[m])
      /\ v[m] \in PartClass(v[m])
      /\ \A d \in PartClass(v[m]) : Alnum(d) /\ ClassOf(d) = ClassOf(v[m])
      /\ \A d \in Nat : d \notin PartClass(v[m]) => ClassOf(d) # ClassOf(v[m])
  BY <1>3, ClassIs
<1>5. /\ e \in m..Len(v) + 1
      /\ e <= Len(v) => v[e] \notin PartClass(v[m])
      /\ \A k \in m..e - 1 : v[k] \in PartClass(v[m])
  <2>1. m \in 1..Len(v) + 1
    BY <1>3
  <2> QED
    BY <2>1, PastIs
<1>6. PartAt(v, m) = IF v[m] \in Digits THEN <<2, NumberOf(SubSeq(v, m, e - 1))>>
                     ELSE <<1, SubSeq(v, m, e - 1)>>
  BY <1>4 DEF PartAt
<1> HIDE DEF e
<1>7. m < e
  <2>1. m <= Len(v) /\ (e = m => v[m] \notin PartClass(v[m]))
    BY <1>3, <1>5
  <2> QED
    BY <1>3, <1>4, <1>5, <2>1
<1>8. Len(Parts(v)) >= Cardinality(S) /\ Cardinality(S) \in Nat
      /\ \A k \in 1..Cardinality(S) : Parts(v)[k] = PartAt(v, PartStart(v, k))
  BY PartsAre
<1>9. n + 1 \in 1..Cardinality(S) /\ n + 1 <= Len(Parts(v))
  <2> HIDE DEF S
  <2> QED
    BY <1>1, <1>2, <1>8
<1>10. Parts(v)[n + 1] = PartAt(v, m)
  BY <1>2, <1>8, <1>9
<1>11. PartsBefore(v, e, n + 1)
  <2>1. e \in 1..Len(v) + 1 /\ n + 1 \in Nat /\ e - 1 \in m..e - 1
    BY <1>1, <1>3, <1>5, <1>7
  <2>2. Alnum(v[e - 1]) /\ ClassOf(v[e - 1]) = ClassOf(v[m])
    BY <1>4, <1>5, <2>1
  <2>3. e <= Len(v) => ClassOf(v[e]) # ClassOf(v[e - 1])
    <3>1. ASSUME e <= Len(v)
          PROVE  v[e] \in Nat
      BY <2>1, <3>1
    <3> QED
      BY <1>4, <1>5, <2>2, <3>1
  <2>4. ASSUME NEW s \in S, s < e, ~(s <= m)
        PROVE  FALSE
    <3>1. s \in 1..Len(v) /\ (s = 1 \/ ClassOf(v[s - 1]) # ClassOf(v[s]))
      BY DEF PartStarts
    <3>2. s \in m..e - 1 /\ s - 1 \in m..e - 1 /\ s # 1
      BY <1>3, <1>5, <2>4, <3>1
    <3> QED
      BY <1>4, <1>5, <3>1, <3>2
  <2>5. {s \in S : s < e} = {s \in S : s <= m}
    <3>1. \A s \in S : s \in 1..Len(v)
      BY DEF PartStarts
    <3>2. \A s \in S : s < e <=> s <= m
      BY <1>3, <1>5, <1>7, <2>4, <3>1
    <3> QED
      BY <3>2
  <2>6. Cardinality({s \in S : s < e}) = n + 1
    BY <1>2, <2>5
  <2> QED
    BY ONLY <2>1, <2>2, <2>3, <2>6 DEF PartsBefore, BetweenParts
<1>12. i < e
  BY <1>1, <1>3, <1>5, <1>7
<1> QED
  BY <1>3, <1>5, <1>6, <1>7, <1>9, <1>10, <1>11, <1>12 DEF m, e

\* No part is left, but perhaps a separator at the end.
LEMMA LastPart ==
    ASSUME NEW v \in Seq(Nat), NEW i, NEW n, PartsBefore(v, i, n),
           FirstAlnum(v, i) > Len(v)
    PROVE  IF i > Len(v) THEN Len(Parts(v)) = n
           ELSE Len(Parts(v)) = n + 1 /\ Parts(v)[n + 1] = <<0>>
<1> DEFINE m == FirstAlnum(v, i)
           S == PartStarts(v)
<1>1. /\ i \in 1..Len(v) + 1 /\ n \in Nat /\ Len(v) \in Nat
      /\ i = 1 \/ Alnum(v[i - 1])
      /\ Cardinality({s \in S : s < i}) = n
      /\ \A s \in S : s < i \/ m <= s
  BY NextStart DEF PartsBefore, BetweenParts
<1>2. m > Len(v) /\ m \in i..Len(v) + 1 /\ \A k \in i..m - 1 : ~Alnum(v[k])
  BY <1>1, FirstAlnumIs
<1>3. S \subseteq 1..Len(v)
  BY StartsAre
<1>4. Cardinality(S) = n
  <2>1. \A s \in S : s < i
    <3> HIDE DEF m, S
    <3> QED
      BY <1>1, <1>2, <1>3
  <2>2. {s \in S : s < i} = S
    BY <2>1
  <2> QED
    BY <1>1, <2>2
<1>5. v # <<>> /\ ~Alnum(v[Len(v)]) <=> i <= Len(v)
  <2>1. CASE i > Len(v)
    <3>1. i - 1 = Len(v)
      BY <1>1, <2>1
    <3>2. v = <<>> \/ Alnum(v[Len(v)])
      BY <1>1, <3>1
    <3> QED
      BY <1>1, <2>1, <3>2
  <2>2. CASE i <= Len(v)
    <3> HIDE DEF m
    <3>1. Len(v) \in i..m - 1 /\ v # <<>>
      BY <1>1, <1>2, <2>2
    <3> QED
      BY <1>2, <2>2, <3>1
  <2> QED
    BY <1>1, <2>1, <2>2
<1> QED
  BY <1>1, <1>4, <1>5, PartsAre

-----------------------------------------------------------------------------
(* Numbers.                                                                *)

\* One step of the fold that NumberOf is, at the places T of the digits s.
Counted(s, g, T) == IF T = {} THEN 0 ELSE 10 * g[T \ {Max(T)}] + s[Max(T)] - 48

\* The greatest place of a set that has the last one.
LEMMA GreatestIs ==
    ASSUME NEW k \in Nat, NEW T \in SUBSET (1..k), k \in T
    PROVE  Max(T) = k
<1>1. \A j \in T : j \in Nat /\ k >= j
  OBVIOUS
<1>2. \A x \in T : (\A j \in T : x >= j) => x = k
  BY <1>1
<1> QED
  BY <1>1, <1>2 DEF Max

\* The fold is what its recursion says: there is a function that satisfies it,
\* for one on the first places extends to one more.
LEMMA FoldExists ==
    ASSUME NEW s \in Seq(Nat)
    PROVE  \E g : \A T \in SUBSET (1..Len(s)) : g[T] = Counted(s, g, T)
<1> DEFINE Upto(g, k) == \A T \in SUBSET (1..k) : g[T] = Counted(s, g, T)
           X == {k \in 0..Len(s) : ~ \E g : Upto(g, k)}
<1>1. Len(s) \in Nat
  OBVIOUS
<1>2. ASSUME NEW k \in X
      PROVE  \E j \in X : j < k
  <2>1. k \in 0..Len(s) /\ ~ \E g : Upto(g, k)
    OBVIOUS
  <2>2. k # 0
    <3>1. ASSUME k = 0
          PROVE  Upto([T \in {{}} |-> 0], k)
      <4>1. 1..k = {}
        BY <3>1
      <4>2. \A T \in SUBSET (1..k) : T = {}
        BY <4>1
      <4> QED
        BY <4>2 DEF Counted
    <3> QED
      BY <2>1, <3>1
  <2>3. k - 1 \in 0..Len(s) /\ k - 1 < k /\ k \in Nat
    BY ONLY <1>1, <2>1, <2>2
  <2>4. ASSUME NEW f, Upto(f, k - 1)
        PROVE  FALSE
    <3> DEFINE h == [T \in SUBSET (1..k) |->
                        IF k \in T THEN 10 * f[T \ {k}] + s[k] - 48 ELSE f[T]]
    <3>1. \A T \in SUBSET (1..k) :
              h[T] = IF k \in T THEN 10 * f[T \ {k}] + s[k] - 48 ELSE f[T]
      OBVIOUS
    <3> HIDE DEF h
    <3>2. \A T \in SUBSET (1..k) : k \notin T => T \in SUBSET (1..k - 1)
      BY ONLY <2>3
    <3>3. ASSUME NEW T \in SUBSET (1..k)
          PROVE  h[T] = Counted(s, h, T)
      <4>1. CASE k \in T
        <5>1. Max(T) = k
          BY <2>3, <4>1, GreatestIs
        <5>2. T \ {k} \in SUBSET (1..k) /\ k \notin T \ {k} /\ T # {}
          BY <4>1
        <5>3. h[T \ {k}] = f[T \ {k}]
          BY <3>1, <5>2
        <5> QED
          BY <3>1, <4>1, <5>1, <5>2, <5>3 DEF Counted
      <4>2. CASE k \notin T
        <5>1. T \in SUBSET (1..k - 1) /\ T \ {Max(T)} \in SUBSET (1..k)
              /\ k \notin T \ {Max(T)}
          BY <3>2, <4>2
        <5>2. h[T] = f[T] /\ h[T \ {Max(T)}] = f[T \ {Max(T)}]
          BY <3>1, <4>2, <5>1
        <5>3. f[T] = Counted(s, f, T)
          BY <2>4, <5>1
        <5> QED
          BY <5>2, <5>3 DEF Counted
      <4> QED
        BY <4>1, <4>2
    <3> QED
      BY <2>1, <3>3
  <2>5. k - 1 \in X
    BY <2>3, <2>4
  <2> QED
    BY <2>3, <2>5
<1>3. X = {}
  <2>1. X \in SUBSET Nat
    OBVIOUS
  <2> HIDE DEF X
  <2> QED
    BY <1>2, <2>1, NoLeast
<1>4. Len(s) \in 0..Len(s)
  BY <1>1
<1> QED
  BY <1>3, <1>4

\* The value of the first digits, one by one.
LEMMA NumberIs ==
    ASSUME NEW s \in Seq(Nat)
    PROVE  \E f : /\ NumberOf(s) = f[Len(s)]
                  /\ f[0] = 0
                  /\ \A k \in 1..Len(s) : f[k] = 10 * f[k - 1] + s[k] - 48
<1> DEFINE D == 1..Len(s)
           Body(g) == [T \in SUBSET D |-> Counted(s, g, T)]
           c == CHOOSE g : g = Body(g)
<1>1. PICK g : \A T \in SUBSET D : g[T] = Counted(s, g, T)
  BY FoldExists
<1>2. \E h : h = Body(h)
  <2> DEFINE h == [T \in SUBSET D |-> g[T]]
  <2>1. \A T \in SUBSET D : h[T] = g[T] /\ T \ {Max(T)} \in SUBSET D
    OBVIOUS
  <2>2. \A T \in SUBSET D : Counted(s, h, T) = g[T]
    <3> HIDE DEF h
    <3> QED
      BY <1>1, <2>1 DEF Counted
  <2>3. h = Body(h)
    BY <2>2
  <2> QED
    BY <2>3
<1>3. NumberOf(s) = c[D]
  <2>1. DOMAIN s = D
    OBVIOUS
  <2>2. NumberOf(s) = (CHOOSE h : h = [T \in SUBSET DOMAIN s |-> Counted(s, h, T)])[DOMAIN s]
    BY DEF NumberOf, FoldLeft, MapThenFoldSet, Counted
  <2> QED
    BY <2>1, <2>2
<1>4. c = Body(c)
  BY <1>2
<1> HIDE DEF c
<1>5. \A T \in SUBSET D : c[T] = Counted(s, c, T)
  <2>1. \A T \in SUBSET D : Body(c)[T] = Counted(s, c, T)
    OBVIOUS
  <2> HIDE DEF Body
  <2> QED
    BY <1>4, <2>1
<1> DEFINE f == [k \in 0..Len(s) |-> c[1..k]]
<1>6. f[0] = 0
  <2>1. {} \in SUBSET D /\ 1..0 = {} /\ 0 \in 0..Len(s)
    OBVIOUS
  <2> QED
    BY <1>5, <2>1 DEF Counted
<1>7. ASSUME NEW k \in 1..Len(s)
      PROVE  f[k] = 10 * f[k - 1] + s[k] - 48
  <2>0. Len(s) \in Nat
    OBVIOUS
  <2>1. /\ 1..k \in SUBSET D /\ 1..k # {} /\ (1..k) \ {k} = 1..k - 1
        /\ k \in 0..Len(s) /\ k - 1 \in 0..Len(s) /\ k \in Nat /\ k \in 1..k
    <3>1. k \in 0..Len(s) /\ k - 1 \in 0..Len(s) /\ k \in Nat /\ k \in 1..k
      BY ONLY <2>0, k \in 1..Len(s)
    <3>2. 1..k \in SUBSET D
      BY ONLY <2>0, k \in 1..Len(s)
    <3>3. (1..k) \ {k} = 1..k - 1
      BY ONLY <3>1
    <3> QED
      BY <3>1, <3>2, <3>3
  <2>2. Max(1..k) = k
    BY <2>1, GreatestIs
  <2>3. c[1..k] = 10 * c[1..k - 1] + s[k] - 48
    BY <1>5, <2>1, <2>2 DEF Counted
  <2> QED
    BY <2>1, <2>3
<1>8. NumberOf(s) = f[Len(s)]
  BY <1>3
<1> QED
  BY <1>6, <1>7, <1>8

\* f has the values of the first digits of s.
Values(s, f) ==
    /\ f[0] = 0
    /\ \A k \in 1..Len(s) : f[k] = 10 * f[k - 1] + s[k] - 48

\* The values are numbers.
LEMMA ValuesNat ==
    ASSUME NEW s \in Seq(Digits), NEW f, Values(s, f)
    PROVE  \A k \in 0..Len(s) : f[k] \in Nat
<1> DEFINE X == {k \in 0..Len(s) : f[k] \notin Nat}
<1>1. Len(s) \in Nat /\ \A k \in 1..Len(s) : s[k] \in 48..57
  BY DEF Digits
<1>2. ASSUME NEW k \in X
      PROVE  \E j \in X : j < k
  <2>1. k \in 0..Len(s) /\ f[k] \notin Nat /\ k # 0
    BY DEF Values
  <2>2. k \in 1..Len(s) /\ k - 1 \in 0..Len(s) /\ k - 1 < k
    BY ONLY <1>1, <2>1
  <2>3. f[k] = 10 * f[k - 1] + s[k] - 48
    BY <2>2 DEF Values
  <2>4. f[k - 1] \notin Nat
    <3> DEFINE v == f[k - 1]
               c == s[k]
    <3>1. 10 * v + c - 48 \notin Nat /\ c \in 48..57
      BY <1>1, <2>1, <2>2, <2>3
    <3> HIDE DEF v, c
    <3>2. v \notin Nat
      BY ONLY <3>1
    <3> QED
      BY <3>2 DEF v
  <2> QED
    BY <2>2, <2>4
<1>3. X = {}
  <2>1. X \in SUBSET Nat
    OBVIOUS
  <2> HIDE DEF X
  <2> QED
    BY <1>2, <2>1, NoLeast
<1> QED
  BY <1>3

\* Leading zeros count for nothing.
LEMMA ZerosAreNothing ==
    ASSUME NEW s \in Seq(Digits), NEW f, Values(s, f), NEW z \in 0..Len(s),
           \A k \in 1..z : s[k] = 48
    PROVE  f[z] = 0
<1> DEFINE X == {k \in 0..z : f[k] # 0}
<1>1. Len(s) \in Nat
  OBVIOUS
<1>2. ASSUME NEW k \in X
      PROVE  \E j \in X : j < k
  <2>1. k \in 0..z /\ f[k] # 0 /\ k # 0
    BY DEF Values
  <2>2. k \in 1..z /\ k \in 1..Len(s) /\ k - 1 \in 0..z /\ k - 1 < k
    BY ONLY <1>1, <2>1, z \in 0..Len(s)
  <2>3. f[k] = 10 * f[k - 1] + s[k] - 48 /\ s[k] = 48
    BY <2>2 DEF Values
  <2>4. f[k - 1] # 0
    BY ONLY <2>1, <2>3
  <2> QED
    BY <2>2, <2>4
<1>3. X = {}
  <2>1. X \in SUBSET Nat
    OBVIOUS
  <2> HIDE DEF X
  <2> QED
    BY <1>2, <2>1, NoLeast
<1>4. z \in 0..z
  OBVIOUS
<1> QED
  BY <1>3, <1>4

\* More digits, a greater value.
LEMMA ValuesGrow ==
    ASSUME NEW s \in Seq(Digits), NEW f, Values(s, f),
           NEW x \in 0..Len(s), NEW y \in x..Len(s)
    PROVE  f[x] <= f[y]
<1> DEFINE X == {k \in x..Len(s) : ~(f[x] <= f[k])}
<1>1. Len(s) \in Nat /\ x \in Nat /\ \A k \in 1..Len(s) : s[k] \in 48..57
  BY DEF Digits
<1>2. \A k \in 0..Len(s) : f[k] \in Nat
  BY ValuesNat
<1>3. ASSUME NEW k \in X
      PROVE  \E j \in X : j < k
  <2>1. k \in x..Len(s) /\ ~(f[x] <= f[k]) /\ k # x
    BY <1>2
  <2>2. k \in 1..Len(s) /\ k - 1 \in x..Len(s) /\ k - 1 \in 0..Len(s) /\ k - 1 < k
    BY ONLY <1>1, <2>1
  <2>3. f[k] = 10 * f[k - 1] + s[k] - 48
    BY <2>2 DEF Values
  <2>4. f[k - 1] <= f[k]
    <3> DEFINE v == f[k - 1]
               c == s[k]
    <3>1. f[k] = 10 * v + c - 48 /\ v \in Nat /\ c \in 48..57
      BY <1>1, <1>2, <2>2, <2>3
    <3> HIDE DEF v, c
    <3>2. v <= 10 * v + c - 48
      BY ONLY <3>1
    <3> QED
      BY <3>1, <3>2 DEF v
  <2>5. f[x] \in Nat /\ f[k] \in Nat /\ f[k - 1] \in Nat
    BY <1>2, <2>2
  <2>6. ~(f[x] <= f[k - 1])
    BY ONLY <2>1, <2>4, <2>5
  <2> QED
    BY <2>2, <2>6
<1>4. X = {}
  <2>1. X \in SUBSET Nat
    OBVIOUS
  <2> HIDE DEF X
  <2> QED
    BY <1>3, <2>1, NoLeast
<1> QED
  BY <1>4

\* Behind x and y there are the same d digits.
Agree(s, t, x, y, d) == \A k \in 1..d : s[x + k] = t[y + k]

\* Behind the same value the same digits make the same value.
LEMMA SameDigits ==
    ASSUME NEW s \in Seq(Digits), NEW t \in Seq(Digits), NEW f, NEW g,
           Values(s, f), Values(t, g), NEW x \in Nat, NEW y \in Nat, NEW d \in Nat,
           x + d <= Len(s), y + d <= Len(t), f[x] = g[y],
           Agree(s, t, x, y, d)
    PROVE  f[x + d] = g[y + d]
<1> DEFINE X == {k \in 0..d : f[x + k] # g[y + k]}
<1>1. Len(s) \in Nat /\ Len(t) \in Nat
  OBVIOUS
<1>2. ASSUME NEW k \in X
      PROVE  \E j \in X : j < k
  <2>1. k \in 0..d /\ f[x + k] # g[y + k] /\ k # 0
    BY x + 0 = x, y + 0 = y
  <2>2. /\ k \in 1..d /\ x + k \in 1..Len(s) /\ y + k \in 1..Len(t)
        /\ k - 1 \in 0..d /\ k - 1 < k
        /\ x + k - 1 = x + (k - 1) /\ y + k - 1 = y + (k - 1)
    BY ONLY <1>1, <2>1, x \in Nat, y \in Nat, d \in Nat, x + d <= Len(s), y + d <= Len(t)
  <2>3. /\ f[x + k] = 10 * f[x + (k - 1)] + s[x + k] - 48
        /\ g[y + k] = 10 * g[y + (k - 1)] + t[y + k] - 48
        /\ s[x + k] = t[y + k]
    <3>1. /\ f[x + k] = 10 * f[x + k - 1] + s[x + k] - 48
          /\ g[y + k] = 10 * g[y + k - 1] + t[y + k] - 48
      BY <2>2 DEF Values
    <3> QED
      BY <2>2, <3>1 DEF Agree
  <2>4. f[x + (k - 1)] # g[y + (k - 1)]
    BY ONLY <2>1, <2>3
  <2> QED
    BY <2>2, <2>4
<1>3. X = {}
  <2>1. X \in SUBSET Nat
    OBVIOUS
  <2> HIDE DEF X
  <2> QED
    BY <1>2, <2>1, NoLeast
<1>4. d \in 0..d
  OBVIOUS
<1> QED
  BY <1>3, <1>4

\* Behind a greater value nothing makes up for it with as many digits.
LEMMA GreaterStays ==
    ASSUME NEW s \in Seq(Digits), NEW t \in Seq(Digits), NEW f, NEW g,
           Values(s, f), Values(t, g), NEW x \in Nat, NEW y \in Nat, NEW d \in Nat,
           x + d <= Len(s), y + d <= Len(t), f[x] > g[y]
    PROVE  f[x + d] > g[y + d]
<1> DEFINE X == {k \in 0..d : ~(f[x + k] > g[y + k])}
<1>1. Len(s) \in Nat /\ Len(t) \in Nat
  OBVIOUS
<1>2. /\ \A k \in 0..Len(s) : f[k] \in Nat
      /\ \A k \in 0..Len(t) : g[k] \in Nat
      /\ \A k \in 1..Len(s) : s[k] \in 48..57
      /\ \A k \in 1..Len(t) : t[k] \in 48..57
  BY ValuesNat DEF Digits
<1>3. ASSUME NEW k \in X
      PROVE  \E j \in X : j < k
  <2>1. k \in 0..d /\ ~(f[x + k] > g[y + k]) /\ k # 0
    BY x + 0 = x, y + 0 = y
  <2>2. /\ k \in 1..d /\ x + k \in 1..Len(s) /\ y + k \in 1..Len(t)
        /\ k - 1 \in 0..d /\ k - 1 < k
        /\ x + k - 1 = x + (k - 1) /\ y + k - 1 = y + (k - 1)
        /\ x + k - 1 \in 0..Len(s) /\ y + k - 1 \in 0..Len(t)
    BY ONLY <1>1, <2>1, x \in Nat, y \in Nat, d \in Nat, x + d <= Len(s), y + d <= Len(t)
  <2>3. /\ f[x + k] = 10 * f[x + k - 1] + s[x + k] - 48
        /\ g[y + k] = 10 * g[y + k - 1] + t[y + k] - 48
    BY <2>2 DEF Values
  <2>4. /\ f[x + k - 1] \in Nat /\ g[y + k - 1] \in Nat
        /\ s[x + k] \in 48..57 /\ t[y + k] \in 48..57
    BY <1>2, <2>2
  <2>5. ~(f[x + k - 1] > g[y + k - 1])
    <3> DEFINE fk == f[x + k - 1]
               gk == g[y + k - 1]
               c  == s[x + k]
               e  == t[y + k]
    <3>1. ~(10 * fk + c - 48 > 10 * gk + e - 48)
      BY <2>1, <2>3
    <3>2. fk \in Nat /\ gk \in Nat /\ c \in 48..57 /\ e \in 48..57
      BY <2>4
    <3> HIDE DEF fk, gk, c, e
    <3>3. ~(fk > gk)
      BY ONLY <3>1, <3>2
    <3> QED
      BY <3>3 DEF fk, gk
  <2> QED
    BY <2>2, <2>5
<1>4. X = {}
  <2>1. X \in SUBSET Nat
    OBVIOUS
  <2> HIDE DEF X
  <2> QED
    BY <1>3, <2>1, NoLeast
<1>5. d \in 0..d
  OBVIOUS
<1> QED
  BY <1>4, <1>5

-----------------------------------------------------------------------------
(* Comparisons of parts.                                                   *)

\* At k the word s is found to be in front of t.
FirstBelow(s, t, k) ==
    /\ k \in 1..Len(t) /\ k <= Len(s) + 1
    /\ \A i \in 1..k - 1 : s[i] = t[i]
    /\ k <= Len(s) => s[k] < t[k]

\* strcmp() finds where the words differ.
LEMMA StrCmpIs ==
    ASSUME NEW s \in Seq(Nat), NEW t \in Seq(Nat)
    PROVE  \/ StrCmp(s, t) = 0 /\ s = t
           \/ StrCmp(s, t) = -1 /\ \E k \in Nat : FirstBelow(s, t, k)
           \/ StrCmp(s, t) = 1 /\ \E k \in Nat : FirstBelow(t, s, k)
<1>1. CASE s = t
  BY <1>1 DEF StrCmp
<1>2. CASE s # t
  <2> DEFINE S == {i \in 1..Len(s) + 1 : i > Len(s) \/ i > Len(t) \/ s[i] # t[i]}
             k == Min(S)
  <2>1. Len(s) \in Nat /\ Len(t) \in Nat
    OBVIOUS
  <2>2. Len(s) + 1 \in S /\ S \in SUBSET Nat
    BY <2>1
  <2>3. k \in S /\ \A i \in S : k <= i
    <3> HIDE DEF S
    <3> QED
      BY <2>2, LeastMember
  <2>4. StrCmp(s, t) = IF k > Len(s) \/ (k <= Len(t) /\ s[k] < t[k]) THEN -1 ELSE 1
    BY <1>2 DEF StrCmp
  <2>5. k \in 1..Len(s) + 1 /\ (k > Len(s) \/ k > Len(t) \/ s[k] # t[k])
    <3> HIDE DEF k
    <3> QED
      BY <2>3
  <2>6. ASSUME NEW i \in 1..k - 1
        PROVE  i <= Len(s) /\ i <= Len(t) /\ s[i] = t[i]
    <3>1. i \in 1..Len(s) + 1 /\ ~(k <= i)
      <4> HIDE DEF k
      <4> QED
        BY <2>1, <2>5
    <3>2. i \notin S
      <4> HIDE DEF S
      <4> QED
        BY <2>3, <3>1
    <3> QED
      BY <2>1, <3>1, <3>2
  <2> HIDE DEF k, S
  <2>7. k <= Len(t) + 1
    <3> SUFFICES ASSUME ~(k <= Len(t) + 1)
                 PROVE  FALSE
      OBVIOUS
    <3>1. Len(t) + 1 \in 1..k - 1
      BY <2>1, <2>5
    <3> QED
      BY <2>1, <2>6, <3>1
  <2>8. ~(k > Len(s) /\ k > Len(t))
    <3> SUFFICES ASSUME k > Len(s), k > Len(t)
                 PROVE  FALSE
      OBVIOUS
    <3>1. k = Len(s) + 1 /\ k = Len(t) + 1
      BY <2>1, <2>5, <2>7
    <3>2. Len(s) = Len(t) /\ \A i \in 1..Len(s) : s[i] = t[i]
      BY <2>1, <2>6, <3>1
    <3> QED
      BY <1>2, <3>2
  <2>9. CASE k > Len(s)
    <3>1. FirstBelow(s, t, k)
      BY <2>1, <2>5, <2>6, <2>8, <2>9 DEF FirstBelow
    <3> QED
      BY <2>4, <2>5, <2>9, <3>1
  <2>10. CASE k > Len(t)
    <3>1. FirstBelow(t, s, k)
      BY <2>1, <2>5, <2>6, <2>7, <2>8, <2>10 DEF FirstBelow
    <3>2. ~(k > Len(s)) /\ ~(k <= Len(t))
      BY <2>1, <2>5, <2>8, <2>10
    <3> QED
      BY <2>4, <2>5, <3>1, <3>2
  <2>11. CASE k <= Len(s) /\ k <= Len(t)
    <3>1. k \in 1..Len(s) /\ k \in 1..Len(t) /\ s[k] \in Nat /\ t[k] \in Nat /\ s[k] # t[k]
      BY <2>1, <2>5, <2>11
    <3>2. CASE s[k] < t[k]
      <4>1. FirstBelow(s, t, k)
        BY <2>1, <2>6, <3>1, <3>2 DEF FirstBelow
      <4> QED
        BY <2>4, <2>5, <2>11, <3>2, <4>1
    <3>3. CASE t[k] < s[k]
      <4>1. FirstBelow(t, s, k)
        BY <2>1, <2>6, <3>1, <3>3 DEF FirstBelow
      <4>2. ~(k > Len(s)) /\ ~(s[k] < t[k])
        BY <2>1, <3>1, <3>3
      <4> QED
        BY <2>4, <2>5, <4>1, <4>2
    <3> QED
      BY <3>1, <3>2, <3>3
  <2> QED
    BY <2>1, <2>5, <2>9, <2>10, <2>11
<1> QED
  BY <1>1, <1>2

\* Then it is earlier in the dictionary, and not the other way round.
LEMMA EarlierIs ==
    ASSUME NEW s \in Seq(Nat), NEW t \in Seq(Nat), NEW k \in Nat, FirstBelow(s, t, k)
    PROVE  Earlier(s, t) /\ ~Earlier(t, s) /\ s # t
<1>1. /\ Len(s) \in Nat /\ Len(t) \in Nat
      /\ k \in 1..Len(t) /\ k <= Len(s) + 1
      /\ \A i \in 1..k - 1 : s[i] = t[i]
      /\ k <= Len(s) => s[k] < t[k]
  BY DEF FirstBelow
<1>2. Earlier(s, t)
  <2>1. \A i \in 1..k - 1 : i <= Len(s) /\ s[i] = t[i]
    BY <1>1
  <2>2. k > Len(s) \/ s[k] < t[k]
    BY <1>1
  <2> QED
    BY <1>1, <2>1, <2>2 DEF Earlier
<1>3. ASSUME NEW j \in 1..Len(s), \A i \in 1..j - 1 : i <= Len(t) /\ t[i] = s[i],
             j > Len(t) \/ t[j] < s[j]
      PROVE  FALSE
  <2>1. j <= k
    <3> SUFFICES ASSUME ~(j <= k)
                 PROVE  FALSE
      OBVIOUS
    <3>1. k \in 1..j - 1 /\ k <= Len(s)
      BY <1>1, <1>3
    <3>2. t[k] = s[k] /\ s[k] < t[k]
      BY <1>1, <1>3, <3>1
    <3>3. k \in 1..Len(s) /\ s[k] \in Nat
      BY <1>1, <3>1
    <3> QED
      BY <3>2, <3>3
  <2>2. t[j] < s[j]
    BY <1>1, <1>3, <2>1
  <2>3. j \in 1..Len(t) /\ s[j] \in Nat /\ t[j] \in Nat
    BY <1>1, <2>1
  <2>4. CASE j = k
    BY <1>1, <2>2, <2>3, <2>4
  <2>5. CASE j # k
    <3>1. j \in 1..k - 1
      BY <1>1, <2>1, <2>5
    <3>2. s[j] = t[j]
      BY <1>1, <3>1
    <3> QED
      BY <2>2, <2>3, <3>2
  <2> QED
    BY <2>4, <2>5
<1>4. ~Earlier(t, s)
  BY <1>3 DEF Earlier
<1> QED
  BY <1>2, <1>4

\* No word is in front of itself.
LEMMA NotEarlierThanItself ==
    ASSUME NEW s \in Seq(Nat)
    PROVE  ~Earlier(s, s)
<1>1. ASSUME NEW k \in 1..Len(s)
      PROVE  ~(k > Len(s)) /\ ~(s[k] < s[k])
  <2>1. s[k] \in Nat /\ Len(s) \in Nat
    OBVIOUS
  <2> QED
    BY <2>1
<1> QED
  BY <1>1 DEF Earlier

\* Digits that are first found to be less after as many zeros as one likes, in
\* numbers with as many digits, make the smaller number.
LEMMA LessIsLess ==
    ASSUME NEW s \in Seq(Digits), NEW t \in Seq(Digits), NEW f, NEW g,
           Values(s, f), Values(t, g), NEW x \in 0..Len(s), NEW y \in 0..Len(t),
           f[x] = 0, g[y] = 0, Len(s) - x = Len(t) - y,
           NEW k \in Nat,
           FirstBelow(SubSeq(s, x + 1, Len(s)), SubSeq(t, y + 1, Len(t)), k)
    PROVE  f[Len(s)] < g[Len(t)]
<1> DEFINE u == SubSeq(s, x + 1, Len(s))
           w == SubSeq(t, y + 1, Len(t))
<1>1. /\ Len(s) \in Nat /\ Len(t) \in Nat /\ x \in Nat /\ y \in Nat
      /\ Len(u) = Len(s) - x /\ Len(w) = Len(t) - y
      /\ \A i \in 1..Len(s) - x : u[i] = s[x + i]
      /\ \A i \in 1..Len(t) - y : w[i] = t[y + i]
  <2>1. Len(s) \in Nat /\ Len(t) \in Nat /\ x \in Nat /\ y \in Nat
    OBVIOUS
  <2>2. Len(u) = Len(s) - x /\ \A i \in 1..Len(s) - x : u[i] = s[x + i]
    OBVIOUS
  <2>3. Len(w) = Len(t) - y /\ \A i \in 1..Len(t) - y : w[i] = t[y + i]
    OBVIOUS
  <2> QED
    BY <2>1, <2>2, <2>3
<1>2. FirstBelow(u, w, k)
  OBVIOUS
<1> HIDE DEF u, w
<1>3. /\ k \in 1..Len(t) - y
      /\ \A i \in 1..k - 1 : s[x + i] = t[y + i]
      /\ s[x + k] < t[y + k]
  <2>1. k \in 1..Len(t) - y /\ k \in 1..Len(s) - x
    BY <1>1, <1>2 DEF FirstBelow
  <2>2. \A i \in 1..k - 1 : u[i] = w[i] /\ i \in 1..Len(t) - y /\ i \in 1..Len(s) - x
    BY <1>1, <1>2, <2>1 DEF FirstBelow
  <2>3. u[k] < w[k]
    BY <1>1, <1>2, <2>1 DEF FirstBelow
  <2>4. u[k] = s[x + k] /\ w[k] = t[y + k]
    BY <1>1, <2>1
  <2> QED
    BY <1>1, <2>1, <2>2, <2>3, <2>4
<1>4. /\ k - 1 \in Nat /\ x + (k - 1) <= Len(s) /\ y + (k - 1) <= Len(t)
      /\ x + (k - 1) = x + k - 1 /\ y + (k - 1) = y + k - 1
      /\ x + k \in 1..Len(s) /\ y + k \in 1..Len(t)
      /\ x + k - 1 \in 0..Len(s) /\ y + k - 1 \in 0..Len(t)
      /\ x + k \in Nat /\ y + k \in Nat
      /\ Len(s) - (x + k) \in Nat /\ Len(t) - (y + k) = Len(s) - (x + k)
      /\ x + k + (Len(s) - (x + k)) = Len(s)
      /\ y + k + (Len(s) - (x + k)) = Len(t)
  <2>1. /\ Len(s) \in Nat /\ Len(t) \in Nat /\ x \in Nat /\ y \in Nat
        /\ k \in 1..Len(t) - y /\ Len(s) - x = Len(t) - y
    BY <1>1, <1>3
  <2> QED
    BY ONLY <2>1
<1>5. f[x + k - 1] = g[y + k - 1]
  <2> DEFINE d == k - 1
  <2>1. /\ d \in Nat /\ x + d <= Len(s) /\ y + d <= Len(t)
        /\ Agree(s, t, x, y, d)
        /\ x + k - 1 = x + d /\ y + k - 1 = y + d
    BY ONLY <1>3, <1>4 DEF Agree, d
  <2>2. x \in Nat /\ y \in Nat /\ f[x] = g[y]
    BY <1>1
  <2> HIDE DEF d
  <2>3. f[x + d] = g[y + d]
    BY <2>1, <2>2, SameDigits
  <2> QED
    BY <2>1, <2>3
<1>6. f[x + k] < g[y + k]
  <2> DEFINE c == s[x + k]
             e == t[y + k]
             v == f[x + k - 1]
  <2>1. c \in Nat /\ e \in Nat /\ c < e /\ v \in Nat
    <3>1. v \in Nat
      BY <1>4, ValuesNat
    <3>2. c \in 48..57 /\ e \in 48..57
      <4>1. x + k \in 1..Len(s) /\ y + k \in 1..Len(t)
        BY <1>4
      <4>2. \A i \in 1..Len(s) : s[i] \in Digits
        OBVIOUS
      <4>3. \A i \in 1..Len(t) : t[i] \in Digits
        OBVIOUS
      <4>4. s[x + k] \in Digits /\ t[y + k] \in Digits
        BY ONLY <4>1, <4>2, <4>3
      <4> QED
        BY <4>4 DEF Digits
    <3>3. c < e
      BY <1>3
    <3> HIDE DEF c, e, v
    <3> QED
      BY ONLY <3>1, <3>2, <3>3
  <2>2. f[x + k] = 10 * v + c - 48 /\ g[y + k] = 10 * v + e - 48
    BY <1>4, <1>5 DEF Values
  <2> HIDE DEF c, e, v
  <2>3. 10 * v + c - 48 < 10 * v + e - 48
    BY ONLY <2>1
  <2> QED
    BY <2>2, <2>3
<1>7. g[y + k] > f[x + k]
  <2>1. f[x + k] \in Nat /\ g[y + k] \in Nat
    <3>1. x + k \in 0..Len(s) /\ y + k \in 0..Len(t)
      BY <1>4
    <3> QED
      BY <3>1, ValuesNat
  <2> QED
    BY <1>6, <2>1
<1> DEFINE d == Len(s) - (x + k)
<1>8. g[y + k + d] > f[x + k + d]
  <2>1. x + k \in Nat /\ y + k \in Nat /\ d \in Nat
        /\ x + k + d <= Len(s) /\ y + k + d <= Len(t)
    BY <1>1, <1>4
  <2> HIDE DEF d
  <2> QED
    BY <1>7, <2>1, GreaterStays
<1>9. g[Len(t)] > f[Len(s)]
  BY <1>4, <1>8
<1>10. g[Len(t)] \in Nat /\ f[Len(s)] \in Nat
  <2>1. Len(s) \in 0..Len(s) /\ Len(t) \in 0..Len(t)
    BY <1>1
  <2> QED
    BY <2>1, ValuesNat
<1> QED
  BY <1>9, <1>10

\* A number with more digits is greater, if the first one is no zero.
LEMMA LongerIsGreater ==
    ASSUME NEW s \in Seq(Digits), NEW t \in Seq(Digits), NEW f, NEW g,
           Values(s, f), Values(t, g), NEW x \in 0..Len(s), NEW y \in 0..Len(t),
           f[x] = 0, g[y] = 0, Len(s) - x > Len(t) - y,
           s[x + 1] # 48
    PROVE  f[Len(s)] > g[Len(t)]
<1>1. Len(s) \in Nat /\ Len(t) \in Nat /\ x \in Nat /\ y \in Nat
  OBVIOUS
<1> DEFINE d == Len(t) - y
           z == Len(s) - d
<1>2. /\ d \in Nat /\ z \in Nat /\ x + 1 \in 1..Len(s) /\ x + 1 \in 0..Len(s)
      /\ z \in x + 1..Len(s) /\ z \in 0..Len(s) /\ x + 1 - 1 = x
      /\ z + d = Len(s) /\ y + d = Len(t)
  BY ONLY <1>1, Len(s) - x > Len(t) - y, y \in 0..Len(t)
<1> HIDE DEF d, z
<1>3. f[x + 1] > 0
  <2> DEFINE c == s[x + 1]
  <2>1. c \in 48..57 /\ c # 48
    BY <1>2 DEF Digits
  <2>2. f[x + 1] = 10 * f[x] + c - 48
    BY <1>2 DEF Values
  <2> HIDE DEF c
  <2> QED
    BY <2>1, <2>2
<1>4. f[z] > g[y]
  <2>1. f[x + 1] <= f[z]
    BY <1>2, ValuesGrow
  <2>2. f[x + 1] \in Nat /\ f[z] \in Nat
    BY <1>2, ValuesNat
  <2> QED
    BY <1>3, <2>1, <2>2
<1>5. f[z + d] > g[y + d]
  <2>1. z + d <= Len(s) /\ y + d <= Len(t)
    BY <1>1, <1>2
  <2> QED
    BY <1>1, <1>2, <1>4, <2>1, GreaterStays
<1> QED
  BY <1>2, <1>5

\* The comparison of digit strings goes by the value of the numbers.
LEMMA NumCmpIs ==
    ASSUME NEW s \in Seq(Digits), NEW t \in Seq(Digits)
    PROVE  /\ NumberOf(s) \in Nat /\ NumberOf(t) \in Nat
           /\ \/ NumCmp(s, t) = 0 /\ NumberOf(s) = NumberOf(t)
              \/ NumCmp(s, t) = -1 /\ NumberOf(s) < NumberOf(t)
              \/ NumCmp(s, t) = 1 /\ NumberOf(s) > NumberOf(t)
<1>1. Digits \subseteq Nat /\ s \in Seq(Nat) /\ t \in Seq(Nat)
  BY DEF Digits
<1>2. PICK f : NumberOf(s) = f[Len(s)] /\ Values(s, f)
  BY <1>1, NumberIs DEF Values
<1>3. PICK g : NumberOf(t) = g[Len(t)] /\ Values(t, g)
  BY <1>1, NumberIs DEF Values
<1>4. /\ Len(s) \in Nat /\ Len(t) \in Nat
      /\ Len(s) \in 0..Len(s) /\ Len(t) \in 0..Len(t)
  OBVIOUS
<1>5. NumberOf(s) \in Nat /\ NumberOf(t) \in Nat
  BY <1>2, <1>3, <1>4, ValuesNat
<1> DEFINE x == Past(s, 1, {48}) - 1
           y == Past(t, 1, {48}) - 1
           one == SubSeq(s, x + 1, Len(s))
           two == SubSeq(t, y + 1, Len(t))
<1>6. /\ x \in 0..Len(s) /\ Past(s, 1, {48}) = x + 1
      /\ x < Len(s) => s[x + 1] # 48
      /\ \A k \in 1..x : s[k] = 48
  <2>1. 1 \in 1..Len(s) + 1
    BY <1>4
  <2> DEFINE e == Past(s, 1, {48})
  <2>2. /\ e \in 1..Len(s) + 1
        /\ e <= Len(s) => s[e] \notin {48}
        /\ \A k \in 1..e - 1 : s[k] \in {48}
    BY <1>1, <2>1, PastIs
  <2> HIDE DEF e
  <2>3. e - 1 \in 0..Len(s) /\ e = e - 1 + 1 /\ (e - 1 < Len(s) => e <= Len(s))
    BY ONLY <1>4, <2>2
  <2> QED
    BY <2>2, <2>3 DEF e
<1>7. /\ y \in 0..Len(t) /\ Past(t, 1, {48}) = y + 1
      /\ y < Len(t) => t[y + 1] # 48
      /\ \A k \in 1..y : t[k] = 48
  <2>1. 1 \in 1..Len(t) + 1
    BY <1>4
  <2> DEFINE e == Past(t, 1, {48})
  <2>2. /\ e \in 1..Len(t) + 1
        /\ e <= Len(t) => t[e] \notin {48}
        /\ \A k \in 1..e - 1 : t[k] \in {48}
    BY <1>1, <2>1, PastIs
  <2> HIDE DEF e
  <2>3. e - 1 \in 0..Len(t) /\ e = e - 1 + 1 /\ (e - 1 < Len(t) => e <= Len(t))
    BY ONLY <1>4, <2>2
  <2> QED
    BY <2>2, <2>3 DEF e
<1>8. NumCmp(s, t) = CASE Len(one) > Len(two) -> 1
                       [] Len(one) < Len(two) -> -1
                       [] OTHER -> StrCmp(one, two)
  BY <1>6, <1>7 DEF NumCmp
<1> HIDE DEF x, y
<1>9. f[x] = 0 /\ g[y] = 0
  BY <1>2, <1>3, <1>6, <1>7, ZerosAreNothing
<1>10. /\ Len(one) = Len(s) - x /\ Len(two) = Len(t) - y
       /\ one \in Seq(Nat) /\ two \in Seq(Nat)
       /\ \A i \in 1..Len(s) - x : one[i] = s[x + i]
       /\ \A i \in 1..Len(t) - y : two[i] = t[y + i]
  <2>1. /\ Len(one) = Len(s) - x /\ one \in Seq(Nat)
        /\ \A i \in 1..Len(s) - x : one[i] = s[x + i]
    BY <1>1, <1>6
  <2>2. /\ Len(two) = Len(t) - y /\ two \in Seq(Nat)
        /\ \A i \in 1..Len(t) - y : two[i] = t[y + i]
    BY <1>1, <1>7
  <2> QED
    BY <2>1, <2>2
<1>11. Len(one) \in Nat /\ Len(two) \in Nat /\ x \in Nat /\ y \in Nat
  BY <1>6, <1>7, <1>10
<1>12. CASE Len(one) > Len(two)
  <2>1. Len(s) - x > Len(t) - y
    BY <1>10, <1>12
  <2>2. s[x + 1] # 48
    BY <1>4, <1>6, <1>7, <2>1
  <2>3. f[Len(s)] > g[Len(t)]
    BY <1>2, <1>3, <1>6, <1>7, <1>9, <2>1, <2>2, LongerIsGreater
  <2>4. NumCmp(s, t) = 1
    BY <1>8, <1>11, <1>12
  <2> QED
    BY <1>2, <1>3, <1>5, <2>3, <2>4
<1>13. CASE Len(one) < Len(two)
  <2>1. Len(t) - y > Len(s) - x
    BY <1>4, <1>10, <1>11, <1>13
  <2>2. t[y + 1] # 48
    BY <1>4, <1>6, <1>7, <2>1
  <2>3. g[Len(t)] > f[Len(s)]
    BY <1>2, <1>3, <1>6, <1>7, <1>9, <2>1, <2>2, LongerIsGreater
  <2>4. NumCmp(s, t) = -1
    BY <1>8, <1>11, <1>13
  <2> QED
    BY <1>2, <1>3, <1>5, <2>3, <2>4
<1>14. CASE Len(one) = Len(two)
  <2>1. NumCmp(s, t) = StrCmp(one, two)
    BY <1>8, <1>11, <1>14
  <2>2. Len(s) - x = Len(t) - y
    BY <1>10, <1>14
  <2>3. CASE StrCmp(one, two) = 0 /\ one = two
    <3> DEFINE d == Len(s) - x
    <3>1. d \in Nat /\ x + d = Len(s) /\ y + d = Len(t) /\ d = Len(t) - y
      BY <1>4, <1>6, <1>7, <2>2
    <3>2. Agree(s, t, x, y, d)
      <4>1. \A i \in 1..d : one[i] = s[x + i] /\ two[i] = t[y + i]
        BY <1>10, <3>1
      <4> HIDE DEF one, two, d
      <4> QED
        BY <2>3, <4>1 DEF Agree
    <3> HIDE DEF d
    <3>3. x + d <= Len(s) /\ y + d <= Len(t) /\ f[x] = g[y]
      BY <1>4, <1>9, <3>1
    <3>4. f[x + d] = g[y + d]
      BY <1>2, <1>3, <1>11, <3>1, <3>2, <3>3, SameDigits
    <3>5. f[Len(s)] = g[Len(t)]
      BY <3>1, <3>4
    <3> QED
      BY <1>2, <1>3, <1>5, <2>1, <2>3, <3>5
  <2>4. ASSUME NEW k \in Nat, StrCmp(one, two) = -1, FirstBelow(one, two, k)
        PROVE  NumCmp(s, t) = -1 /\ NumberOf(s) < NumberOf(t)
    <3>1. f[Len(s)] < g[Len(t)]
      BY <1>2, <1>3, <1>6, <1>7, <1>9, <2>2, <2>4, LessIsLess
    <3> QED
      BY <1>2, <1>3, <2>1, <2>4, <3>1
  <2>5. ASSUME NEW k \in Nat, StrCmp(one, two) = 1, FirstBelow(two, one, k)
        PROVE  NumCmp(s, t) = 1 /\ NumberOf(s) > NumberOf(t)
    <3>1. Len(t) - y = Len(s) - x
      BY <2>2
    <3>2. g[Len(t)] < f[Len(s)]
      BY <1>2, <1>3, <1>6, <1>7, <1>9, <2>5, <3>1, LessIsLess
    <3>3. NumberOf(t) < NumberOf(s)
      BY <1>2, <1>3, <3>2
    <3> QED
      BY <1>5, <2>1, <2>5, <3>3
  <2>6. \/ StrCmp(one, two) = 0 /\ one = two
        \/ StrCmp(one, two) = -1 /\ \E k \in Nat : FirstBelow(one, two, k)
        \/ StrCmp(one, two) = 1 /\ \E k \in Nat : FirstBelow(two, one, k)
    <3> HIDE DEF one, two
    <3> QED
      BY <1>10, StrCmpIs
  <2> QED
    BY <1>5, <2>3, <2>4, <2>5, <2>6
<1> QED
  <2>1. Len(one) > Len(two) \/ Len(one) < Len(two) \/ Len(one) = Len(two)
    BY ONLY <1>11
  <2> QED
    BY <1>5, <1>12, <1>13, <1>14, <2>1

\* A sequence over a set is one over every larger set.
LEMMA SequenceOfMore ==
    ASSUME NEW A, NEW B, A \subseteq B, NEW s \in Seq(A)
    PROVE  s \in Seq(B)
OBVIOUS

\* The part of a segment, as PartAt() and the loop see it.
PartOf(isnum, s) == IF isnum THEN <<2, NumberOf(s)>> ELSE <<1, s>>
CompareParts(isnum, s, t) == IF isnum THEN NumCmp(s, t) ELSE StrCmp(s, t)

\* Two segments of the same class: the comparison of the loop goes by the order
\* of the parts they are.
LEMMA BelowIs ==
    ASSUME NEW isnum \in BOOLEAN, NEW s, NEW t,
           IF isnum THEN s \in Seq(Digits) /\ t \in Seq(Digits)
           ELSE s \in Seq(Letters) /\ t \in Seq(Letters)
    PROVE  LET p == PartOf(isnum, s)
               q == PartOf(isnum, t)
               rc == CompareParts(isnum, s, t)
           IN  \/ rc = 0 /\ p = q /\ ~Below(p, p)
               \/ rc = -1 /\ p # q /\ Below(p, q) /\ ~Below(q, p)
               \/ rc = 1 /\ p # q /\ Below(q, p) /\ ~Below(p, q)
<1>1. CASE isnum
  <2> DEFINE m == NumberOf(s)
             n == NumberOf(t)
  <2>1. /\ m \in Nat /\ n \in Nat
        /\ \/ NumCmp(s, t) = 0 /\ m = n
           \/ NumCmp(s, t) = -1 /\ m < n
           \/ NumCmp(s, t) = 1 /\ m > n
    BY <1>1, NumCmpIs
  <2>2. /\ PartOf(isnum, s) = <<2, m>> /\ PartOf(isnum, t) = <<2, n>>
        /\ CompareParts(isnum, s, t) = NumCmp(s, t)
    BY <1>1 DEF PartOf, CompareParts
  <2> HIDE DEF m, n
  <2>3. /\ Below(<<2, m>>, <<2, n>>) <=> m < n
        /\ Below(<<2, n>>, <<2, m>>) <=> n < m
    BY <2>1 DEF Below
  <2>4. <<2, m>> = <<2, n>> <=> m = n
    OBVIOUS
  <2>5. ~Below(<<2, m>>, <<2, m>>)
    BY <2>1 DEF Below
  <2> QED
    BY <2>1, <2>2, <2>3, <2>4, <2>5
<1>2. CASE ~isnum
  <2>1. s \in Seq(Nat) /\ t \in Seq(Nat)
    <3>1. s \in Seq(Letters) /\ t \in Seq(Letters)
      BY <1>2
    <3>2. Letters \subseteq Nat
      BY DEF Letters
    <3> QED
      BY ONLY <3>1, <3>2, SequenceOfMore
  <2>2. /\ PartOf(isnum, s) = <<1, s>> /\ PartOf(isnum, t) = <<1, t>>
        /\ CompareParts(isnum, s, t) = StrCmp(s, t)
    BY <1>2 DEF PartOf, CompareParts
  <2>3. /\ Below(<<1, s>>, <<1, t>>) <=> Earlier(s, t)
        /\ Below(<<1, t>>, <<1, s>>) <=> Earlier(t, s)
    BY DEF Below
  <2>4. \/ StrCmp(s, t) = 0 /\ s = t
        \/ StrCmp(s, t) = -1 /\ Earlier(s, t) /\ ~Earlier(t, s) /\ s # t
        \/ StrCmp(s, t) = 1 /\ Earlier(t, s) /\ ~Earlier(s, t) /\ s # t
    BY <2>1, StrCmpIs, EarlierIs
  <2>5. <<1, s>> = <<1, t>> <=> s = t
    OBVIOUS
  <2>6. ~Below(<<1, s>>, <<1, s>>)
    BY <2>1, NotEarlierThanItself DEF Below
  <2> QED
    BY <2>2, <2>3, <2>4, <2>5, <2>6
<1> QED
  BY <1>1, <1>2

-----------------------------------------------------------------------------
(* The list of parts decides.                                              *)

\* The first n parts of both versions are the same.
SameParts(a, b, n) ==
    /\ n \in Nat /\ n <= Len(Parts(a)) /\ n <= Len(Parts(b))
    /\ \A k \in 1..n : /\ Parts(a)[k] = Parts(b)[k]
                       /\ ~Below(Parts(a)[k], Parts(a)[k])

\* r is what is to be said of a and b.
Decided(a, b, r) ==
    \/ r = -1 /\ Older(a, b) /\ ~Older(b, a)
    \/ r = 1 /\ Older(b, a) /\ ~Older(a, b)
    \/ r = 0 /\ ~Older(a, b) /\ ~Older(b, a)

\* Which of the versions is the first one does not matter.
LEMMA SameBothWays ==
    ASSUME NEW a, NEW b, NEW n, SameParts(a, b, n)
    PROVE  SameParts(b, a, n)
BY DEF SameParts

\* The order, with the lengths of the lists for their domains.
LEMMA OlderIs ==
    ASSUME NEW a \in Seq(Nat), NEW b \in Seq(Nat)
    PROVE  Older(a, b) <=>
               \E k \in 1..Len(Parts(b)) :
                   /\ \A i \in 1..k - 1 : i <= Len(Parts(a)) /\ Parts(a)[i] = Parts(b)[i]
                   /\ k > Len(Parts(a)) \/ Below(Parts(a)[k], Parts(b)[k])
<1>1. DOMAIN Parts(b) = 1..Len(Parts(b))
  BY PartsAre
<1> QED
  BY <1>1 DEF Older

\* Behind the parts that are the same.
LEMMA OlderBehind ==
    ASSUME NEW a \in Seq(Nat), NEW b \in Seq(Nat), NEW n, SameParts(a, b, n), Older(a, b)
    PROVE  /\ n < Len(Parts(b))
           /\ n < Len(Parts(a)) => \/ Parts(a)[n + 1] = Parts(b)[n + 1]
                                   \/ Below(Parts(a)[n + 1], Parts(b)[n + 1])
<1> DEFINE P == Parts(a)
           Q == Parts(b)
<1>1. Len(P) \in Nat /\ Len(Q) \in Nat
  BY PartsAre
<1>2. PICK k \in 1..Len(Q) :
          /\ \A i \in 1..k - 1 : i <= Len(P) /\ P[i] = Q[i]
          /\ k > Len(P) \/ Below(P[k], Q[k])
  BY OlderIs
<1>3. /\ n \in Nat /\ n <= Len(P) /\ n <= Len(Q)
      /\ \A i \in 1..n : P[i] = Q[i] /\ ~Below(P[i], P[i])
  BY DEF SameParts
<1> HIDE DEF P, Q
<1>4. k > n
  <2> SUFFICES ASSUME ~(k > n)
               PROVE  FALSE
    OBVIOUS
  <2>1. k \in 1..n /\ ~(k > Len(P))
    BY <1>1, <1>2, <1>3
  <2> QED
    BY <1>2, <1>3, <2>1
<1>5. n < Len(Q)
  BY <1>1, <1>2, <1>3, <1>4
<1>6. ASSUME n < Len(P)
      PROVE  P[n + 1] = Q[n + 1] \/ Below(P[n + 1], Q[n + 1])
  <2>1. CASE k = n + 1
    BY <1>1, <1>2, <1>3, <1>6, <2>1
  <2>2. CASE k # n + 1
    <3>1. n + 1 \in 1..k - 1
      BY <1>3, <1>4, <2>2
    <3> QED
      BY <1>2, <3>1
  <2> QED
    BY <2>1, <2>2
<1> QED
  BY <1>5, <1>6 DEF P, Q

\* The next part decides.
LEMMA PartDecides ==
    ASSUME NEW a \in Seq(Nat), NEW b \in Seq(Nat), NEW n, SameParts(a, b, n),
           n < Len(Parts(a)), n < Len(Parts(b)),
           Parts(a)[n + 1] # Parts(b)[n + 1],
           Below(Parts(a)[n + 1], Parts(b)[n + 1]),
           ~Below(Parts(b)[n + 1], Parts(a)[n + 1])
    PROVE  Older(a, b) /\ ~Older(b, a)
<1>1. ~Older(b, a)
  BY SameBothWays, OlderBehind
<1>2. /\ n \in Nat /\ Len(Parts(b)) \in Nat
      /\ \A i \in 1..n : i <= Len(Parts(a)) /\ Parts(a)[i] = Parts(b)[i]
  <2>1. Len(Parts(a)) \in Nat /\ Len(Parts(b)) \in Nat
    BY PartsAre
  <2> QED
    BY <2>1 DEF SameParts
<1>3. n + 1 \in 1..Len(Parts(b)) /\ n + 1 - 1 = n
  BY <1>2
<1>4. Older(a, b)
  BY <1>2, <1>3, OlderIs
<1> QED
  BY <1>1, <1>4

\* One list ends, the other one does not.
LEMMA EndDecides ==
    ASSUME NEW a \in Seq(Nat), NEW b \in Seq(Nat), NEW n, SameParts(a, b, n),
           Len(Parts(a)) = n, n < Len(Parts(b))
    PROVE  Older(a, b) /\ ~Older(b, a)
<1>1. Len(Parts(a)) \in Nat /\ Len(Parts(b)) \in Nat
  BY PartsAre
<1>2. ~(n < Len(Parts(a)))
  BY <1>1
<1>3. ~Older(b, a)
  BY <1>2, SameBothWays, OlderBehind
<1>4. /\ n \in Nat
      /\ \A i \in 1..n : i <= Len(Parts(a)) /\ Parts(a)[i] = Parts(b)[i]
  BY <1>1 DEF SameParts
<1>5. n + 1 \in 1..Len(Parts(b)) /\ n + 1 - 1 = n /\ n + 1 > Len(Parts(a))
  BY <1>1, <1>4
<1>6. Older(a, b)
  <2>1. \E k \in 1..Len(Parts(b)) :
            /\ \A i \in 1..k - 1 : i <= Len(Parts(a)) /\ Parts(a)[i] = Parts(b)[i]
            /\ k > Len(Parts(a)) \/ Below(Parts(a)[k], Parts(b)[k])
    BY ONLY <1>4, <1>5
  <2> QED
    BY <2>1, OlderIs
<1> QED
  BY <1>3, <1>6

\* Both end.
LEMMA NeitherIsOlder ==
    ASSUME NEW a \in Seq(Nat), NEW b \in Seq(Nat), NEW n, SameParts(a, b, n),
           Len(Parts(a)) = n, Len(Parts(b)) = n
    PROVE  ~Older(a, b) /\ ~Older(b, a)
<1>1. ~(n < Len(Parts(a))) /\ ~(n < Len(Parts(b)))
  BY PartsAre
<1> QED
  BY <1>1, SameBothWays, OlderBehind

-----------------------------------------------------------------------------
(* The loop.                                                               *)

\* One round at the characters i and j, from what the next rounds return.
LoopFrom(a, b, from, i, j) ==
    LET one == FirstAlnum(a, i)
        two == FirstAlnum(b, j)
    IN IF i > Len(a) \/ j > Len(b) THEN LeftOver(a, i, b, j)
       ELSE IF one > Len(a) \/ two > Len(b) THEN LeftOver(a, one, b, two)
       ELSE LET isnum == a[one] \in Digits
                class == IF isnum THEN Digits ELSE Letters
                str1  == Past(a, one, class)
                str2  == Past(b, two, class)
                left  == SubSeq(a, one, str1 - 1)
                right == SubSeq(b, two, str2 - 1)
                rc    == IF isnum THEN NumCmp(left, right)
                                  ELSE StrCmp(left, right)
            IN IF str2 = two THEN IF isnum THEN 1 ELSE -1
               ELSE IF rc # 0 THEN rc ELSE from[<<str1, str2>>]

\* The next round is further on.
LEMMA LoopGoesOn ==
    ASSUME NEW a \in Seq(Nat), NEW b \in Seq(Nat),
           NEW i \in 1..Len(a), NEW j \in 1..Len(b),
           FirstAlnum(a, i) <= Len(a), FirstAlnum(b, j) <= Len(b)
    PROVE  LET one == FirstAlnum(a, i)
               two == FirstAlnum(b, j)
               class == PartClass(a[one])
           IN  /\ Past(a, one, class) \in i + 1..Len(a) + 1
               /\ Past(b, two, class) \in 1..Len(b) + 1
<1> DEFINE one == FirstAlnum(a, i)
           two == FirstAlnum(b, j)
           class == PartClass(a[one])
<1>1. Len(a) \in Nat /\ Len(b) \in Nat /\ i \in 1..Len(a) + 1 /\ j \in 1..Len(b) + 1
  OBVIOUS
<1>2. one \in i..Len(a) + 1 /\ Alnum(a[one]) /\ two \in j..Len(b) + 1
  BY <1>1, FirstAlnumIs
<1>3. one <= Len(a) /\ two <= Len(b)
  OBVIOUS
<1> HIDE DEF one, two
<1>4. one \in 1..Len(a) + 1 /\ two \in 1..Len(b) + 1 /\ a[one] \in Nat
  BY <1>1, <1>2, <1>3
<1>5. a[one] \in class
  BY <1>2, <1>4, ClassIs
<1> HIDE DEF class
<1> DEFINE e == Past(a, one, class)
           g == Past(b, two, class)
<1>6. e \in one..Len(a) + 1 /\ (e <= Len(a) => a[e] \notin class)
  BY <1>4, PastIs
<1>7. g \in two..Len(b) + 1
  BY <1>4, PastIs
<1> HIDE DEF e, g
<1>8. e # one
  BY <1>3, <1>5, <1>6
<1>9. e \in i + 1..Len(a) + 1 /\ g \in 1..Len(b) + 1
  BY <1>1, <1>2, <1>4, <1>6, <1>7, <1>8
<1> QED
  BY <1>9 DEF e, g, one, two, class

\* f and g say the same of the rounds behind the place i of the first version.
AgreeBehind(a, b, f, g, i) ==
    \A x \in i + 1..Len(a) + 1 : \A y \in 1..Len(b) + 1 : f[<<x, y>>] = g[<<x, y>>]

\* A round depends only on rounds further on.
LEMMA LoopLooksAhead ==
    ASSUME NEW a \in Seq(Nat), NEW b \in Seq(Nat), NEW f, NEW g,
           NEW i \in 1..Len(a) + 1, NEW j \in 1..Len(b) + 1,
           AgreeBehind(a, b, f, g, i)
    PROVE  LoopFrom(a, b, f, i, j) = LoopFrom(a, b, g, i, j)
<1> DEFINE one == FirstAlnum(a, i)
           two == FirstAlnum(b, j)
           str1 == Past(a, one, PartClass(a[one]))
           str2 == Past(b, two, PartClass(a[one]))
<1>1. CASE i > Len(a) \/ j > Len(b) \/ one > Len(a) \/ two > Len(b)
  BY <1>1 DEF LoopFrom
<1>2. CASE ~(i > Len(a) \/ j > Len(b) \/ one > Len(a) \/ two > Len(b))
  <2>1. i \in 1..Len(a) /\ j \in 1..Len(b) /\ one <= Len(a) /\ two <= Len(b)
    <3>1. Len(a) \in Nat /\ Len(b) \in Nat
      OBVIOUS
    <3>2. one \in i..Len(a) + 1 /\ two \in j..Len(b) + 1
      BY FirstAlnumIs
    <3> HIDE DEF one, two
    <3> QED
      BY <1>2, <3>1, <3>2
  <2>2. str1 \in i + 1..Len(a) + 1 /\ str2 \in 1..Len(b) + 1
    BY <2>1, LoopGoesOn
  <2>3. f[<<str1, str2>>] = g[<<str1, str2>>]
    <3> HIDE DEF str1, str2
    <3> QED
      BY <2>2 DEF AgreeBehind
  <2> QED
    BY <2>3 DEF LoopFrom, PartClass
<1> QED
  BY <1>1, <1>2

\* The loop is what its recursion says: there is a function that satisfies it,
\* for the least part of the first version without one could be extended.
LEMMA LoopIs ==
    ASSUME NEW a \in Seq(Nat), NEW b \in Seq(Nat)
    PROVE  \E from :
               /\ RpmVerCmp(a, b) = IF a = b THEN 0 ELSE from[<<1, 1>>]
               /\ \A i \in 1..Len(a) + 1 : \A j \in 1..Len(b) + 1 :
                      from[<<i, j>>] = LoopFrom(a, b, from, i, j)
<1> DEFINE n == Len(a) + 1
           J == 1..Len(b) + 1
           Behind(f, k) == \A i \in n - k..n : \A j \in J : f[<<i, j>>] = LoopFrom(a, b, f, i, j)
           T == {k \in 0..n - 1 : ~ \E f : Behind(f, k)}
           Body(f) == [at \in (1..n) \X J |-> LoopFrom(a, b, f, at[1], at[2])]
<1>1. n \in Nat \ {0}
  OBVIOUS
<1>2. ASSUME NEW f, NEW g, NEW i \in 1..n, NEW j \in J,
             \A x \in i + 1..n : \A y \in J : f[<<x, y>>] = g[<<x, y>>]
      PROVE  LoopFrom(a, b, f, i, j) = LoopFrom(a, b, g, i, j)
  <2>1. AgreeBehind(a, b, f, g, i)
    BY <1>2 DEF AgreeBehind
  <2>2. i \in 1..Len(a) + 1 /\ j \in 1..Len(b) + 1
    OBVIOUS
  <2> HIDE DEF n, J
  <2> QED
    BY ONLY <2>1, <2>2, a \in Seq(Nat), b \in Seq(Nat), LoopLooksAhead
<1> HIDE DEF n, J
<1>4. ASSUME NEW k \in T
      PROVE  \E j \in T : j < k
  <2>0. k \in 0..n - 1
    OBVIOUS
  <2>1. ~ \E f : Behind(f, k)
    OBVIOUS
  <2>2. n - k \in 1..n
    BY ONLY <1>1, <2>0
  <2>3. ASSUME NEW f,
               \A i \in n - k + 1..n : \A j \in J : f[<<i, j>>] = LoopFrom(a, b, f, i, j)
        PROVE  FALSE
    <3> DEFINE h == [at \in (1..n) \X J |->
                        IF at[1] = n - k THEN LoopFrom(a, b, f, at[1], at[2]) ELSE f[at]]
    <3>1. \A i \in 1..n : \A j \in J :
              h[<<i, j>>] = IF i = n - k THEN LoopFrom(a, b, f, i, j) ELSE f[<<i, j>>]
      OBVIOUS
    <3> HIDE DEF h
    <3>2. ASSUME NEW i \in n - k..n, NEW j \in J
          PROVE  h[<<i, j>>] = LoopFrom(a, b, h, i, j)
      <4>1. i \in 1..n /\ \A x \in i + 1..n : x \in 1..n /\ x # n - k
        BY ONLY <1>1, <2>0, i \in n - k..n
      <4>2. \A x \in i + 1..n : \A y \in J : h[<<x, y>>] = f[<<x, y>>]
        BY <3>1, <4>1
      <4>3. LoopFrom(a, b, h, i, j) = LoopFrom(a, b, f, i, j)
        BY <1>2, <4>1, <4>2
      <4>4. CASE i = n - k
        BY <3>1, <4>1, <4>3, <4>4
      <4>5. CASE i # n - k
        <5>1. i \in n - k + 1..n
          BY ONLY <1>1, <2>0, <4>1, <4>5, i \in n - k..n
        <5>2. f[<<i, j>>] = LoopFrom(a, b, f, i, j)
          BY <2>3, <5>1
        <5>3. h[<<i, j>>] = f[<<i, j>>]
          BY <3>1, <4>1, <4>5
        <5> QED
          BY <4>3, <5>2, <5>3
      <4> QED
        BY <4>4, <4>5
    <3> QED
      BY <2>1, <3>2
  <2>4. k # 0
    <3>1. ASSUME k = 0
          PROVE  \A i \in n - k + 1..n : FALSE
      BY ONLY <1>1, <3>1
    <3> QED
      BY <2>3, <3>1
  <2>5. k - 1 \in 0..n - 1 /\ k - 1 < k /\ n - (k - 1) = n - k + 1
    BY ONLY <1>1, <2>0, <2>4
  <2>6. ~ \E f : Behind(f, k - 1)
    BY <2>3, <2>5
  <2> QED
    BY <2>5, <2>6
<1>5. T = {}
  <2>1. T \in SUBSET Nat
    BY <1>1
  <2> HIDE DEF T
  <2> QED
    BY <1>4, <2>1, NoLeast
<1>6. PICK f : Behind(f, n - 1)
  <2>1. n - 1 \in 0..n - 1
    BY ONLY <1>1
  <2>2. n - 1 \notin T
    <3> HIDE DEF T
    <3> QED
      BY <1>5
  <2> QED
    BY <2>1, <2>2
<1>7. \A i \in 1..n : \A j \in J : f[<<i, j>>] = LoopFrom(a, b, f, i, j)
  <2>1. n - (n - 1) = 1
    BY ONLY <1>1
  <2> QED
    BY <1>6, <2>1
<1>8. \E g : g = Body(g)
  <2> DEFINE g == [at \in (1..n) \X J |-> f[at]]
  <2>1. \A i \in 1..n : \A x \in i + 1..n : \A j \in J : g[<<x, j>>] = f[<<x, j>>]
    BY <1>1
  <2>2. \A i \in 1..n : \A j \in J : LoopFrom(a, b, g, i, j) = f[<<i, j>>]
    <3> HIDE DEF g
    <3> QED
      BY <1>2, <1>7, <2>1
  <2>3. ASSUME NEW at \in (1..n) \X J
        PROVE  LoopFrom(a, b, g, at[1], at[2]) = f[at]
    <3>1. at[1] \in 1..n /\ at[2] \in J /\ at = <<at[1], at[2]>>
      OBVIOUS
    <3> HIDE DEF g
    <3> QED
      BY <2>2, <3>1
  <2>4. Body(g) = [at \in (1..n) \X J |-> f[at]]
    BY <2>3
  <2> QED
    BY <2>4
<1>9. RpmVerCmp(a, b) = IF a = b THEN 0 ELSE (CHOOSE g : g = Body(g))[<<1, 1>>]
  BY DEF RpmVerCmp, LoopFrom, n, J
<1> DEFINE c == CHOOSE g : g = Body(g)
<1>10. c = Body(c)
  BY <1>8
<1> HIDE DEF c
<1>11. \A i \in 1..n : \A j \in J : c[<<i, j>>] = LoopFrom(a, b, c, i, j)
  <2>1. \A i \in 1..n : \A j \in J : Body(c)[<<i, j>>] = LoopFrom(a, b, c, i, j)
    OBVIOUS
  <2> HIDE DEF Body
  <2> QED
    BY <1>10, <2>1
<1> QED
  BY <1>9, <1>11 DEF c, n, J

-----------------------------------------------------------------------------
(* What the loop returns.                                                  *)

\* Where the loop is between two rounds: n parts of each version are behind it,
\* and they are the same.
Between(a, i, b, j, n) ==
    PartsBefore(a, i, n) /\ PartsBefore(b, j, n) /\ SameParts(a, b, n)

\* One more part that is the same.
LEMMA OneMore ==
    ASSUME NEW a \in Seq(Nat), NEW b \in Seq(Nat), NEW n, SameParts(a, b, n),
           n + 1 <= Len(Parts(a)), n + 1 <= Len(Parts(b)),
           Parts(a)[n + 1] = Parts(b)[n + 1], ~Below(Parts(a)[n + 1], Parts(a)[n + 1])
    PROVE  SameParts(a, b, n + 1)
<1>1. n \in Nat /\ \A k \in 1..n + 1 : k \in 1..n \/ k = n + 1
  BY DEF SameParts
<1> QED
  BY <1>1 DEF SameParts

\* A version the loop is at the end of has no further part.
LEMMA AtEnd ==
    ASSUME NEW v \in Seq(Nat), NEW i, NEW n, PartsBefore(v, i, n)
    PROVE  /\ i > Len(v) => Len(Parts(v)) = n
           /\ i <= Len(v) => n < Len(Parts(v))
<1>1. /\ i \in 1..Len(v) + 1 /\ n \in Nat /\ Len(v) \in Nat
      /\ Len(Parts(v)) \in Nat
  BY PartsAre DEF PartsBefore
<1>2. FirstAlnum(v, i) \in i..Len(v) + 1
  BY <1>1, FirstAlnumIs
<1>3. ASSUME FirstAlnum(v, i) > Len(v)
      PROVE  IF i > Len(v) THEN Len(Parts(v)) = n ELSE Len(Parts(v)) = n + 1
  BY <1>3, LastPart
<1>4. ASSUME FirstAlnum(v, i) <= Len(v)
      PROVE  n + 1 <= Len(Parts(v))
  BY <1>4, NextPart
<1> DEFINE m == FirstAlnum(v, i)
<1> HIDE DEF m
<1>5. m \in i..Len(v) + 1 /\ (m > Len(v) => IF i > Len(v) THEN Len(Parts(v)) = n
                                              ELSE Len(Parts(v)) = n + 1)
      /\ (m <= Len(v) => n + 1 <= Len(Parts(v)))
  BY <1>2, <1>3, <1>4 DEF m
<1> QED
  BY ONLY <1>1, <1>5

\* The loop ends at the end of a version: whichever has characters left is newer.
LEMMA EndOfRounds ==
    ASSUME NEW a \in Seq(Nat), NEW b \in Seq(Nat), NEW i, NEW j, NEW n,
           Between(a, i, b, j, n), i > Len(a) \/ j > Len(b)
    PROVE  Decided(a, b, LeftOver(a, i, b, j))
<1>1. /\ PartsBefore(a, i, n) /\ PartsBefore(b, j, n)
      /\ SameParts(a, b, n) /\ SameParts(b, a, n)
  BY SameBothWays DEF Between
<1>2. i \in Nat /\ j \in Nat /\ Len(a) \in Nat /\ Len(b) \in Nat
  BY <1>1 DEF PartsBefore
<1>3. CASE i > Len(a) /\ j > Len(b)
  <2>1. Len(Parts(a)) = n /\ Len(Parts(b)) = n
    BY <1>1, <1>3, AtEnd
  <2>2. ~Older(a, b) /\ ~Older(b, a)
    BY <1>1, <2>1, NeitherIsOlder
  <2>3. LeftOver(a, i, b, j) = 0
    BY <1>2, <1>3 DEF LeftOver
  <2> QED
    BY <2>2, <2>3 DEF Decided
<1>4. CASE i > Len(a) /\ j <= Len(b)
  <2>1. Len(Parts(a)) = n /\ n < Len(Parts(b))
    BY <1>1, <1>4, AtEnd
  <2>2. Older(a, b) /\ ~Older(b, a)
    BY <1>1, <2>1, EndDecides
  <2>3. LeftOver(a, i, b, j) = -1
    BY <1>2, <1>4 DEF LeftOver
  <2> QED
    BY <2>2, <2>3 DEF Decided
<1>5. CASE i <= Len(a) /\ j > Len(b)
  <2>1. Len(Parts(b)) = n /\ n < Len(Parts(a))
    BY <1>1, <1>5, AtEnd
  <2>2. Older(b, a) /\ ~Older(a, b)
    BY <1>1, <2>1, EndDecides
  <2>3. LeftOver(a, i, b, j) = 1
    BY <1>2, <1>5 DEF LeftOver
  <2> QED
    BY <2>2, <2>3 DEF Decided
<1> QED
  BY <1>2, <1>3, <1>4, <1>5

\* Only separators are left of one of them.
LEMMA SeparatorsLeft ==
    ASSUME NEW a \in Seq(Nat), NEW b \in Seq(Nat), NEW i, NEW j, NEW n,
           Between(a, i, b, j, n), i <= Len(a), j <= Len(b),
           FirstAlnum(a, i) > Len(a) \/ FirstAlnum(b, j) > Len(b)
    PROVE  Decided(a, b, LeftOver(a, FirstAlnum(a, i), b, FirstAlnum(b, j)))
<1> DEFINE one == FirstAlnum(a, i)
           two == FirstAlnum(b, j)
           P == Parts(a)
           Q == Parts(b)
<1>1. /\ PartsBefore(a, i, n) /\ PartsBefore(b, j, n)
      /\ SameParts(a, b, n) /\ SameParts(b, a, n)
  BY SameBothWays DEF Between
<1>2. i \in 1..Len(a) + 1 /\ j \in 1..Len(b) + 1 /\ Len(a) \in Nat /\ Len(b) \in Nat
  BY <1>1 DEF PartsBefore
<1>3. one \in Nat /\ two \in Nat
  <2>1. one \in i..Len(a) + 1 /\ two \in j..Len(b) + 1
    BY <1>2, FirstAlnumIs
  <2> HIDE DEF one, two
  <2> QED
    BY <1>2, <2>1
<1>4. n \in Nat /\ Len(P) \in Nat /\ Len(Q) \in Nat
  BY <1>1, PartsAre DEF SameParts
<1>5. one > Len(a) => Len(P) = n + 1 /\ P[n + 1] = <<0>>
  <2>1. ~(i > Len(a))
    BY <1>2
  <2> QED
    BY <1>1, <2>1, LastPart
<1>6. two > Len(b) => Len(Q) = n + 1 /\ Q[n + 1] = <<0>>
  <2>1. ~(j > Len(b))
    BY <1>2
  <2> QED
    BY <1>1, <2>1, LastPart
<1>7. one <= Len(a) => n + 1 <= Len(P) /\ \E s : P[n + 1] = <<2, s>> \/ P[n + 1] = <<1, s>>
  BY <1>1, NextPart
<1>8. two <= Len(b) => n + 1 <= Len(Q) /\ \E s : Q[n + 1] = <<2, s>> \/ Q[n + 1] = <<1, s>>
  BY <1>1, NextPart
<1>9. ~Below(<<0>>, <<0>>)
  BY DEF Below
<1>10. ASSUME NEW p, NEW s, p = <<2, s>> \/ p = <<1, s>>
       PROVE  p # <<0>> /\ Below(<<0>>, p) /\ ~Below(p, <<0>>)
  BY <1>10 DEF Below
<1> HIDE DEF one, two, P, Q
<1>11. CASE one > Len(a) /\ two > Len(b)
  <2>1. /\ n + 1 <= Len(P) /\ n + 1 <= Len(Q)
        /\ P[n + 1] = Q[n + 1] /\ ~Below(P[n + 1], P[n + 1])
    BY <1>4, <1>5, <1>6, <1>9, <1>11
  <2>2. SameParts(a, b, n + 1)
    BY <1>1, <2>1, OneMore DEF P, Q
  <2>3. ~Older(a, b) /\ ~Older(b, a)
    BY <1>5, <1>6, <1>11, <2>2, NeitherIsOlder DEF P, Q
  <2>4. LeftOver(a, one, b, two) = 0
    BY <1>2, <1>3, <1>11 DEF LeftOver
  <2> QED
    BY <2>3, <2>4 DEF Decided, one, two
<1>12. CASE one > Len(a) /\ two <= Len(b)
  <2>1. n < Len(P) /\ n < Len(Q)
    BY <1>4, <1>5, <1>8, <1>12
  <2>2. P[n + 1] # Q[n + 1] /\ Below(P[n + 1], Q[n + 1]) /\ ~Below(Q[n + 1], P[n + 1])
    BY <1>5, <1>8, <1>10, <1>12
  <2>3. Older(a, b) /\ ~Older(b, a)
    BY <1>1, <2>1, <2>2, PartDecides DEF P, Q
  <2>4. LeftOver(a, one, b, two) = -1
    BY <1>2, <1>3, <1>12 DEF LeftOver
  <2> QED
    BY <2>3, <2>4 DEF Decided, one, two
<1>13. CASE one <= Len(a) /\ two > Len(b)
  <2>1. n < Len(P) /\ n < Len(Q)
    BY <1>4, <1>6, <1>7, <1>13
  <2>2. Q[n + 1] # P[n + 1] /\ Below(Q[n + 1], P[n + 1]) /\ ~Below(P[n + 1], Q[n + 1])
    BY <1>6, <1>7, <1>10, <1>13
  <2>3. Older(b, a) /\ ~Older(a, b)
    BY <1>1, <2>1, <2>2, PartDecides DEF P, Q
  <2>4. LeftOver(a, one, b, two) = 1
    BY <1>2, <1>3, <1>13 DEF LeftOver
  <2> QED
    BY <2>3, <2>4 DEF Decided, one, two
<1>14. one > Len(a) \/ two > Len(b)
  BY DEF one, two
<1> QED
  BY <1>2, <1>3, <1>11, <1>12, <1>13, <1>14

\* A character is of one class only.
LEMMA SameClass ==
    ASSUME NEW c, NEW d, Alnum(d), d \in PartClass(c)
    PROVE  PartClass(c) = PartClass(d)
<1>1. ~(d \in Digits /\ d \in Letters)
  BY DEF Digits, Letters
<1> QED
  BY <1>1 DEF PartClass

\* A round that finds a part on both sides.
LEMMA OneRound ==
    ASSUME NEW a \in Seq(Nat), NEW b \in Seq(Nat), NEW i, NEW j, NEW n, NEW from,
           Between(a, i, b, j, n), i <= Len(a), j <= Len(b),
           FirstAlnum(a, i) <= Len(a), FirstAlnum(b, j) <= Len(b)
    PROVE  \/ Decided(a, b, LoopFrom(a, b, from, i, j))
           \/ \E x, y : /\ x > i
                        /\ Between(a, x, b, y, n + 1)
                        /\ LoopFrom(a, b, from, i, j) = from[<<x, y>>]
<1> DEFINE one == FirstAlnum(a, i)
           two == FirstAlnum(b, j)
           P == Parts(a)
           Q == Parts(b)
           isnum == a[one] \in Digits
           class == PartClass(a[one])
           str1 == Past(a, one, class)
           str2 == Past(b, two, class)
           e == Past(b, two, PartClass(b[two]))
           left == SubSeq(a, one, str1 - 1)
           right == SubSeq(b, two, str2 - 1)
           rc == CompareParts(isnum, left, right)
<1>1. /\ PartsBefore(a, i, n) /\ PartsBefore(b, j, n)
      /\ SameParts(a, b, n) /\ SameParts(b, a, n)
  BY SameBothWays DEF Between
<1>2. i \in 1..Len(a) + 1 /\ j \in 1..Len(b) + 1 /\ Len(a) \in Nat /\ Len(b) \in Nat
  BY <1>1 DEF PartsBefore
<1>3. n \in Nat /\ Len(P) \in Nat /\ Len(Q) \in Nat
  BY <1>1, PartsAre DEF SameParts
<1>4. /\ PartsBefore(a, str1, n + 1) /\ i < str1 /\ one < str1 /\ one \in 1..Len(a)
      /\ n + 1 <= Len(P)
      /\ P[n + 1] = IF isnum THEN <<2, NumberOf(left)>> ELSE <<1, left>>
      /\ \A k \in one..str1 - 1 : a[k] \in class
  BY <1>1, NextPart
<1>5. /\ PartsBefore(b, e, n + 1) /\ two < e /\ two \in 1..Len(b)
      /\ n + 1 <= Len(Q)
      /\ Q[n + 1] = IF b[two] \in Digits THEN <<2, NumberOf(SubSeq(b, two, e - 1))>>
                    ELSE <<1, SubSeq(b, two, e - 1)>>
      /\ \A k \in two..e - 1 : b[k] \in PartClass(b[two])
  BY <1>1, NextPart
<1>6. Alnum(a[one]) /\ Alnum(b[two])
  BY <1>2, FirstAlnumIs
<1>7. n < Len(P) /\ n < Len(Q)
  BY <1>3, <1>4, <1>5
<1>8. LoopFrom(a, b, from, i, j) =
          IF str2 = two THEN IF isnum THEN 1 ELSE -1
          ELSE IF rc # 0 THEN rc ELSE from[<<str1, str2>>]
  <2>1. ~(i > Len(a) \/ j > Len(b)) /\ ~(one > Len(a) \/ two > Len(b))
    <3>1. ~(i > Len(a) \/ j > Len(b))
      BY <1>2
    <3> HIDE DEF one, two
    <3>2. ~(one > Len(a) \/ two > Len(b))
      BY <1>4, <1>5
    <3> QED
      BY <3>1, <3>2
  <2> QED
    BY <2>1 DEF LoopFrom, CompareParts, PartClass
<1>9. ASSUME str2 = two
      PROVE  Decided(a, b, LoopFrom(a, b, from, i, j))
  <2>1. b[two] \notin class
    <3>1. two \in 1..Len(b) + 1 /\ two <= Len(b)
      BY <1>5
    <3> QED
      BY <1>9, <3>1, PastIs
  <2>2. b[two] \in Digits <=> ~isnum
    BY <1>6, <2>1 DEF PartClass, Alnum, Digits, Letters
  <2>3. ASSUME NEW s, NEW t
        PROVE  /\ <<1, s>> # <<2, t>>
               /\ Below(<<1, s>>, <<2, t>>) /\ ~Below(<<2, t>>, <<1, s>>)
    BY DEF Below
  <2> HIDE DEF P, Q, isnum, left, e, one, two
  <2>4. CASE isnum
    <3>1. Q[n + 1] # P[n + 1] /\ Below(Q[n + 1], P[n + 1]) /\ ~Below(P[n + 1], Q[n + 1])
      BY <1>4, <1>5, <2>2, <2>3, <2>4
    <3>2. Older(b, a) /\ ~Older(a, b)
      BY <1>1, <1>7, <3>1, PartDecides DEF P, Q
    <3> QED
      BY <1>8, <1>9, <2>4, <3>2 DEF Decided
  <2>5. CASE ~isnum
    <3>1. P[n + 1] # Q[n + 1] /\ Below(P[n + 1], Q[n + 1]) /\ ~Below(Q[n + 1], P[n + 1])
      BY <1>4, <1>5, <2>2, <2>3, <2>5
    <3>2. Older(a, b) /\ ~Older(b, a)
      BY <1>1, <1>7, <3>1, PartDecides DEF P, Q
    <3> QED
      BY <1>8, <1>9, <2>5, <3>2 DEF Decided
  <2> QED
    BY <2>4, <2>5
<1>10. ASSUME str2 # two
       PROVE  class = PartClass(b[two])
  <2>1. two \in 1..Len(b) + 1
    BY <1>5
  <2>2. str2 \in two..Len(b) + 1 /\ \A k \in two..str2 - 1 : b[k] \in class
    BY <2>1, PastIs
  <2> HIDE DEF str2
  <2>3. two \in two..str2 - 1
    BY <1>2, <1>10, <2>1, <2>2
  <2>4. b[two] \in class
    BY <2>2, <2>3
  <2> QED
    BY <1>6, <2>4, SameClass
<1>11. ASSUME str2 # two
       PROVE  /\ isnum \in BOOLEAN
              /\ isnum <=> b[two] \in Digits
              /\ e = str2
              /\ P[n + 1] = PartOf(isnum, left) /\ Q[n + 1] = PartOf(isnum, right)
              /\ left \in Seq(class) /\ right \in Seq(class)
  <2>1. e = str2
    BY <1>10, <1>11
  <2>2. isnum <=> b[two] \in Digits
    BY <1>6, <1>10, <1>11 DEF PartClass, Alnum, Digits, Letters
  <2>3. P[n + 1] = PartOf(isnum, left) /\ Q[n + 1] = PartOf(isnum, right)
    BY <1>4, <1>5, <2>1, <2>2 DEF PartOf
  <2>4. /\ one \in 1..Len(a) /\ str1 \in 1..Len(a) + 1 /\ one < str1
        /\ two \in 1..Len(b) /\ e \in 1..Len(b) + 1 /\ two < e
    BY <1>4, <1>5 DEF PartsBefore
  <2>5. left \in Seq(class)
    <3> HIDE DEF one, str1, class
    <3> QED
      BY <1>4, <2>4
  <2>6. /\ SubSeq(b, two, e - 1) \in Seq(class)
    <3>1. \A k \in two..e - 1 : b[k] \in class
      BY <1>5, <1>10, <1>11
    <3> HIDE DEF two, e, class
    <3> QED
      BY <2>4, <3>1
  <2> QED
    BY <2>1, <2>2, <2>3, <2>5, <2>6
<1>12. ASSUME str2 # two
       PROVE  \/ rc = 0 /\ P[n + 1] = Q[n + 1] /\ ~Below(P[n + 1], P[n + 1])
              \/ rc = -1 /\ P[n + 1] # Q[n + 1] /\ Below(P[n + 1], Q[n + 1]) /\ ~Below(Q[n + 1], P[n + 1])
              \/ rc = 1 /\ P[n + 1] # Q[n + 1] /\ Below(Q[n + 1], P[n + 1]) /\ ~Below(P[n + 1], Q[n + 1])
  <2>1. IF isnum THEN left \in Seq(Digits) /\ right \in Seq(Digits)
        ELSE left \in Seq(Letters) /\ right \in Seq(Letters)
    BY <1>11, <1>12 DEF PartClass
  <2> HIDE DEF P, Q, isnum, left, right, str2
  <2>2. isnum \in BOOLEAN /\ P[n + 1] = PartOf(isnum, left) /\ Q[n + 1] = PartOf(isnum, right)
    BY <1>11, <1>12
  <2>3. rc = CompareParts(isnum, left, right)
    OBVIOUS
  <2> HIDE DEF rc
  <2> QED
    BY <2>1, <2>2, <2>3, BelowIs
<1>13. ASSUME str2 # two, rc # 0
       PROVE  Decided(a, b, LoopFrom(a, b, from, i, j))
  <2>1. LoopFrom(a, b, from, i, j) = rc
    BY <1>8, <1>13
  <2> HIDE DEF rc, str2, two
  <2>2. CASE rc = -1
    <3>1. Older(a, b) /\ ~Older(b, a)
      BY <1>1, <1>7, <1>12, <1>13, <2>2, PartDecides DEF P, Q
    <3> QED
      BY <2>1, <2>2, <3>1 DEF Decided
  <2>3. CASE rc = 1
    <3>1. Older(b, a) /\ ~Older(a, b)
      BY <1>1, <1>7, <1>12, <1>13, <2>3, PartDecides DEF P, Q
    <3> QED
      BY <2>1, <2>3, <3>1 DEF Decided
  <2> QED
    BY <1>12, <1>13, <2>2, <2>3
<1>14. ASSUME str2 # two, rc = 0
       PROVE  /\ str1 > i
              /\ Between(a, str1, b, str2, n + 1)
              /\ LoopFrom(a, b, from, i, j) = from[<<str1, str2>>]
  <2>1. LoopFrom(a, b, from, i, j) = from[<<str1, str2>>]
    BY <1>8, <1>14
  <2>2. PartsBefore(a, str1, n + 1) /\ PartsBefore(b, str2, n + 1)
    BY <1>4, <1>5, <1>11, <1>14
  <2>3. str1 \in Nat /\ str1 > i
    BY <1>2, <1>4, <2>2 DEF PartsBefore
  <2> HIDE DEF rc, str2, two
  <2>4. P[n + 1] = Q[n + 1] /\ ~Below(P[n + 1], P[n + 1])
    BY <1>12, <1>14
  <2>5. SameParts(a, b, n + 1)
    BY <1>1, <1>4, <1>5, <2>4, OneMore
  <2> QED
    BY <2>1, <2>2, <2>3, <2>5 DEF Between
<1> HIDE DEF str1, str2, rc, two
<1> QED
  BY <1>9, <1>13, <1>14

\* What the loop returns is what is to be said of the two versions: of the rounds
\* that are wrong none would be the nearest to the end of the first version.
LEMMA LoopDecides ==
    ASSUME NEW a \in Seq(Nat), NEW b \in Seq(Nat), NEW from,
           \A i \in 1..Len(a) + 1 : \A j \in 1..Len(b) + 1 :
               from[<<i, j>>] = LoopFrom(a, b, from, i, j)
    PROVE  Decided(a, b, from[<<1, 1>>])
<1> DEFINE Wrong(k, i, j, n) ==
               /\ Between(a, i, b, j, n)
               /\ k = Len(a) + 1 - i
               /\ ~Decided(a, b, from[<<i, j>>])
           T == {k \in Nat : \E i, j, n : Wrong(k, i, j, n)}
<1>1. ASSUME NEW k \in T
      PROVE  \E m \in T : m < k
  <2>1. PICK i, j, n : Wrong(k, i, j, n)
    OBVIOUS
  <2>2. /\ i \in 1..Len(a) + 1 /\ j \in 1..Len(b) + 1
        /\ Len(a) \in Nat /\ Len(b) \in Nat
    BY <2>1 DEF Between, PartsBefore
  <2>3. ~Decided(a, b, LoopFrom(a, b, from, i, j))
    BY <2>1, <2>2
  <2>4. i <= Len(a) /\ j <= Len(b)
    <3>1. ~(i > Len(a) \/ j > Len(b))
      <4>1. ASSUME i > Len(a) \/ j > Len(b)
            PROVE  LoopFrom(a, b, from, i, j) = LeftOver(a, i, b, j)
        BY <4>1 DEF LoopFrom
      <4> QED
        BY <2>1, <2>3, <4>1, EndOfRounds
    <3> QED
      BY <2>2, <3>1
  <2>5. FirstAlnum(a, i) <= Len(a) /\ FirstAlnum(b, j) <= Len(b)
    <3> DEFINE one == FirstAlnum(a, i)
               two == FirstAlnum(b, j)
    <3>1. ~(one > Len(a) \/ two > Len(b))
      <4>1. ASSUME one > Len(a) \/ two > Len(b)
            PROVE  LoopFrom(a, b, from, i, j) = LeftOver(a, one, b, two)
        <5>1. ~(i > Len(a) \/ j > Len(b))
          BY <2>2, <2>4
        <5> QED
          BY <4>1, <5>1 DEF LoopFrom
      <4> QED
        BY <2>1, <2>3, <2>4, <4>1, SeparatorsLeft
    <3>2. one \in i..Len(a) + 1 /\ two \in j..Len(b) + 1
      BY <2>2, FirstAlnumIs
    <3> HIDE DEF one, two
    <3>3. one <= Len(a) /\ two <= Len(b)
      BY <2>2, <3>1, <3>2
    <3> QED
      BY <3>3 DEF one, two
  <2>6. PICK x, y : /\ x > i
                    /\ Between(a, x, b, y, n + 1)
                    /\ LoopFrom(a, b, from, i, j) = from[<<x, y>>]
    BY <2>1, <2>3, <2>4, <2>5, OneRound
  <2>7. x \in 1..Len(a) + 1
    BY <2>6 DEF Between, PartsBefore
  <2>8. Wrong(Len(a) + 1 - x, x, y, n + 1)
    BY <2>3, <2>6
  <2>9. Len(a) + 1 - x \in Nat /\ Len(a) + 1 - x < k
    <3>1. k = Len(a) + 1 - i
      BY <2>1
    <3> QED
      BY ONLY <2>2, <2>6, <2>7, <3>1
  <2>10. Len(a) + 1 - x \in T
    <3> HIDE DEF Wrong
    <3> QED
      BY <2>8, <2>9
  <2> QED
    BY <2>9, <2>10
<1>2. T = {}
  <2>1. T \in SUBSET Nat
    OBVIOUS
  <2> HIDE DEF T
  <2> QED
    BY <1>1, <2>1, NoLeast
<1>3. Between(a, 1, b, 1, 0)
  <2>1. SameParts(a, b, 0)
    BY PartsAre DEF SameParts
  <2> QED
    BY <2>1, NoPartsBefore DEF Between
<1>4. Len(a) + 1 - 1 \in Nat
  OBVIOUS
<1>5. ~Wrong(Len(a) + 1 - 1, 1, 1, 0)
  <2>1. Len(a) + 1 - 1 \notin T
    <3> HIDE DEF T
    <3> QED
      BY <1>2
  <2> HIDE DEF Wrong
  <2> QED
    BY <1>4, <2>1
<1> QED
  BY <1>3, <1>5

\* rpmvercmp() computes the order of the versions, for every two strings: 1 if
\* the first one is newer, -1 if it is older, 0 if it is neither (rpmvercmp.c).
THEOREM VersionsAreCompared ==
    ASSUME NEW a \in Seq(Nat), NEW b \in Seq(Nat)
    PROVE  RpmVerCmp(a, b) = VersionOrder(a, b)
<1>1. PICK from :
          /\ RpmVerCmp(a, b) = IF a = b THEN 0 ELSE from[<<1, 1>>]
          /\ \A i \in 1..Len(a) + 1 : \A j \in 1..Len(b) + 1 :
                 from[<<i, j>>] = LoopFrom(a, b, from, i, j)
  BY LoopIs
<1>2. Decided(a, b, from[<<1, 1>>])
  BY <1>1, LoopDecides
<1>3. CASE a = b
  <2>1. ~Older(a, b) /\ ~Older(b, a)
    BY <1>2, <1>3 DEF Decided
  <2> QED
    BY <1>1, <1>3, <2>1 DEF VersionOrder
<1>4. CASE a # b
  <2>1. RpmVerCmp(a, b) = from[<<1, 1>>]
    BY <1>1, <1>4
  <2> QED
    BY <1>2, <2>1 DEF Decided, VersionOrder
<1> QED
  BY <1>3, <1>4

-----------------------------------------------------------------------------
(* The inductive invariant: what each detector has found out.              *)

HasDebianVersion(i) == i.name \in DebianVersionFile /\ i.usual
HasRedHatRelease(i) == i.name \in RedHatReleaseFile /\ i.usual

\* What the machine i with the file l says to the detector that answers.
LsbSays(i, l, t, d, r) ==
    /\ l # NoFile
    /\ t = IF d = "Ubuntu" THEN "ubuntu" ELSE "unknown"
    /\ d = ValueOf(l, "DISTRIB_ID", "")
    /\ r = ValueOf(l, "DISTRIB_RELEASE", <<>>)

DebianSays(i, l, t, d, r) ==
    /\ l = NoFile /\ HasDebianVersion(i)
    /\ t = "debian" /\ d = "Debian" /\ r = i.version

SuseSays(i, l, t, d, r) ==
    /\ l = NoFile /\ ~HasDebianVersion(i) /\ i.name \in SuseReleaseFile
    /\ t = "suse"
    /\ d = IF i.usual THEN i.name ELSE Title
    /\ r = IF i.usual THEN i.version ELSE <<>>

RedHatSays(i, l, t, d, r) ==
    /\ l = NoFile /\ ~HasDebianVersion(i) /\ i.name \notin SuseReleaseFile
    /\ HasRedHatRelease(i)
    /\ t = "redhat" /\ d = i.name /\ r = i.version

ArchSays(i, l, t, d, r) ==
    l = NoFile /\ i.name \in ArchReleaseFile /\ t = "arch" /\ d = "ARCH Linux"

Says(i, l, t, d, r) ==
    \/ LsbSays(i, l, t, d, r) \/ DebianSays(i, l, t, d, r)
    \/ SuseSays(i, l, t, d, r) \/ RedHatSays(i, l, t, d, r)
    \/ ArchSays(i, l, t, d, r)

\* No detector before that one had an answer.
NoneBefore(i, l, where) ==
    /\ l = NoFile
    /\ where # "Debian" => ~HasDebianVersion(i)
    /\ where \notin {"Debian", "SUSE"} => i.name \notin SuseReleaseFile
    /\ where \notin {"Debian", "SUSE", "RedHat"} => ~HasRedHatRelease(i)
    /\ where \notin {"Debian", "SUSE", "RedHat", "Arch"} =>
           i.name \notin ArchReleaseFile

\* What is installed, and its /etc/lsb-release.
Machine(i, l) ==
    /\ i \in Installed
    /\ \E kind \in LsbKinds :
           /\ i.name = "Ubuntu" => kind \in {"full", "blank"}
           /\ l = LsbFile(kind, i.name, i.version)

\* At the check there is an answer; it has passed with a version that is on
\* the whitelist, and failed with one that is not, or without an answer.
DetectInv ==
    /\ Machine(installed, lsb)
    /\ pc \in {"Debian", "SUSE", "RedHat", "Arch"} =>
           NoneBefore(installed, lsb, pc)
    /\ pc = "checkEnv" => Says(installed, lsb, type, dist, release)
    /\ pc = "suitable" =>
           /\ Says(installed, lsb, type, dist, release)
           /\ \E v \in DetectedVersions : OnWhitelist(type, dist, v)
    /\ pc = "refused" =>
           \/ NoneBefore(installed, lsb, pc)
           \/ /\ Says(installed, lsb, type, dist, release)
              /\ \E v \in DetectedVersions : ~OnWhitelist(type, dist, v)

\* The invariant is inductive.
LEMMA InvHolds ==
    Spec => []DetectInv
<1>1. Init => DetectInv
  BY DEF Init, DetectInv, Machine
<1>2. DetectInv /\ [Next]_vars => DetectInv'
  <2> SUFFICES ASSUME DetectInv, [Next]_vars
               PROVE  DetectInv'
    OBVIOUS
  <2>1. ASSUME UNCHANGED <<installed, lsb>>
        PROVE  Machine(installed, lsb)'
    BY <2>1 DEF DetectInv
  <2>2. CASE LsbDetects
    <3>1. Says(installed, lsb, type, dist, release)'
      BY <2>2 DEF LsbDetects, Answers, Set, Says, LsbSays
    <3> QED
      BY <2>1, <2>2, <3>1 DEF LsbDetects, Answers, DetectInv
  <2>3. CASE LsbCrashes
    BY <2>1, <2>3 DEF LsbCrashes, Passes, DetectInv
  <2>4. CASE LsbPasses
    BY <2>1, <2>4 DEF LsbPasses, Passes, DetectInv, NoneBefore
  <2>5. CASE DebianDetects
    <3>1. Says(installed, lsb, type, dist, release)'
      BY <2>5 DEF DebianDetects, Answers, Set, Says, DebianSays, DetectInv,
                  NoneBefore, DebianVersion, HasDebianVersion
    <3> QED
      BY <2>1, <2>5, <3>1 DEF DebianDetects, Answers, DetectInv
  <2>6. CASE DebianPasses
    BY <2>1, <2>6 DEF DebianPasses, Passes, DetectInv, NoneBefore,
                      DebianVersion, HasDebianVersion
  <2>7. CASE SuseDetects
    <3>1. Says(installed, lsb, type, dist, release)'
      BY <2>7 DEF SuseDetects, Answers, Set, Says, SuseSays, DetectInv,
                  NoneBefore
    <3> QED
      BY <2>1, <2>7, <3>1 DEF SuseDetects, Answers, DetectInv
  <2>8. CASE SusePasses
    BY <2>1, <2>8 DEF SusePasses, Passes, DetectInv, NoneBefore
  <2>9. CASE RedHatDetects
    <3>1. Says(installed, lsb, type, dist, release)'
      BY <2>9 DEF RedHatDetects, Answers, Set, Says, RedHatSays, DetectInv,
                  NoneBefore, RedHatRelease, HasRedHatRelease
    <3> QED
      BY <2>1, <2>9, <3>1 DEF RedHatDetects, Answers, DetectInv
  <2>10. CASE RedHatPasses
    BY <2>1, <2>10 DEF RedHatPasses, Passes, DetectInv, NoneBefore,
                       RedHatRelease, HasRedHatRelease
  <2>11. CASE ArchDetects
    <3>1. Says(installed, lsb, type, dist, release)'
      BY <2>11 DEF ArchDetects, Answers, Set, Says, ArchSays, DetectInv,
                   NoneBefore
    <3> QED
      BY <2>1, <2>11, <3>1 DEF ArchDetects, Answers, DetectInv
  <2>12. CASE ArchPasses
    <3>1. pc' \in {"printed", "refused"} /\ NoneBefore(installed, lsb, pc')
      BY <2>12 DEF ArchPasses, Passes, DetectInv, NoneBefore
    <3> QED
      BY <2>1, <2>12, <3>1 DEF ArchPasses, Passes, DetectInv
  <2>13. CASE CheckWhitelist
    <3>1. /\ UNCHANGED <<installed, lsb, shared, type, dist, release>>
          /\ Says(installed, lsb, type, dist, release)
      BY <2>13 DEF CheckWhitelist, DetectInv
    <3>2. PICK v \in DetectedVersions :
              pc' = IF OnWhitelist(type, dist, v) THEN "suitable" ELSE "refused"
      BY <2>13 DEF CheckWhitelist, Detected
    <3>3. DetectedVersions' = DetectedVersions
      BY <3>1 DEF DetectedVersions, Detected
    <3> QED
      BY <2>1, <3>1, <3>2, <3>3 DEF DetectInv
  <2>14. CASE PrintLinuxDistribution
    BY <2>1, <2>14 DEF PrintLinuxDistribution, Passes, DetectInv
  <2>15. CASE UNCHANGED vars
    BY <2>15 DEF vars, DetectInv, DetectedVersions, Detected
  <2> QED
    BY <2>2, <2>3, <2>4, <2>5, <2>6, <2>7, <2>8, <2>9, <2>10, <2>11, <2>12,
       <2>13, <2>14, <2>15 DEF Next, Checked
<1> QED
  BY <1>1, <1>2, PTL DEF Spec

-----------------------------------------------------------------------------
(* The properties.                                                         *)

\* The greatest member of a set of one number.
LEMMA MaxOfOne ==
    ASSUME NEW m \in Nat
    PROVE  Max({m}) = m
BY DEF Max

\* The name that LsbDetects reads, if there is one.
LEMMA LsbReadsName ==
    \A name \in Distributions : \A version \in Versions :
    \A kind \in LsbKinds \ {"none"} :
        ValueOf(LsbFile(kind, name, version), "DISTRIB_ID", "") =
            IF kind = "versionOnly" THEN "" ELSE name
<1> TAKE name \in Distributions
<1> TAKE version \in Versions
<1> DEFINE full  == LsbFile("full", name, version)
           blank == LsbFile("blank", name, version)
           only  == LsbFile("versionOnly", name, version)
<1>1. /\ full = <<[key |-> "DISTRIB_ID", value |-> name],
                  [key |-> "DISTRIB_RELEASE", value |-> version]>>
      /\ blank = <<[key |-> "DISTRIB_ID", value |-> name],
                   [key |-> "Blank", value |-> version],
                   [key |-> "DISTRIB_RELEASE", value |-> version]>>
      /\ only = <<[key |-> "LSB_VERSION", value |-> version]>>
  BY DEF LsbFile
<1> HIDE DEF full, blank, only
<1>2. /\ DOMAIN full = {1, 2} /\ DOMAIN blank = {1, 2, 3} /\ DOMAIN only = {1}
      /\ full[1].key = "DISTRIB_ID" /\ full[1].value = name
      /\ full[2].key = "DISTRIB_RELEASE" /\ full[2].value = version
      /\ blank[1].key = "DISTRIB_ID" /\ blank[1].value = name
      /\ blank[2].key = "Blank"
      /\ blank[3].key = "DISTRIB_RELEASE" /\ blank[3].value = version
      /\ only[1].key = "LSB_VERSION"
  BY <1>1
<1>3. /\ {i \in DOMAIN full : full[i].key = "DISTRIB_ID"} = {1}
      /\ {i \in DOMAIN blank : blank[i].key = "DISTRIB_ID"} = {1}
      /\ {i \in DOMAIN only : only[i].key = "DISTRIB_ID"} = {}
  BY <1>2
<1>4. Max({1}) = 1 /\ Max({2}) = 2 /\ Max({3}) = 3
  BY MaxOfOne
<1>5. /\ ValueOf(full, "DISTRIB_ID", "") = name
      /\ ValueOf(blank, "DISTRIB_ID", "") = name
      /\ ValueOf(only, "DISTRIB_ID", "") = ""
  BY <1>2, <1>3, <1>4 DEF ValueOf
<1> QED
  BY <1>5 DEF full, blank, only, LsbKinds

\* The version that LsbDetects reads where there is a name.
LEMMA LsbReadsVersion ==
    \A name \in Distributions : \A version \in Versions :
    \A kind \in LsbKinds \ {"none"} :
        kind # "versionOnly" =>
            ValueOf(LsbFile(kind, name, version), "DISTRIB_RELEASE", <<>>) = version
<1> TAKE name \in Distributions
<1> TAKE version \in Versions
<1> DEFINE full  == LsbFile("full", name, version)
           blank == LsbFile("blank", name, version)
           only  == LsbFile("versionOnly", name, version)
<1>1. /\ full = <<[key |-> "DISTRIB_ID", value |-> name],
                  [key |-> "DISTRIB_RELEASE", value |-> version]>>
      /\ blank = <<[key |-> "DISTRIB_ID", value |-> name],
                   [key |-> "Blank", value |-> version],
                   [key |-> "DISTRIB_RELEASE", value |-> version]>>
      /\ only = <<[key |-> "LSB_VERSION", value |-> version]>>
  BY DEF LsbFile
<1> HIDE DEF full, blank, only
<1>2. /\ DOMAIN full = {1, 2} /\ DOMAIN blank = {1, 2, 3} /\ DOMAIN only = {1}
      /\ full[1].key = "DISTRIB_ID" /\ full[1].value = name
      /\ full[2].key = "DISTRIB_RELEASE" /\ full[2].value = version
      /\ blank[1].key = "DISTRIB_ID" /\ blank[1].value = name
      /\ blank[2].key = "Blank"
      /\ blank[3].key = "DISTRIB_RELEASE" /\ blank[3].value = version
      /\ only[1].key = "LSB_VERSION"
  BY <1>1
<1>3. /\ {i \in DOMAIN full : full[i].key = "DISTRIB_RELEASE"} = {2}
      /\ {i \in DOMAIN blank : blank[i].key = "DISTRIB_RELEASE"} = {3}
  BY <1>2
<1>4. Max({1}) = 1 /\ Max({2}) = 2 /\ Max({3}) = 3
  BY MaxOfOne
<1>5. /\ ValueOf(full, "DISTRIB_RELEASE", <<>>) = version
      /\ ValueOf(blank, "DISTRIB_RELEASE", <<>>) = version
  BY <1>2, <1>3, <1>4 DEF ValueOf
<1> QED
  BY <1>5 DEF full, blank, LsbKinds

\* The distributions on the whitelist.
LEMMA Whitelisted ==
    /\ DOMAIN FirstVersion = {"Ubuntu", "openSUSE", "Debian", "Fedora", "CentOS",
                              "Red Hat Enterprise Linux Server"}
    /\ FirstVersion["Ubuntu"] = V9_04
    /\ FirstVersion["openSUSE"] = V11_0
    /\ FirstVersion["Debian"] = V5_0
    /\ FirstVersion["Fedora"] = V11
    /\ FirstVersion["CentOS"] = V5_3
    /\ FirstVersion["Red Hat Enterprise Linux Server"] = V5_3
BY DEF FirstVersion, RedHatEnterprise

\* The versions there are, and the ones on the whitelist, are strings.
LEMMA VersionsAre ==
    /\ Versions \subseteq Seq(Nat)
    /\ \A name \in DOMAIN FirstVersion : FirstVersion[name] \in Seq(Nat)
<1>1. /\ V11 \in Seq(Nat) /\ V11_0 \in Seq(Nat) /\ V9_04 \in Seq(Nat)
      /\ V5_3 \in Seq(Nat) /\ V5_0 \in Seq(Nat)
  BY DEF V11, V11_0, V9_04, V5_3, V5_0
<1> QED
  BY <1>1, Whitelisted, LinuxDistAssumption

\* A detector that answers "Debian" has read a version there is.
LEMMA DebianHasVersion ==
    ASSUME NEW i, NEW l, Machine(i, l), NEW t, NEW r, Says(i, l, t, "Debian", r)
    PROVE  r \in Versions
<1>1. PICK kind \in LsbKinds : l = LsbFile(kind, i.name, i.version)
  BY DEF Machine
<1>2. i.name \in Distributions /\ i.version \in Versions
  BY DEF Machine, Installed
<1>3. CASE LsbSays(i, l, t, "Debian", r)
  <2>1. /\ kind \in LsbKinds \ {"none"}
        /\ "Debian" = ValueOf(LsbFile(kind, i.name, i.version), "DISTRIB_ID", "")
        /\ r = ValueOf(LsbFile(kind, i.name, i.version), "DISTRIB_RELEASE", <<>>)
    BY <1>1, <1>3 DEF LsbSays, LsbFile
  <2>2. kind # "versionOnly"
    BY <1>2, <2>1, LsbReadsName
  <2> QED
    BY <1>2, <2>1, <2>2, LsbReadsVersion
<1>4. CASE SuseSays(i, l, t, "Debian", r)
  BY <1>2, <1>4 DEF SuseSays, SuseReleaseFile, Title
<1> QED
  BY <1>2, <1>3, <1>4 DEF Says, DebianSays, RedHatSays, ArchSays

\* rpmvercmp() orders the installed version and every other one as versions are
\* ordered (rpmvercmp.c).
THEOREM InstalledVersionIsCompared ==
    Spec => []VersionOrderIsRight
<1>1. ASSUME DetectInv, pc = "checkEnv", dist = "Debian", NEW version \in Versions
      PROVE  RpmVerCmp(release, version) = VersionOrder(release, version)
  <2>1. release \in Versions
    BY <1>1, DebianHasVersion DEF DetectInv
  <2> QED
    BY <2>1, VersionsAre, VersionsAreCompared
<1>2. DetectInv => VersionOrderIsRight
  BY <1>1 DEF VersionOrderIsRight
<1> QED
  BY InvHolds, <1>2, PTL

\* The answer is the name and the version of what is installed, the ones of what
\* it is made of, or no name.
LooksLikeIt(i, l, t, d, r) ==
    \/ /\ t = "arch" /\ l = NoFile
       /\ i.name \in {"ARCH Linux"} \union ArchDerivatives
    \/ /\ t # "arch" /\ d = i.name /\ r = i.version
       /\ i.name = "ARCH Linux" => l # NoFile
       /\ l = NoFile => i.name \notin DebianDerivatives \union ArchDerivatives
    \/ /\ t # "arch" /\ d = "Debian" /\ r = i.version
       /\ l = NoFile /\ i.name \in DebianDerivatives
    \/ /\ t # "arch" /\ d = ""
       /\ l # NoFile /\ ValueOf(l, "DISTRIB_ID", "") = ""
    \/ /\ t # "arch" /\ d = Title
       /\ l = NoFile /\ ~i.usual /\ i.name \in SuseReleaseFile

\* Every detector answers so.
LEMMA SaysWhatItLooksLike ==
    ASSUME NEW i, NEW l, Machine(i, l), NEW t, NEW d, NEW r, Says(i, l, t, d, r)
    PROVE  LooksLikeIt(i, l, t, d, r)
<1>1. PICK kind \in LsbKinds : /\ i.name = "Ubuntu" => kind \in {"full", "blank"}
                               /\ l = LsbFile(kind, i.name, i.version)
  BY DEF Machine
<1>2. i.name \in Distributions /\ i.version \in Versions
  BY DEF Machine, Installed
<1>3. l = NoFile => i.name # "Ubuntu"
  BY <1>1, <1>2, LinuxDistAssumption DEF LsbKinds
<1>4. CASE LsbSays(i, l, t, d, r)
  <2>1. /\ l # NoFile /\ t # "arch" /\ d = ValueOf(l, "DISTRIB_ID", "")
        /\ d = ValueOf(LsbFile(kind, i.name, i.version), "DISTRIB_ID", "")
        /\ r = ValueOf(LsbFile(kind, i.name, i.version), "DISTRIB_RELEASE", <<>>)
    BY <1>1, <1>4 DEF LsbSays
  <2>2. kind # "none"
    BY <1>1, <2>1 DEF LsbFile
  <2>3. kind \in LsbKinds \ {"none"}
    BY <2>2
  <2>4. ValueOf(LsbFile(kind, i.name, i.version), "DISTRIB_ID", "") =
            IF kind = "versionOnly" THEN "" ELSE i.name
    BY <1>2, <2>3, LsbReadsName
  <2>5. kind # "versionOnly" =>
            ValueOf(LsbFile(kind, i.name, i.version), "DISTRIB_RELEASE", <<>>) = i.version
    BY <1>2, <2>3, LsbReadsVersion
  <2>6. CASE kind = "versionOnly"
    BY <2>1, <2>4, <2>6 DEF LooksLikeIt
  <2>7. CASE kind # "versionOnly"
    BY <2>1, <2>4, <2>5, <2>7 DEF LooksLikeIt
  <2> QED
    BY <2>6, <2>7
<1>5. CASE DebianSays(i, l, t, d, r)
  BY <1>3, <1>5 DEF DebianSays, HasDebianVersion, DebianVersionFile, DebianDerivatives,
     ArchDerivatives, LooksLikeIt
<1>6. CASE SuseSays(i, l, t, d, r)
  BY <1>6 DEF SuseSays, SuseReleaseFile, DebianDerivatives, ArchDerivatives,
     LooksLikeIt
<1>7. CASE RedHatSays(i, l, t, d, r)
  BY <1>7 DEF RedHatSays, HasRedHatRelease, RedHatReleaseFile, DebianDerivatives,
     ArchDerivatives, LooksLikeIt
<1>8. CASE ArchSays(i, l, t, d, r)
  BY <1>8 DEF ArchSays, ArchReleaseFile, LooksLikeIt
<1> QED
  BY <1>4, <1>5, <1>6, <1>7, <1>8 DEF Says

\* Without an answer there is no /etc/lsb-release, and the distribution has no
\* release file, or one of an unusual form.
LEMMA NobodyKnows ==
    ASSUME NEW i, NEW l, Machine(i, l), NoneBefore(i, l, "refused")
    PROVE  /\ l = NoFile /\ i.name # "ARCH Linux"
           /\ i.usual => i.name = "Gentoo"
<1>1. PICK kind \in LsbKinds : /\ i.name = "Ubuntu" => kind \in {"full", "blank"}
                               /\ l = LsbFile(kind, i.name, i.version)
  BY DEF Machine
<1>2. i.name \in Distributions /\ i.version \in Versions
  BY DEF Machine, Installed
<1>3. l = NoFile => i.name # "Ubuntu"
  BY <1>1, <1>2, LinuxDistAssumption DEF LsbKinds
<1> QED
  BY <1>2, <1>3 DEF NoneBefore, HasDebianVersion, HasRedHatRelease, Distributions,
     DebianVersionFile, SuseReleaseFile, RedHatReleaseFile, ArchReleaseFile,
     DebianDerivatives, ArchDerivatives

\* The whitelist of the code is the one of the manual page and NEWS.
LEMMA WhitelistIs ==
    ASSUME NEW t, NEW name, NEW version \in Versions, t # "arch"
    PROVE  OnWhitelist(t, name, version) <=>
               /\ name \in DOMAIN FirstVersion
               /\ VersionOrder(version, FirstVersion[name]) >= 0
<1>1. \A n \in DOMAIN FirstVersion :
          RpmVerCmp(version, FirstVersion[n]) = VersionOrder(version, FirstVersion[n])
  BY VersionsAre, VersionsAreCompared
<1>2. OnWhitelist(t, name, version) <=>
          /\ name \in DOMAIN FirstVersion
          /\ RpmVerCmp(version, FirstVersion[name]) >= 0
  BY Whitelisted DEF OnWhitelist, RedHatEnterprise
<1> QED
  BY <1>1, <1>2

\* A machine passes only if what it looks like is on the whitelist, in the version
\* it has, or in any version where that is read from freed memory
\* (getDetector(), checkEnv()).
THEOREM PassesOnlyIfListed ==
    Spec => []OnlyListedPass
<1>1. ASSUME DetectInv, pc = "suitable"
      PROVE  /\ LooksLike \in DOMAIN FirstVersion \union {"ARCH Linux"}
             /\ shared => ListedAs(LooksLike)
  <2>1. Machine(installed, lsb) /\ installed.version \in Versions
    BY <1>1 DEF DetectInv, Machine, Installed
  <2>2. PICK v \in DetectedVersions : OnWhitelist(type, dist, v)
    BY <1>1 DEF DetectInv
  <2>3. shared => v = release
    BY <2>2 DEF DetectedVersions, Detected
  <2>4. type = "arch" \/ dist \in DOMAIN FirstVersion
    BY <2>2, Whitelisted DEF OnWhitelist, RedHatEnterprise
  <2>5. Says(installed, lsb, type, dist, release)
    BY <1>1 DEF DetectInv
  <2>6. CASE /\ type = "arch" /\ lsb = NoFile
             /\ installed.name \in {"ARCH Linux"} \union ArchDerivatives
    <3>1. LooksLike = "ARCH Linux"
      BY <2>6 DEF LooksLike, ArchDerivatives, DebianDerivatives
    <3> QED
      BY <3>1 DEF ListedAs
  <2>7. CASE /\ type # "arch" /\ dist = installed.name /\ release = installed.version
             /\ lsb = NoFile =>
                    installed.name \notin DebianDerivatives \union ArchDerivatives
    <3>1. LooksLike = dist
      BY <2>7 DEF LooksLike
    <3>2. shared => OnWhitelist(type, dist, installed.version)
      BY <2>2, <2>3, <2>7
    <3> QED
      BY <2>1, <2>4, <2>7, <3>1, <3>2, WhitelistIs DEF ListedAs
  <2>8. CASE /\ type # "arch" /\ dist = "Debian" /\ release = installed.version
             /\ lsb = NoFile /\ installed.name \in DebianDerivatives
    <3>1. LooksLike = dist
      BY <2>8 DEF LooksLike, DebianDerivatives, ArchDerivatives
    <3>2. shared => OnWhitelist(type, dist, installed.version)
      BY <2>2, <2>3, <2>8
    <3> QED
      BY <2>1, <2>4, <2>8, <3>1, <3>2, WhitelistIs DEF ListedAs
  <2>9. CASE type # "arch" /\ dist \in {"", Title}
    BY <2>4, <2>9, Whitelisted DEF Title
  <2>10. LooksLikeIt(installed, lsb, type, dist, release)
    BY <2>1, <2>5, SaysWhatItLooksLike
  <2> QED
    BY <2>6, <2>7, <2>8, <2>9, <2>10 DEF LooksLikeIt
<1>2. DetectInv => OnlyListedPass
  BY <1>1 DEF OnlyListedPass
<1> QED
  BY InvHolds, <1>2, PTL

\* A machine on the whitelist is refused only for a version that is read from
\* freed memory, an /etc/lsb-release that does not name it or a release file of
\* an unusual form; ARCH Linux only for its /etc/lsb-release (getDetector(),
\* checkEnv()).
THEOREM RefusedOnlyForItsFiles ==
    Spec => []ListedPass
<1>1. ASSUME DetectInv, pc = "refused", Listed
      PROVE  IF installed.name = "ARCH Linux" THEN lsb # NoFile
             ELSE \/ ~shared
                  \/ lsb # NoFile /\ ValueOf(lsb, "DISTRIB_ID", "") = ""
                  \/ lsb = NoFile /\ ~installed.usual
  <2>1. Machine(installed, lsb) /\ installed.version \in Versions
    BY <1>1 DEF DetectInv, Machine, Installed
  <2>2. installed.name \in DOMAIN FirstVersion \union {"ARCH Linux"}
    BY <1>1 DEF Listed, ListedAs
  <2>3. installed.name \notin {"Gentoo"} \union ArchDerivatives \union DebianDerivatives
    BY <2>2, Whitelisted DEF ArchDerivatives, DebianDerivatives
  <2>4. CASE NoneBefore(installed, lsb, "refused")
    <3>1. /\ lsb = NoFile /\ installed.name # "ARCH Linux"
          /\ installed.usual => installed.name = "Gentoo"
      BY <2>1, <2>4, NobodyKnows
    <3> QED
      BY <2>3, <3>1
  <2>5. ASSUME Says(installed, lsb, type, dist, release),
               NEW v \in DetectedVersions, ~OnWhitelist(type, dist, v)
        PROVE  IF installed.name = "ARCH Linux" THEN lsb # NoFile
               ELSE \/ ~shared
                    \/ lsb # NoFile /\ ValueOf(lsb, "DISTRIB_ID", "") = ""
                    \/ lsb = NoFile /\ ~installed.usual
    <3>1. shared => v = release
      BY <2>5 DEF DetectedVersions, Detected
    <3>2. type # "arch"
      BY <2>5 DEF OnWhitelist
    <3>3. CASE /\ dist = installed.name /\ release = installed.version
               /\ installed.name = "ARCH Linux" => lsb # NoFile
      <4>1. installed.name # "ARCH Linux" =>
                OnWhitelist(type, dist, installed.version)
        BY <1>1, <2>1, <3>2, <3>3, WhitelistIs DEF Listed, ListedAs
      <4> QED
        BY <2>5, <3>1, <3>3, <4>1
    <3>4. CASE lsb # NoFile /\ ValueOf(lsb, "DISTRIB_ID", "") = ""
      BY <3>4
    <3>5. CASE /\ lsb = NoFile /\ ~installed.usual
               /\ installed.name \in SuseReleaseFile
      BY <3>5 DEF SuseReleaseFile
    <3>6. LooksLikeIt(installed, lsb, type, dist, release)
      BY <2>1, <2>5, SaysWhatItLooksLike
    <3> QED
      BY <2>3, <3>2, <3>3, <3>4, <3>5, <3>6 DEF LooksLikeIt
  <2> QED
    BY <1>1, <2>4, <2>5 DEF DetectInv
<1>2. DetectInv => ListedPass
  BY <1>1 DEF ListedPass
<1> QED
  BY InvHolds, <1>2, PTL
=============================================================================
