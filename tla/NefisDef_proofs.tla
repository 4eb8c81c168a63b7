---------------------------- MODULE NefisDef_proofs ----------------------------
(***************************************************************************)
(* Proofs about NefisDef, for all names, lists of names, variables, files  *)
(* to begin with and numbers of records.                                   *)
(***************************************************************************)
EXTENDS NefisDef, TLAPS, SequenceTheorems, FiniteSetTheorems, NaturalsInduction

(***************************************************************************)
(* Orders.                                                                 *)
(***************************************************************************)
\* s holds the numbers of S, in ascending order.
Enumerates(s, S) == Range(s) = S /\ \A i, j \in DOMAIN s : i < j => s[i] < s[j]

LEMMA LeastNatural ==
  ASSUME NEW S \in SUBSET Nat, S # {}
  PROVE  \E x \in S : \A y \in S : x <= y
<1>1. IsWellFoundedOn(OpToRel(<, Nat), Nat)
  BY NatLessThanWellFounded
<1>2. PICK x \in S : \A y \in S : ~(<<y, x>> \in OpToRel(<, Nat))
  BY <1>1, WFMin, Zenon
<1>3. \A y \in S : ~(y < x)
  BY <1>2 DEF OpToRel
<1> QED BY <1>3

\* Every finite set of numbers can be put in order: 1..m would otherwise have, for the
\* least such m, a subset that cannot, and this would be one with m and an order without.
LEMMA OrderExists ==
  ASSUME NEW m \in Nat, NEW S \in SUBSET (1..m)
  PROVE  \E s \in [1..Cardinality(S) -> S] : Enumerates(s, S)
<1> DEFINE Has(T) == \E s \in [1..Cardinality(T) -> T] : Enumerates(s, T)
           Bad    == {n \in Nat : \E T \in SUBSET (1..n) : ~Has(T)}
<1>1. ASSUME Bad # {} PROVE FALSE
  <2>1. PICK n \in Bad : \A k \in Bad : n <= k
    BY <1>1, LeastNatural
  <2>2. PICK T \in SUBSET (1..n) : ~Has(T)
    OBVIOUS
  <2>3. n \in Nat
    OBVIOUS
  <2> HIDE DEF Has
  <2>4. n \in T
    <3>1. CASE n = 0
      <4>1. T = {}
        BY <3>1
      <4>2. Cardinality(T) = 0
        BY <4>1, FS_EmptySet
      <4>3. <<>> \in [1..Cardinality(T) -> T] /\ Enumerates(<<>>, T)
        BY <4>1, <4>2 DEF Enumerates, Range
      <4> QED BY <4>3, <2>2 DEF Has
    <3>2. CASE n # 0 /\ n \notin T
      <4>1. T \in SUBSET (1..(n - 1)) /\ n - 1 \in Nat
        BY <3>2, <2>3
      <4>2. n - 1 \in Bad
        BY <4>1, <2>2
      <4> QED BY <4>2, <2>1, <2>3
    <3> QED BY <3>1, <3>2
  <2> DEFINE U == T \ {n}
  <2>5. U \in SUBSET (1..(n - 1)) /\ n - 1 \in Nat
    BY <2>3, <2>4
  <2>6. Has(U)
    <3>1. n - 1 \notin Bad
      BY <2>1, <2>3
    <3> QED BY ONLY <3>1, <2>5
  <2>7. IsFiniteSet(1..n)
    BY <2>3, FS_Interval
  <2>8. IsFiniteSet(T)
    BY <2>7, FS_Subset
  <2>9. IsFiniteSet(U) /\ Cardinality(U) = Cardinality(T) - 1
    BY <2>8, <2>4, FS_RemoveElement
  <2>10. Cardinality(T) \in Nat /\ Cardinality(U) \in Nat
    BY <2>8, <2>9, FS_CardinalityType
  <2>11. PICK s \in [1..Cardinality(U) -> U] : Enumerates(s, U)
    BY <2>6 DEF Has
  <2> DEFINE c == Cardinality(T)
             t == [i \in 1..c |-> IF i = c THEN n ELSE s[i]]
  <2> HIDE DEF U
  <2>18. Cardinality(U) = c - 1 /\ c \in Nat
    BY <2>9, <2>10
  <2> HIDE DEF c
  <2>12. c \in Nat \ {0} /\ s \in [1..(c - 1) -> U]
    BY <2>10, <2>11, <2>18
  <2>13. t \in [1..c -> T]
    <3>1. ASSUME NEW i \in 1..c, i # c PROVE s[i] \in T
      <4>1. i \in 1..(c - 1)
        BY <3>1, <2>12
      <4> QED BY <4>1, <2>12 DEF U
    <3> QED BY <3>1, <2>4
  <2>14. \A i \in 1..c : t[i] = IF i = c THEN n ELSE s[i]
    OBVIOUS
  <2> HIDE DEF t
  <2>15. Range(t) = T
    <3>1. ASSUME NEW x \in T PROVE \E i \in 1..c : t[i] = x
      <4>1. CASE x = n
        BY <4>1, <2>12, <2>14
      <4>2. CASE x # n
        <5>1. x \in Range(s)
          BY <4>2, <2>11 DEF U, Enumerates
        <5>2. PICK i \in 1..(c - 1) : s[i] = x
          BY <5>1, <2>12 DEF Range
        <5> QED BY <5>2, <2>12, <2>14
      <4> QED BY <4>1, <4>2
    <3> QED BY <3>1, <2>13 DEF Range
  <2>16. \A i, j \in DOMAIN t : i < j => t[i] < t[j]
    <3>1. SUFFICES ASSUME NEW i \in 1..c, NEW j \in 1..c, i < j PROVE t[i] < t[j]
      BY <2>13
    <3>2. i \in 1..(c - 1) /\ t[i] = s[i]
      BY <3>1, <2>12, <2>14
    <3>3. CASE j = c
      <4>1. s[i] \in 1..(n - 1)
        BY <3>2, <2>5, <2>12
      <4> QED BY <3>2, <3>3, <4>1, <2>3, <2>14
    <3>4. CASE j # c
      <4>1. j \in 1..(c - 1) /\ t[j] = s[j]
        BY <3>4, <2>12, <2>14
      <4> QED BY <3>1, <3>2, <4>1, <2>11, <2>12 DEF Enumerates
    <3> QED BY <3>3, <3>4
  <2>17. Has(T)
    BY <2>13, <2>15, <2>16 DEF Has, Enumerates, c
  <2> QED BY <2>17, <2>2
<1>2. m \notin Bad
  BY <1>1
<1> QED BY <1>2

\* Ascending does what it says.
LEMMA AscendingFacts ==
  ASSUME NEW m \in Nat, NEW S \in SUBSET (1..m)
  PROVE  /\ Ascending(S) \in Seq(S) /\ Enumerates(Ascending(S), S)
         /\ IsFiniteSet(S) /\ Len(Ascending(S)) = Cardinality(S)
<1>0. IsFiniteSet(1..m)
  BY FS_Interval
<1>1. IsFiniteSet(S)
  BY <1>0, FS_Subset
<1>2. Cardinality(S) \in Nat
  BY <1>1, FS_CardinalityType
<1>3. \E s \in [1..Cardinality(S) -> S] : Enumerates(s, S)
  BY OrderExists
<1>4. Ascending(S) \in [1..Cardinality(S) -> S] /\ Enumerates(Ascending(S), S)
  BY <1>3 DEF Ascending, Enumerates
<1> QED BY <1>1, <1>2, <1>4

\* There is one ascending sequence of a set.
LEMMA OneOrder ==
  ASSUME NEW S \in SUBSET Int, NEW s \in Seq(S), NEW t \in Seq(S),
         Enumerates(s, S), Enumerates(t, S)
  PROVE  s = t
<1> DEFINE D == {i \in Nat : i \in DOMAIN s /\ (i \notin DOMAIN t \/ s[i] # t[i])}
           E == {i \in Nat : i \in DOMAIN t /\ (i \notin DOMAIN s \/ s[i] # t[i])}
<1>0. /\ \A i \in 1..Len(s) : s[i] \in S
      /\ \A i \in 1..Len(t) : t[i] \in S
      /\ Len(s) \in Nat /\ Len(t) \in Nat
      /\ DOMAIN s = 1..Len(s) /\ DOMAIN t = 1..Len(t)
  OBVIOUS
<1>1. ASSUME NEW n \in Nat, n \in D \cup E, \A k \in D \cup E : n <= k PROVE FALSE
  <2>1. \A k \in 1..(n - 1) : k \in DOMAIN s /\ k \in DOMAIN t /\ s[k] = t[k]
    <3>1. SUFFICES ASSUME NEW k \in 1..(n - 1) PROVE k \in DOMAIN s /\ k \in DOMAIN t /\ s[k] = t[k]
      OBVIOUS
    <3>2. k \notin D /\ k \notin E /\ k \in Nat
      BY <1>1
    <3>3. k \in DOMAIN s \/ k \in DOMAIN t
      BY <1>0, <1>1
    <3> QED BY <3>2, <3>3
  <2>2. ASSUME n \in DOMAIN s, \A j \in DOMAIN t : t[j] # s[n] PROVE FALSE
    BY <2>2, <1>0 DEF Enumerates, Range
  <2>3. ASSUME n \in DOMAIN t, \A j \in DOMAIN s : s[j] # t[n] PROVE FALSE
    BY <2>3, <1>0 DEF Enumerates, Range
  <2>4. ASSUME n \in DOMAIN s, NEW j \in DOMAIN t, t[j] = s[n], j < n PROVE FALSE
    <3>1. s[j] = s[n] /\ j \in DOMAIN s
      BY <2>1, <2>4, <1>0
    <3>2. s[j] < s[n]
      BY <3>1, <2>4 DEF Enumerates
    <3>3. s[n] \in Int
      BY <2>4, <1>0
    <3> QED BY ONLY <3>1, <3>2, <3>3
  <2>5. ASSUME n \in DOMAIN t, NEW j \in DOMAIN s, s[j] = t[n], j < n PROVE FALSE
    <3>1. t[j] = t[n] /\ j \in DOMAIN t
      BY <2>1, <2>5, <1>0
    <3>2. t[j] < t[n]
      BY <3>1, <2>5 DEF Enumerates
    <3>3. t[n] \in Int
      BY <2>5, <1>0
    <3> QED BY ONLY <3>1, <3>2, <3>3
  <2>6. CASE n \in DOMAIN s /\ n \in DOMAIN t
    <3>1. s[n] # t[n] /\ s[n] \in Int /\ t[n] \in Int
      BY <1>0, <1>1, <2>6
    <3>2. PICK j \in DOMAIN t : t[j] = s[n]
      BY <2>6, <2>2
    <3>3. PICK i \in DOMAIN s : s[i] = t[n]
      BY <2>6, <2>3
    <3>4. j > n /\ i > n
      BY <2>6, <2>4, <2>5, <3>1, <3>2, <3>3, <1>0
    <3>5. t[n] < s[n] /\ s[n] < t[n]
      BY <2>6, <3>2, <3>3, <3>4 DEF Enumerates
    <3> QED BY <3>1, <3>5
  <2>7. CASE n \in DOMAIN s /\ n \notin DOMAIN t
    <3>1. PICK j \in DOMAIN t : t[j] = s[n]
      BY <2>7, <2>2
    <3>2. j < n
      BY <2>7, <1>0
    <3> QED BY <2>4, <2>7, <3>1, <3>2
  <2>8. CASE n \in DOMAIN t /\ n \notin DOMAIN s
    <3>1. PICK j \in DOMAIN s : s[j] = t[n]
      BY <2>8, <2>3
    <3>2. j < n
      BY <2>8, <1>0
    <3> QED BY <2>5, <2>8, <3>1, <3>2
  <2> QED BY <1>1, <2>6, <2>7, <2>8
<1>2. D \cup E = {}
  <2>1. D \cup E \in SUBSET Nat
    OBVIOUS
  <2>2. ASSUME D \cup E # {} PROVE FALSE
    <3>1. PICK n \in D \cup E : \A k \in D \cup E : n <= k
      BY <2>1, <2>2, LeastNatural
    <3>2. n \in Nat
      OBVIOUS
    <3> QED BY ONLY <3>1, <3>2, <1>1
  <2> QED BY <2>2
<1>3. \A i \in 1..Len(s) : i \in DOMAIN t /\ s[i] = t[i]
  BY <1>0, <1>2
<1>4. \A i \in 1..Len(t) : i \in DOMAIN s
  BY <1>0, <1>2
<1>5. Len(s) <= Len(t)
  BY <1>0, <1>3
<1>6. Len(t) <= Len(s)
  BY <1>0, <1>4
<1>7. Len(s) = Len(t)
  <2>1. Len(s) \in Int /\ Len(t) \in Int
    BY ONLY <1>0
  <2> QED BY ONLY <2>1, <1>5, <1>6
<1> QED BY <1>3, <1>7, SeqEqual

\* A number above all others comes last.
LEMMA AscendingAppend ==
  ASSUME NEW m \in Nat, NEW S \in SUBSET (1..m), NEW x \in Nat \ {0}, \A y \in S : y < x
  PROVE  Ascending(S \cup {x}) = Append(Ascending(S), x)
<1> PICK s : s = Ascending(S)
  OBVIOUS
<1> PICK T : T = S \cup {x}
  OBVIOUS
<1>1. s \in Seq(S) /\ Enumerates(s, S)
  BY AscendingFacts
<1>2. \E n \in Nat : T \in SUBSET (1..n)
  <2>1. CASE x <= m
    BY <2>1
  <2>2. CASE ~(x <= m)
    BY <2>2
  <2> QED BY <2>1, <2>2
<1>3. Ascending(T) \in Seq(T) /\ Enumerates(Ascending(T), T)
  BY <1>2, AscendingFacts
<1>4. s \in Seq(T) /\ x \in T
  BY <1>1, SeqMonotonic
<1> PICK t : t = Append(s, x)
  OBVIOUS
<1>5. /\ t \in Seq(T) /\ Len(t) = Len(s) + 1 /\ Len(s) \in Nat
      /\ \A i \in 1..Len(s) : t[i] = s[i]
      /\ t[Len(t)] = x
  BY <1>4, AppendProperties
<1>6. DOMAIN t = 1..Len(t) /\ DOMAIN s = 1..Len(s) /\ \A i \in 1..Len(s) : s[i] \in S
  BY <1>1, <1>5
<1>7. Range(t) = T
  <2>1. \A y \in S : \E i \in 1..Len(s) : s[i] = y
    BY <1>1, <1>6 DEF Enumerates, Range
  <2>2. \A y \in T : \E i \in 1..Len(t) : t[i] = y
    BY <2>1, <1>5
  <2>3. \A i \in 1..Len(t) : t[i] \in T
    BY <1>5
  <2>4. \A y \in T : \E i \in DOMAIN t : t[i] = y
    BY <2>2, <1>6
  <2>5. \A i \in DOMAIN t : t[i] \in T
    BY <2>3, <1>6
  <2> QED BY ONLY <2>4, <2>5 DEF Range
<1>8. ASSUME NEW i \in 1..Len(t), NEW j \in 1..Len(t), i < j PROVE t[i] < t[j]
  <2>1. i \in 1..Len(s) /\ t[i] = s[i] /\ s[i] \in S
    BY <1>5, <1>6, <1>8
  <2>2. CASE j = Len(t)
    BY <2>1, <2>2, <1>5
  <2>3. CASE j # Len(t)
    <3>1. j \in 1..Len(s) /\ t[j] = s[j]
      BY <1>5, <2>3
    <3> QED BY <2>1, <3>1, <1>1, <1>6, <1>8 DEF Enumerates
  <2> QED BY <2>2, <2>3
<1>9. Enumerates(t, T) /\ T \in SUBSET Int
  BY <1>6, <1>7, <1>8 DEF Enumerates
<1> QED BY <1>3, <1>5, <1>9, OneOrder

LEMMA RemoveAtFacts ==
  ASSUME NEW S, NEW s \in Seq(S), NEW i \in 1..Len(s)
  PROVE  /\ RemoveAt(s, i) \in Seq(S) /\ Len(RemoveAt(s, i)) = Len(s) - 1
         /\ \A j \in 1..(Len(s) - 1) : RemoveAt(s, i)[j] = s[IF j < i THEN j ELSE j + 1]
<1> PICK a : a = SubSeq(s, 1, i - 1)
  OBVIOUS
<1> PICK b : b = SubSeq(s, i + 1, Len(s))
  OBVIOUS
<1> PICK n : n = Len(s)
  OBVIOUS
<1>0. n \in Nat /\ i \in 1..n /\ \A j \in 1..n : s[j] \in S
  OBVIOUS
<1>1. 1 \in Int /\ i - 1 \in Int /\ i + 1 \in Int /\ n \in Int
  BY <1>0
<1>2. \A j \in 1..(i - 1) : s[j] \in S
  BY <1>0
<1>3. \A j \in (i + 1)..n : s[j] \in S
  BY <1>0
<1>4. a \in Seq(S) /\ Len(a) = i - 1 /\ \A j \in 1..(i - 1) : a[j] = s[j]
  <2>1. /\ a \in Seq(S) /\ Len(a) = IF 1 <= i - 1 THEN (i - 1) - 1 + 1 ELSE 0
        /\ \A j \in 1..((i - 1) - 1 + 1) : a[j] = s[1 + j - 1]
    BY <1>1, <1>2, SubSeqProperties
  <2> QED BY <2>1, <1>0
<1>5. b \in Seq(S) /\ Len(b) = n - i /\ \A j \in 1..(n - i) : b[j] = s[i + j]
  <2>1. /\ b \in Seq(S) /\ Len(b) = IF i + 1 <= n THEN n - (i + 1) + 1 ELSE 0
        /\ \A j \in 1..(n - (i + 1) + 1) : b[j] = s[(i + 1) + j - 1]
    BY <1>1, <1>3, SubSeqProperties
  <2> QED BY <2>1, <1>0
<1> PICK t : t = a \o b
  OBVIOUS
<1>6. /\ t \in Seq(S) /\ Len(t) = Len(a) + Len(b)
      /\ \A j \in 1..(Len(a) + Len(b)) : t[j] = IF j <= Len(a) THEN a[j] ELSE b[j - Len(a)]
  <2>1. a \in Seq(S) /\ b \in Seq(S)
    BY <1>4, <1>5
  <2> QED BY <2>1, ConcatProperties, ZenonT(40)
<1>7. Len(t) = n - 1
  <2>1. Len(t) = Len(a) + Len(b) /\ Len(a) = i - 1 /\ Len(b) = n - i
    BY <1>4, <1>5, <1>6
  <2> QED BY ONLY <2>1, <1>0
<1>8. ASSUME NEW j \in 1..(n - 1) PROVE t[j] = s[IF j < i THEN j ELSE j + 1]
  <2>0. j \in 1..(Len(a) + Len(b)) /\ Len(a) = i - 1
    <3>1. Len(a) = i - 1 /\ Len(b) = n - i
      BY <1>4, <1>5
    <3>2. (i - 1) + (n - i) = n - 1
      BY <1>0
    <3> QED BY <3>1, <3>2
  <2>1. CASE j < i
    <3>1. t[j] = a[j] /\ a[j] = s[j]
      BY <2>0, <2>1, <1>0, <1>4, <1>6, SMTT(30)
    <3> QED BY <2>1, <3>1
  <2>2. CASE ~(j < i)
    <3>1. t[j] = b[j - Len(a)]
      BY <2>0, <2>2, <1>0, <1>6
    <3>2. j - Len(a) \in 1..(n - i) /\ i + (j - Len(a)) = j + 1
      BY <2>0, <2>2, <1>0
    <3>3. b[j - Len(a)] = s[j + 1]
      BY <3>2, <1>5
    <3> QED BY <2>2, <3>1, <3>3
  <2> QED BY <2>1, <2>2
<1>9. RemoveAt(s, i) = t
  BY DEF RemoveAt
<1> QED BY <1>6, <1>7, <1>8, <1>9

\* Where the entry at j of a sequence goes, or came from, when entry i is removed.
Before(j, i) == IF j < i THEN j ELSE j + 1

LEMMA AscendingRemove ==
  ASSUME NEW m \in Nat, NEW S \in SUBSET (1..m), NEW i \in 1..Len(Ascending(S))
  PROVE  Ascending(S \ {Ascending(S)[i]}) = RemoveAt(Ascending(S), i)
<1> PICK s : s = Ascending(S)
  OBVIOUS
<1> PICK T : T = S \ {s[i]}
  OBVIOUS
<1>1. s \in Seq(S) /\ Enumerates(s, S) /\ i \in 1..Len(s)
  BY AscendingFacts
<1>0. S \in SUBSET Int
  OBVIOUS
<1>2. T \in SUBSET (1..m) /\ T \in SUBSET Int
  BY <1>0
<1>3. Ascending(T) \in Seq(T) /\ Enumerates(Ascending(T), T)
  BY <1>2, AscendingFacts
<1> PICK t : t = RemoveAt(s, i)
  OBVIOUS
<1> PICK n : n = Len(s)
  OBVIOUS
<1>4. /\ t \in Seq(S) /\ Len(t) = n - 1
      /\ \A j \in 1..(n - 1) : t[j] = s[IF j < i THEN j ELSE j + 1]
  BY <1>1, RemoveAtFacts
<1>5. /\ DOMAIN t = 1..(n - 1) /\ DOMAIN s = 1..n /\ n \in Nat /\ i \in 1..n
      /\ \A j \in 1..n : s[j] \in S /\ s[j] \in Int
      /\ \A j \in 1..(n - 1) : t[j] = s[Before(j, i)] /\ Before(j, i) \in 1..n
  <2>1. n \in Nat /\ DOMAIN s = 1..n /\ i \in 1..n /\ \A j \in 1..n : s[j] \in S
    BY <1>1
  <2>2. DOMAIN t = 1..(n - 1)
    BY <1>4
  <2>3. \A j \in 1..(n - 1) : t[j] = s[Before(j, i)]
    BY <1>4 DEF Before
  <2>4. \A j \in 1..(n - 1) : Before(j, i) \in 1..n
    BY <2>1 DEF Before
  <2> QED BY ONLY <1>0, <2>1, <2>2, <2>3, <2>4
<1>6. \A j, k \in 1..n : j < k => s[j] < s[k]
  BY <1>1, <1>5 DEF Enumerates
<1>7. \A j \in 1..n : j # i => s[j] # s[i]
  BY <1>5, <1>6
<1>8. ASSUME NEW j \in 1..(n - 1) PROVE t[j] \in T
  <2>1. Before(j, i) # i
    BY <1>5 DEF Before
  <2> QED BY <2>1, <1>5, <1>7
<1>9. t \in Seq(T)
  <2>1. t \in [1..(n - 1) -> T] /\ n - 1 \in Nat
    BY <1>4, <1>5, <1>8
  <2> QED BY <2>1
<1>10. Range(t) = T
  <2>1. ASSUME NEW y \in T PROVE \E j \in 1..(n - 1) : t[j] = y
    <3>1. PICK k \in 1..n : s[k] = y
      BY <1>1, <1>5 DEF Enumerates, Range
    <3>2. k # i
      BY <3>1
    <3>3. CASE k < i
      <4>1. k \in 1..(n - 1) /\ Before(k, i) = k
        BY <3>3, <1>5 DEF Before
      <4> QED BY <4>1, <3>1, <1>5
    <3>4. CASE k > i
      <4>1. k - 1 \in 1..(n - 1) /\ Before(k - 1, i) = k
        BY <3>4, <1>5 DEF Before
      <4> QED BY <4>1, <3>1, <1>5
    <3> QED BY <3>2, <3>3, <3>4, <1>5
  <2>2. \A y \in T : \E j \in DOMAIN t : t[j] = y
    BY <2>1, <1>5
  <2>3. \A j \in DOMAIN t : t[j] \in T
    BY <1>5, <1>8
  <2> QED BY ONLY <2>2, <2>3 DEF Range
<1>11. ASSUME NEW j \in 1..(n - 1), NEW k \in 1..(n - 1), j < k PROVE t[j] < t[k]
  <2>1. Before(j, i) < Before(k, i)
    BY <1>5, <1>11 DEF Before
  <2> QED BY <2>1, <1>5, <1>6
<1>12. Enumerates(t, T)
  BY <1>5, <1>10, <1>11 DEF Enumerates
<1> QED BY <1>2, <1>3, <1>9, <1>12, OneOrder

\* Descending does what it says.
LEMMA DescendingFacts ==
  ASSUME NEW m \in Nat, NEW S \in SUBSET (1..m)
  PROVE  LET d == Descending(S) IN
         /\ d \in Seq(S) /\ Len(d) = Cardinality(S)
         /\ \A x \in S : \E j \in 1..Len(d) : d[j] = x
         /\ \A j, k \in 1..Len(d) : j < k => d[j] > d[k]
<1> PICK s : s = Ascending(S)
  OBVIOUS
<1> PICK n : n = Len(s)
  OBVIOUS
<1> PICK d : d = Descending(S)
  OBVIOUS
<1>1. s \in Seq(S) /\ Enumerates(s, S) /\ n = Cardinality(S)
  BY AscendingFacts
<1>2. /\ n \in Nat /\ DOMAIN s = 1..n
      /\ \A j \in 1..n : s[j] \in S /\ s[j] \in Int
  <2>0. s \in Seq(S)
    BY <1>1
  <2>1. n \in Nat /\ DOMAIN s = 1..n /\ \A j \in 1..n : s[j] \in S
    BY ONLY <2>0, n = Len(s)
  <2>2. S \in SUBSET Int
    OBVIOUS
  <2> QED BY ONLY <2>1, <2>2
<1>3. d = [j \in 1..n |-> s[(n - j) + 1]]
  BY DEF Descending, Reverse
<1>4. \A j \in 1..n : (n - j) + 1 \in 1..n
  BY <1>2
<1>5. d \in [1..n -> S]
  BY <1>2, <1>3, <1>4
<1>6. d \in Seq(S) /\ Len(d) = n
  BY <1>2, <1>5
<1>7. ASSUME NEW x \in S PROVE \E j \in 1..n : d[j] = x
  <2>1. PICK k \in 1..n : s[k] = x
    BY <1>1, <1>2 DEF Enumerates, Range
  <2>2. (n - k) + 1 \in 1..n /\ (n - ((n - k) + 1)) + 1 = k
    BY <1>2
  <2>3. d[(n - k) + 1] = s[k]
    BY <2>2, <1>3
  <2> QED BY <2>1, <2>2, <2>3
<1>8. ASSUME NEW j \in 1..n, NEW k \in 1..n, j < k PROVE d[j] > d[k]
  <2>1. (n - k) + 1 < (n - j) + 1
    BY <1>2, <1>8
  <2>2. s[(n - k) + 1] < s[(n - j) + 1]
    BY <2>1, <1>1, <1>2, <1>4 DEF Enumerates
  <2> QED BY <2>2, <1>2, <1>3, <1>4
<1> QED BY <1>1, <1>6, <1>7, <1>8

\* Largest(s, j) is one of the numbers of s.
LEMMA LargestFacts ==
  ASSUME NEW s \in Seq(Nat), NEW j \in 1..Len(s)
  PROVE  Largest(s, j) \in Range(s)
<1> DEFINE n == Len(s)
           X == {r \in Range(s) : Cardinality({i \in DOMAIN s : s[i] >= r}) >= j}
           Bad == {k \in 0..n : \A b \in Nat : \E i \in 1..k : ~(s[i] <= b)}
           Bound(b) == \A x \in X : x <= b
           Bounds == {b \in Nat : Bound(b)}
<1>1. n \in Nat /\ DOMAIN s = 1..n /\ \A i \in 1..n : s[i] \in Nat
  OBVIOUS
<1>2. X \in SUBSET Nat /\ X \subseteq Range(s)
  BY <1>1 DEF Range
<1>3. X # {}
  <2>1. Range(s) \in SUBSET Nat /\ s[j] \in Range(s)
    BY <1>1 DEF Range
  <2>2. PICK r \in Range(s) : \A y \in Range(s) : r <= y
    BY <2>1, LeastNatural
  <2>3. {i \in DOMAIN s : s[i] >= r} = 1..n
    BY <2>1, <2>2, <1>1 DEF Range
  <2>4. 1 \in Int /\ n \in Int
    BY <1>1
  <2>5. Cardinality(1..n) = IF 1 > n THEN 0 ELSE n - 1 + 1
    BY <2>4, FS_Interval
  <2>6. Cardinality(1..n) >= j
    BY <2>5, <1>1
  <2> QED BY <2>3, <2>6
<1>4. Bounds # {}
  <2>1. Bad = {}
    <3>1. SUFFICES ASSUME Bad # {} PROVE FALSE
      OBVIOUS
    <3>2. PICK k \in Bad : \A l \in Bad : k <= l
      <4>1. Bad \in SUBSET Nat
        BY <1>1
      <4> QED BY ONLY <4>1, <3>1, LeastNatural
    <3>3. k \in 0..n /\ \A b \in Nat : \E i \in 1..k : ~(s[i] <= b)
      OBVIOUS
    <3>4. k # 0
      BY <3>3
    <3>5. k - 1 \in 0..n /\ k - 1 \notin Bad
      <4>1. k - 1 \in 0..n /\ ~(k <= k - 1)
        BY ONLY <3>3, <3>4, <1>1
      <4> QED BY ONLY <4>1, <3>2
    <3>6. PICK b \in Nat : \A i \in 1..(k - 1) : s[i] <= b
      BY <3>5
    <3>13. s[k] \in Nat
      BY <3>3, <3>4, <1>1
    <3> PICK v \in Nat : v = s[k]
      BY <3>13
    <3>12. b \in Nat
      OBVIOUS
    <3>8. b + v \in Nat
      <4>1. v \in Nat
        OBVIOUS
      <4> QED BY ONLY <3>12, <4>1
    <3>9. PICK i \in 1..k : ~(s[i] <= b + v)
      BY <3>3, <3>8
    <3>10. CASE i = k
      <4>1. ~(v <= b + v)
        BY <3>9, <3>10
      <4> QED BY ONLY <4>1, <3>12, v \in Nat
    <3>11. CASE i # k
      <4>1. i \in 1..(k - 1) /\ s[i] \in Nat
        BY <3>3, <3>11, <1>1
      <4>2. s[i] <= b
        BY <4>1, <3>6
      <4> PICK w \in Nat : w = s[i]
        BY <4>1
      <4>3. w <= b /\ ~(w <= b + v)
        BY <4>2, <3>9
      <4> QED BY ONLY <4>3, <3>12, v \in Nat, w \in Nat
    <3> QED BY <3>10, <3>11
  <2>2. n \in 0..n
    BY <1>1
  <2>4. PICK b \in Nat : \A i \in 1..n : s[i] <= b
    BY <2>1, <2>2
  <2>5. \A x \in Range(s) : x <= b
    BY <2>4, <1>1 DEF Range
  <2>6. Bound(b)
    BY <2>5
  <2> QED BY <2>6
<1>5. PICK b \in Bounds : \A y \in Bounds : b <= y
  BY <1>4, LeastNatural
<1>6. b \in X
  <2>1. SUFFICES ASSUME b \notin X PROVE FALSE
    OBVIOUS
  <2>2. b \in Nat /\ \A x \in X : x <= b /\ x \in Nat
    BY <1>2
  <2> HIDE DEF X
  <2>3. PICK x \in X : TRUE
    BY <1>3
  <2>4. \A y \in X : y <= b - 1
    BY <2>1, <2>2
  <2>5. b - 1 \in Nat
    BY <2>2, <2>3, <2>4
  <2>6. b - 1 \in Bounds
    BY <2>4, <2>5
  <2> QED BY <2>2, <2>6, <1>5
<1>7. \A x \in X : b >= x
  BY <1>2
<1> HIDE DEF X
<1>8. Max(X) \in X
  BY <1>6, <1>7 DEF Max
<1> QED BY <1>2, <1>8 DEF Largest, X

(***************************************************************************)
(* Structures, for records R of which those of L are linked.               *)
(***************************************************************************)
RecordType == [lev : Levels, name : AllNames, refs : Seq(AllNames)]
Entry      == [name : AllNames, off : Nat, refs : Seq(Nat)]

FileOK(R, L) ==
  /\ R \in Seq(RecordType)
  /\ L \in SUBSET (1..Len(R))
  /\ \A o \in 1..Len(R) : Uses(R[o].lev, R[o].refs)
  /\ \A o, p \in L : R[o].lev = R[p].lev /\ R[o].name = R[p].name => o = p

\* Record o uses nothing that is not linked.
DefinedIn(R, L, o) ==
  \A n \in Range(R[o].refs) : \E p \in L : R[p].lev = R[o].lev - 1 /\ R[p].name = n

ListsOK(R, l) ==
  /\ l \in [Levels -> Seq(Entry)]
  /\ \A k \in Levels : \A i \in DOMAIN l[k] :
       Uses(k, l[k][i].refs) /\ l[k][i].off \in 1..Len(R)

SoundIn(R, l) ==
  \A k \in Levels : \A i \in DOMAIN l[k] : \A j \in DOMAIN l[k][i].refs :
    l[k][i].refs[j] # 0 => /\ l[k][i].refs[j] \in DOMAIN l[k - 1]
                           /\ l[k - 1][l[k][i].refs[j]].name = R[l[k][i].off].refs[j]

\* The lists vs_use makes.
Offs(R, L, k)    == Ascending({o \in L : R[o].lev = k})
NamesOf(R, L, k) == [i \in DOMAIN Offs(R, L, k) |-> [name |-> R[Offs(R, L, k)[i]].name]]
EntryOf(R, L, k, o) ==
  [name |-> R[o].name, off |-> o, refs |-> Resolve(NamesOf(R, L, k - 1), R[o].refs)]
Read(R, L) ==
  [k \in Levels |-> [i \in DOMAIN Offs(R, L, k) |-> EntryOf(R, L, k, Offs(R, L, k)[i])]]

\* The entries that use entry i of level k.
UsersIn(l, k, i) ==
  IF k = 4 THEN {} ELSE {u \in DOMAIN l[k + 1] : i \in Range(l[k + 1][u].refs)}

LEMMA StructureIsRead ==
  ASSUME NEW L
  PROVE  /\ Structure(L).list = Read(records, L)
         /\ Structure(L).bare = {k \in Levels : At(L, k) = {}}
  BY DEF Structure, Read, EntryOf, NamesOf, Offs, At

LEMMA IndexOfFound ==
  ASSUME NEW s, NEW n, NEW i \in DOMAIN s, s[i].name = n, \A j \in DOMAIN s : s[j].name = n => j = i
  PROVE  IndexOf(s, n) = i
  BY DEF IndexOf

LEMMA IndexOfNone ==
  ASSUME NEW s, NEW n, \A j \in DOMAIN s : s[j].name # n
  PROVE  IndexOf(s, n) = 0
  BY DEF IndexOf

LEMMA IndexOfFacts ==
  ASSUME NEW s, NEW n, 0 \notin DOMAIN s
  PROVE  /\ IndexOf(s, n) # 0 => IndexOf(s, n) \in DOMAIN s /\ s[IndexOf(s, n)].name = n
         /\ IndexOf(s, n) = 0 => \A j \in DOMAIN s : s[j].name # n
  BY DEF IndexOf

\* The offsets of a level.
LEMMA OffsFacts ==
  ASSUME NEW R, NEW L, FileOK(R, L), NEW k
  PROVE  LET s == Offs(R, L, k) IN
         /\ s \in Seq(1..Len(R)) /\ DOMAIN s = 1..Len(s) /\ Len(s) \in Nat
         /\ \A i \in DOMAIN s : s[i] \in L /\ R[s[i]].lev = k
         /\ \A o \in L : R[o].lev = k => \E i \in DOMAIN s : s[i] = o
         /\ \A i, j \in DOMAIN s : R[s[i]].name = R[s[j]].name => i = j
<1> PICK S : S = {o \in L : R[o].lev = k}
  OBVIOUS
<1> PICK s : s = Offs(R, L, k)
  OBVIOUS
<1>0. Len(R) \in Nat /\ S \in SUBSET (1..Len(R))
  <2>1. R \in Seq(RecordType) /\ L \in SUBSET (1..Len(R))
    BY DEF FileOK
  <2>2. Len(R) \in Nat
    BY ONLY <2>1, LenProperties
  <2>3. S \in SUBSET L
    OBVIOUS
  <2> QED BY ONLY <2>1, <2>2, <2>3
<1>1. s \in Seq(S) /\ Enumerates(s, S)
  BY <1>0, AscendingFacts DEF Offs
<1>2. s \in Seq(1..Len(R)) /\ DOMAIN s = 1..Len(s) /\ Len(s) \in Nat
  <2>1. s \in Seq(1..Len(R))
    BY <1>0, <1>1, SeqMonotonic
  <2> QED BY <2>1
<1>3. \A i \in DOMAIN s : s[i] \in S
  BY <1>1
<1>4. \A o \in S : \E i \in DOMAIN s : s[i] = o
  BY <1>1 DEF Enumerates, Range
<1>5. ASSUME NEW i \in DOMAIN s, NEW j \in DOMAIN s, R[s[i]].name = R[s[j]].name PROVE i = j
  <2>1. s[i] = s[j]
    BY <1>3, <1>5 DEF FileOK
  <2>2. i \in Int /\ j \in Int /\ s[i] \in Int
    BY <1>0, <1>2, <1>3
  <2>3. ~(i < j) /\ ~(j < i)
    BY <2>1, <2>2, <1>1 DEF Enumerates
  <2> QED BY <2>2, <2>3
<1> QED BY <1>2, <1>3, <1>4, <1>5

\* Where a name is found in a list.
LEMMA NamesFacts ==
  ASSUME NEW R, NEW L, FileOK(R, L), NEW k, NEW n
  PROVE  LET x == IndexOf(NamesOf(R, L, k), n)
             s == Offs(R, L, k)
         IN  /\ x \in Nat
             /\ x # 0 => x \in DOMAIN s /\ R[s[x]].name = n
             /\ x = 0 => \A p \in L : R[p].lev = k => R[p].name # n
             /\ \A i \in DOMAIN s : R[s[i]].name = n => x = i
<1> PICK s : s = Offs(R, L, k)
  OBVIOUS
<1> PICK t : t = NamesOf(R, L, k)
  OBVIOUS
<1> PICK x : x = IndexOf(t, n)
  OBVIOUS
<1>1. /\ DOMAIN s = 1..Len(s) /\ Len(s) \in Nat
      /\ \A o \in L : R[o].lev = k => \E i \in DOMAIN s : s[i] = o
      /\ \A i, j \in DOMAIN s : R[s[i]].name = R[s[j]].name => i = j
  BY OffsFacts
<1>2. DOMAIN t = DOMAIN s /\ \A i \in DOMAIN s : t[i].name = R[s[i]].name
  BY DEF NamesOf
<1>3. 0 \notin DOMAIN t
  BY <1>1, <1>2
<1>4. /\ x # 0 => x \in DOMAIN t /\ t[x].name = n
      /\ x = 0 => \A j \in DOMAIN t : t[j].name # n
  BY <1>3, IndexOfFacts
<1>5. x \in Nat
  BY <1>1, <1>2, <1>4
<1>6. ASSUME NEW i \in DOMAIN s, R[s[i]].name = n PROVE x = i
  BY <1>1, <1>2, <1>4, <1>6
<1> QED BY <1>1, <1>2, <1>4, <1>5, <1>6

LEMMA ReadFacts ==
  ASSUME NEW R, NEW L, FileOK(R, L), NEW k \in Levels
  PROVE  LET s == Offs(R, L, k)
             l == Read(R, L)[k]
         IN  /\ DOMAIN l = DOMAIN s
             /\ \A i \in DOMAIN s :
                  /\ l[i].name = R[s[i]].name /\ l[i].off = s[i]
                  /\ l[i].refs = Resolve(NamesOf(R, L, k - 1), R[s[i]].refs)
                  /\ DOMAIN l[i].refs = DOMAIN R[s[i]].refs
                  /\ \A j \in DOMAIN l[i].refs :
                       l[i].refs[j] = IndexOf(NamesOf(R, L, k - 1), R[s[i]].refs[j])
  BY DEF Read, EntryOf, Resolve

LEMMA ReadOK ==
  ASSUME NEW R, NEW L, FileOK(R, L)
  PROVE  ListsOK(R, Read(R, L)) /\ SoundIn(R, Read(R, L))
<1>1. ASSUME NEW k \in Levels, NEW i \in DOMAIN Offs(R, L, k)
      PROVE  LET e == Read(R, L)[k][i] IN
             /\ e \in Entry /\ Uses(k, e.refs) /\ e.off \in 1..Len(R)
             /\ \A j \in DOMAIN e.refs :
                  e.refs[j] # 0 => /\ e.refs[j] \in DOMAIN Read(R, L)[k - 1]
                                   /\ Read(R, L)[k - 1][e.refs[j]].name = R[e.off].refs[j]
  <2> PICK o : o = Offs(R, L, k)[i]
    OBVIOUS
  <2> PICK e : e = Read(R, L)[k][i]
    OBVIOUS
  <2> PICK q : q = R[o].refs
    OBVIOUS
  <2>1. o \in L /\ R[o].lev = k /\ o \in 1..Len(R) /\ R[o] \in RecordType
    <3>1. o \in L /\ R[o].lev = k
      BY <1>1, OffsFacts
    <3> QED BY <3>1 DEF FileOK
  <2>2. q \in Seq(AllNames) /\ Uses(k, q) /\ R[o].name \in AllNames
    BY <2>1 DEF FileOK, RecordType
  <2>3. /\ e = [name |-> R[o].name, off |-> o, refs |-> Resolve(NamesOf(R, L, k - 1), q)]
    BY <1>1 DEF Read, EntryOf
  <2> PICK r : r = e.refs
    OBVIOUS
  <2>4. r = [j \in DOMAIN q |-> IndexOf(NamesOf(R, L, k - 1), q[j])]
    BY <2>3 DEF Resolve
  <2>5. r \in Seq(Nat) /\ Len(r) = Len(q) /\ DOMAIN r = DOMAIN q
    <3>1. \A j \in DOMAIN q : IndexOf(NamesOf(R, L, k - 1), q[j]) \in Nat
      BY NamesFacts
    <3>2. DOMAIN q = 1..Len(q) /\ Len(q) \in Nat
      BY <2>2
    <3> QED BY <2>4, <3>1, <3>2
  <2>6. Uses(k, r)
    <3>1. k = 1 => Len(r) = 0
      BY <2>2, <2>5 DEF Uses
    <3>2. k = 2 => Len(r) # 0
      BY <2>2, <2>5 DEF Uses
    <3> QED BY <3>1, <3>2, <2>2, <2>5 DEF Uses
  <2>7. e \in Entry /\ e.off = o
    BY <2>1, <2>2, <2>3, <2>5 DEF Entry
  <2>8. ASSUME NEW j \in DOMAIN r, r[j] # 0
        PROVE  r[j] \in DOMAIN Read(R, L)[k - 1] /\ Read(R, L)[k - 1][r[j]].name = q[j]
    <3>1. k # 1
      BY <2>5, <2>6, <2>8 DEF Uses
    <3>2. k - 1 \in Levels
      BY <3>1 DEF Levels
    <3>3. r[j] \in DOMAIN Offs(R, L, k - 1) /\ R[Offs(R, L, k - 1)[r[j]]].name = q[j]
      BY <2>4, <2>8, NamesFacts
    <3> QED BY <3>2, <3>3, ReadFacts
  <2> QED BY <2>1, <2>6, <2>7, <2>8
<1>2. ASSUME NEW k \in Levels
      PROVE  /\ Read(R, L)[k] \in Seq(Entry)
             /\ DOMAIN Read(R, L)[k] = DOMAIN Offs(R, L, k)
  <2>1. DOMAIN Offs(R, L, k) = 1..Len(Offs(R, L, k)) /\ Len(Offs(R, L, k)) \in Nat
    BY OffsFacts
  <2>2. Read(R, L)[k] = [i \in DOMAIN Offs(R, L, k) |-> EntryOf(R, L, k, Offs(R, L, k)[i])]
    BY DEF Read
  <2>3. \A i \in DOMAIN Offs(R, L, k) : EntryOf(R, L, k, Offs(R, L, k)[i]) \in Entry
    BY <1>1, <2>2
  <2> QED BY <2>1, <2>2, <2>3
<1>3. Read(R, L) \in [Levels -> Seq(Entry)]
  BY <1>2 DEF Read
<1> QED BY <1>1, <1>2, <1>3 DEF ListsOK, SoundIn

\* A new record of another name than those of its level comes last in its list, and no
\* index changes: all that is used was there before.
AddsRecord(R, L, r) ==
  Read(Append(R, r), L \cup {Len(R) + 1}) =
    [Read(R, L) EXCEPT ![r.lev] = Append(@,
       [name |-> r.name, off |-> Len(R) + 1,
        refs |-> Resolve(IF r.lev = 1 THEN <<>> ELSE Read(R, L)[r.lev - 1], r.refs)])]

LEMMA RecordAdded ==
  ASSUME NEW R, NEW L, FileOK(R, L), NEW r \in RecordType,
         \A o \in L : DefinedIn(R, L, o),
         \A o \in L : R[o].lev = r.lev => R[o].name # r.name,
         Uses(r.lev, r.refs)
  PROVE  FileOK(Append(R, r), L \cup {Len(R) + 1}) /\ AddsRecord(R, L, r)
<1> PICK R2 : R2 = Append(R, r)
  OBVIOUS
<1> PICK new : new = Len(R) + 1
  OBVIOUS
<1> PICK L2 : L2 = L \cup {new}
  OBVIOUS
<1>1. /\ R \in Seq(RecordType) /\ Len(R) \in Nat /\ L \in SUBSET (1..Len(R))
      /\ r.lev \in Levels
  BY DEF FileOK, RecordType
<1>2. /\ R2 \in Seq(RecordType) /\ Len(R2) = new /\ new \in Nat /\ new \notin L
      /\ R2[new] = r
      /\ \A o \in 1..Len(R) : R2[o] = R[o]
      /\ \A o \in L : o < new /\ R2[o] = R[o]
  <2>1. R2 \in Seq(RecordType)
    BY <1>1, AppendProperties
  <2>2. Len(R2) = new
    BY <1>1, AppendProperties
  <2>3. R2[Len(R) + 1] = r
    BY <1>1, AppendProperties
  <2>4. \A o \in 1..Len(R) : R2[o] = R[o]
    BY <1>1, AppendProperties
  <2>5. new \in Nat /\ \A o \in L : o < new /\ o \in 1..Len(R)
    <3>1. \A o \in 1..Len(R) : o < Len(R) + 1
      BY <1>1
    <3> QED BY <3>1, <1>1
  <2> QED BY <2>1, <2>2, <2>3, <2>4, <2>5
<1>3. FileOK(R2, L2)
  <2>1. L2 \in SUBSET (1..Len(R2))
    <3>1. 1..Len(R) \subseteq 1..new /\ new \in 1..new
      BY <1>1
    <3> QED BY <3>1, <1>1, <1>2
  <2>2. \A o \in 1..Len(R2) : Uses(R2[o].lev, R2[o].refs)
    <3>1. SUFFICES ASSUME NEW o \in 1..Len(R2) PROVE Uses(R2[o].lev, R2[o].refs)
      OBVIOUS
    <3>2. CASE o = new
      BY <3>2, <1>2
    <3>3. CASE o # new
      <4>1. o \in 1..Len(R) /\ R2[o] = R[o]
        BY <3>3, <1>1, <1>2
      <4> QED BY <4>1 DEF FileOK
    <3> QED BY <3>2, <3>3
  <2>3. \A o, p \in L2 : R2[o].lev = R2[p].lev /\ R2[o].name = R2[p].name => o = p
    BY <1>2 DEF FileOK
  <2> QED BY <1>2, <2>1, <2>2, <2>3 DEF FileOK
<1>4. ASSUME NEW k
      PROVE  Offs(R2, L2, k) = IF k = r.lev THEN Append(Offs(R, L, k), new) ELSE Offs(R, L, k)
  <2> PICK S : S = {o \in L : R[o].lev = k}
    OBVIOUS
  <2>1. CASE k = r.lev
    <3>1. {o \in L2 : R2[o].lev = k} = S \cup {new}
      BY <2>1, <1>2
    <3>2. S \in SUBSET (1..Len(R)) /\ \A y \in S : y < new
      BY <1>1, <1>2
    <3>4. new \in Nat \ {0}
      BY <1>1
    <3>3. Ascending(S \cup {new}) = Append(Ascending(S), new)
      BY <3>2, <3>4, <1>1, AscendingAppend
    <3> QED BY <2>1, <3>1, <3>3 DEF Offs
  <2>2. CASE k # r.lev
    <3>1. {o \in L2 : R2[o].lev = k} = S
      BY <2>2, <1>2
    <3> QED BY <2>2, <3>1 DEF Offs
  <2> QED BY <2>1, <2>2
<1>5. ASSUME NEW k
      PROVE  /\ DOMAIN Offs(R, L, k) = 1..Len(Offs(R, L, k)) /\ Len(Offs(R, L, k)) \in Nat
             /\ Offs(R, L, k) \in Seq(Nat)
             /\ \A i \in DOMAIN Offs(R, L, k) : Offs(R, L, k)[i] \in L
             /\ \A i \in DOMAIN Offs(R, L, k) :
                  /\ i \in DOMAIN Offs(R2, L2, k)
                  /\ Offs(R2, L2, k)[i] = Offs(R, L, k)[i]
                  /\ R2[Offs(R, L, k)[i]] = R[Offs(R, L, k)[i]]
  <2> PICK s : s = Offs(R, L, k)
    OBVIOUS
  <2>1. s \in Seq(1..Len(R)) /\ DOMAIN s = 1..Len(s) /\ Len(s) \in Nat /\ \A i \in DOMAIN s : s[i] \in L
    BY OffsFacts
  <2>2. s \in Seq(Nat)
    <3>1. 1..Len(R) \subseteq Nat
      OBVIOUS
    <3> QED BY <2>1, <3>1, SeqMonotonic
  <2>3. \A i \in DOMAIN s : i \in DOMAIN Append(s, new) /\ Append(s, new)[i] = s[i]
    BY <2>2, <1>2
  <2> QED BY <2>1, <2>2, <2>3, <1>2, <1>4
<1>6. ASSUME NEW k, NEW n, \E p \in L : R[p].lev = k /\ R[p].name = n
      PROVE  IndexOf(NamesOf(R2, L2, k), n) = IndexOf(NamesOf(R, L, k), n)
  <2> PICK x : x = IndexOf(NamesOf(R, L, k), n)
    OBVIOUS
  <2>1. x \in DOMAIN Offs(R, L, k) /\ R[Offs(R, L, k)[x]].name = n
    BY <1>6, NamesFacts
  <2> PICK s : s = Offs(R, L, k)
    OBVIOUS
  <2> PICK t : t = Offs(R2, L2, k)
    OBVIOUS
  <2>2. x \in DOMAIN t /\ t[x] = s[x] /\ R2[s[x]] = R[s[x]]
    BY <2>1, <1>5
  <2>3. x \in DOMAIN t /\ R2[t[x]].name = n
    BY <2>1, <2>2
  <2>4. \A i \in DOMAIN t : R2[t[i]].name = n => IndexOf(NamesOf(R2, L2, k), n) = i
    BY <1>3, NamesFacts, ZenonT(40)
  <2> QED BY <2>3, <2>4
<1>7. ASSUME NEW k, k # r.lev PROVE NamesOf(R2, L2, k) = NamesOf(R, L, k)
  <2> PICK s : s = Offs(R, L, k)
    OBVIOUS
  <2>1. Offs(R2, L2, k) = s
    BY <1>4, <1>7
  <2>2. \A i \in DOMAIN s : R2[s[i]] = R[s[i]]
    BY <1>5
  <2> QED BY <2>1, <2>2, ZenonT(40) DEF NamesOf
<1>8. ASSUME NEW k, NEW o \in L, R[o].lev = k PROVE EntryOf(R2, L2, k, o) = EntryOf(R, L, k, o)
  <2>1. \A j \in DOMAIN R[o].refs :
          IndexOf(NamesOf(R2, L2, k - 1), R[o].refs[j]) = IndexOf(NamesOf(R, L, k - 1), R[o].refs[j])
    <3>1. SUFFICES ASSUME NEW j \in DOMAIN R[o].refs
                   PROVE  \E p \in L : R[p].lev = k - 1 /\ R[p].name = R[o].refs[j]
      BY <1>6
    <3> QED BY <1>8, ZenonT(40) DEF DefinedIn, Range
  <2> QED BY <2>1, <1>2 DEF EntryOf, Resolve
<1>9. EntryOf(R2, L2, r.lev, new) =
        [name |-> r.name, off |-> new,
         refs |-> Resolve(IF r.lev = 1 THEN <<>> ELSE Read(R, L)[r.lev - 1], r.refs)]
  <2> PICK k : k = r.lev
    OBVIOUS
  <2>1. k - 1 # k /\ k \in 1..4
    BY <1>1 DEF Levels
  <2>2. NamesOf(R2, L2, k - 1) = NamesOf(R, L, k - 1)
    BY <2>1, <1>7
  <2>3. Resolve(NamesOf(R, L, k - 1), r.refs) =
          Resolve(IF k = 1 THEN <<>> ELSE Read(R, L)[k - 1], r.refs)
    <3>1. CASE k = 1
      <4>1. r.refs = <<>>
        BY <3>1 DEF Uses
      <4> QED BY <4>1 DEF Resolve
    <3>2. CASE k # 1
      <4>1. k - 1 \in Levels
        BY <3>2, <2>1 DEF Levels
      <4> PICK t : t = NamesOf(R, L, k - 1)
        OBVIOUS
      <4> PICK u : u = Read(R, L)[k - 1]
        OBVIOUS
      <4>2. DOMAIN t = DOMAIN u /\ \A i \in DOMAIN t : t[i].name = u[i].name
        <5> PICK s : s = Offs(R, L, k - 1)
          OBVIOUS
        <5>1. DOMAIN t = DOMAIN s /\ \A i \in DOMAIN s : t[i].name = R[s[i]].name
          BY DEF NamesOf
        <5>2. DOMAIN u = DOMAIN s /\ \A i \in DOMAIN s : u[i].name = R[s[i]].name
          BY <4>1, ReadFacts
        <5> QED BY <5>1, <5>2
      <4>3. ASSUME NEW n PROVE IndexOf(t, n) = IndexOf(u, n)
        <5>1. \A i : i \in DOMAIN t /\ t[i].name = n <=> i \in DOMAIN u /\ u[i].name = n
          BY ONLY <4>2
        <5>2. (CHOOSE i \in DOMAIN t : t[i].name = n) = (CHOOSE i \in DOMAIN u : u[i].name = n)
          BY ONLY <5>1
        <5> QED BY ONLY <5>1, <5>2 DEF IndexOf
      <4> QED BY <3>2, <4>3 DEF Resolve
    <3> QED BY <3>1, <3>2
  <2> QED BY <2>2, <2>3, <1>2 DEF EntryOf
<1>10. ASSUME NEW k \in Levels, k # r.lev PROVE Read(R2, L2)[k] = Read(R, L)[k]
  <2>1. Offs(R2, L2, k) = Offs(R, L, k)
    BY <1>4, <1>10
  <2>2. \A i \in DOMAIN Offs(R, L, k) :
          EntryOf(R2, L2, k, Offs(R, L, k)[i]) = EntryOf(R, L, k, Offs(R, L, k)[i])
    <3>1. \A i \in DOMAIN Offs(R, L, k) : Offs(R, L, k)[i] \in L /\ R[Offs(R, L, k)[i]].lev = k
      BY OffsFacts
    <3> QED BY <3>1, <1>8
  <2> QED BY <2>1, <2>2 DEF Read
<1>11. Read(R2, L2)[r.lev] = Append(Read(R, L)[r.lev], EntryOf(R2, L2, r.lev, new))
  <2> PICK k : k = r.lev
    OBVIOUS
  <2> PICK s : s = Offs(R, L, k)
    OBVIOUS
  <2> PICK l : l = Read(R, L)[k]
    OBVIOUS
  <2> PICK e : e = EntryOf(R2, L2, k, new)
    OBVIOUS
  <2>1. /\ s \in Seq(Nat) /\ DOMAIN s = 1..Len(s) /\ Len(s) \in Nat /\ k \in Levels
        /\ Offs(R2, L2, k) = Append(s, new)
    BY <1>1, <1>4, <1>5
  <2> PICK t : t = Append(s, new)
    OBVIOUS
  <2>2. /\ DOMAIN t = 1..(Len(s) + 1) /\ t[Len(s) + 1] = new
        /\ \A i \in 1..Len(s) : t[i] = s[i]
    BY <2>1, <1>2
  <2>3. Read(R2, L2)[k] = [i \in 1..(Len(s) + 1) |-> EntryOf(R2, L2, k, t[i])]
    BY <2>1, <2>2 DEF Read
  <2>4. l \in Seq(Entry) /\ DOMAIN l = 1..Len(s) /\ l = [i \in 1..Len(s) |-> EntryOf(R, L, k, s[i])]
    <3>1. l \in Seq(Entry)
      BY <2>1, ReadOK DEF ListsOK
    <3>2. l = [i \in 1..Len(s) |-> EntryOf(R, L, k, s[i])]
      BY <2>1 DEF Read
    <3> QED BY <3>1, <3>2
  <2>5. Len(l) = Len(s)
    BY <2>1, <2>4
  <2>6. Append(l, e) = [i \in 1..(Len(s) + 1) |-> IF i <= Len(s) THEN l[i] ELSE e]
    <3>1. Append(l, e) = [i \in 1..(Len(l) + 1) |-> IF i <= Len(l) THEN l[i] ELSE e]
      BY <2>4
    <3> QED BY <3>1, <2>5
  <2>7. \A i \in 1..Len(s) : EntryOf(R2, L2, k, t[i]) = l[i]
    <3>1. SUFFICES ASSUME NEW i \in 1..Len(s) PROVE EntryOf(R2, L2, k, s[i]) = EntryOf(R, L, k, s[i])
      BY <2>2, <2>4, ZenonT(40)
    <3>2. s[i] \in L /\ R[s[i]].lev = k
      BY <2>1, OffsFacts
    <3> QED BY <3>2, <1>8
  <2>8. \A i \in 1..(Len(s) + 1) :
          EntryOf(R2, L2, k, t[i]) = IF i <= Len(s) THEN l[i] ELSE e
    <3>1. SUFFICES ASSUME NEW i \in 1..(Len(s) + 1)
                   PROVE  EntryOf(R2, L2, k, t[i]) = IF i <= Len(s) THEN l[i] ELSE e
      OBVIOUS
    <3>2. CASE i <= Len(s)
      <4>1. i \in 1..Len(s)
        BY <3>2, <2>1
      <4> QED BY <3>2, <4>1, <2>7
    <3>3. CASE ~(i <= Len(s))
      <4>1. i = Len(s) + 1
        BY <3>3, <2>1
      <4> QED BY <3>3, <4>1, <2>2
    <3> QED BY <3>2, <3>3
  <2>9. Read(R2, L2)[k] = Append(l, e)
    BY ONLY <2>3, <2>6, <2>8
  <2> QED BY <2>9
<1>12. Read(R2, L2) = [Read(R, L) EXCEPT ![r.lev] = Append(@, EntryOf(R2, L2, r.lev, new))]
  <2>1. Read(R, L) = [k \in Levels |-> Read(R, L)[k]] /\ Read(R2, L2) = [k \in Levels |-> Read(R2, L2)[k]]
    BY DEF Read
  <2>2. \A k \in Levels :
          Read(R2, L2)[k] = IF k = r.lev THEN Append(Read(R, L)[r.lev], EntryOf(R2, L2, r.lev, new))
                            ELSE Read(R, L)[k]
    BY <1>10, <1>11
  <2> QED BY <2>1, <2>2, <1>1
<1>13. AddsRecord(R, L, r)
  BY <1>9, <1>12 DEF AddsRecord
<1> QED BY <1>3, <1>13

LEMMA WithRefs ==
  ASSUME NEW a, NEW b, NEW c, NEW d
  PROVE  [[name |-> a, off |-> b, refs |-> c] EXCEPT !.refs = d] =
         [name |-> a, off |-> b, refs |-> d]
  OBVIOUS

\* A record that no entry uses leaves its list, and the indices behind it move up.
LEMMA ReadRemove ==
  ASSUME NEW R, NEW L, FileOK(R, L), NEW k \in Levels, NEW i \in DOMAIN Read(R, L)[k],
         UsersIn(Read(R, L), k, i) = {}
  PROVE  /\ FileOK(R, L \ {Read(R, L)[k][i].off})
         /\ Read(R, L \ {Read(R, L)[k][i].off}) = DropList(Read(R, L), k, i)
<1> PICK s : s = Offs(R, L, k)
  OBVIOUS
<1> PICK o : o = s[i]
  OBVIOUS
<1> PICK M : M = L \ {o}
  OBVIOUS
<1> PICK n : n = Len(s)
  OBVIOUS
<1>1. /\ i \in DOMAIN s /\ Read(R, L)[k][i].off = o
      /\ \A j \in DOMAIN s : s[j] \in L /\ R[s[j]].lev = k
      /\ \A p \in L : R[p].lev = k => \E j \in DOMAIN s : s[j] = p
      /\ \A j, m \in DOMAIN s : R[s[j]].name = R[s[m]].name => j = m
  <2>1. DOMAIN Read(R, L)[k] = DOMAIN s /\ \A j \in DOMAIN s : Read(R, L)[k][j].off = s[j]
    BY ReadFacts
  <2>2. \A j \in DOMAIN s : s[j] \in L /\ R[s[j]].lev = k
    BY OffsFacts
  <2>3. \A p \in L : R[p].lev = k => \E j \in DOMAIN s : s[j] = p
    BY OffsFacts
  <2>4. \A j, m \in DOMAIN s : R[s[j]].name = R[s[m]].name => j = m
    BY OffsFacts
  <2> QED BY <2>1, <2>2, <2>3, <2>4
<1>2. s \in Seq(1..Len(R)) /\ DOMAIN s = 1..n /\ n \in Nat /\ i \in 1..n
  BY <1>1, OffsFacts
<1>3. FileOK(R, M)
  BY SMTT(30), ZenonT(40) DEF FileOK
<1>4. ASSUME NEW m
      PROVE  Offs(R, M, m) = IF m = k THEN RemoveAt(s, i) ELSE Offs(R, L, m)
  <2> PICK S : S = {p \in L : R[p].lev = m}
    OBVIOUS
  <2>1. CASE m = k
    <3>1. {p \in M : R[p].lev = m} = S \ {o}
      BY <2>1
    <3>2. s = Ascending(S) /\ i \in 1..Len(Ascending(S))
      BY <2>1, <1>2 DEF Offs
    <3>3. Len(R) \in Nat /\ S \in SUBSET (1..Len(R))
      <4>1. R \in Seq(RecordType) /\ L \in SUBSET (1..Len(R)) /\ S \in SUBSET L
        BY DEF FileOK
      <4>2. Len(R) \in Nat
        BY <4>1, LenProperties
      <4> QED BY ONLY <4>1, <4>2
    <3>4. Ascending(S \ {Ascending(S)[i]}) = RemoveAt(Ascending(S), i)
      BY <3>2, <3>3, AscendingRemove
    <3> QED BY <2>1, <3>1, <3>2, <3>4 DEF Offs
  <2>2. CASE m # k
    <3>1. {p \in M : R[p].lev = m} = S
      BY <2>2, <1>1
    <3> QED BY <2>2, <3>1 DEF Offs
  <2> QED BY <2>1, <2>2
<1> PICK t : t = RemoveAt(s, i)
  OBVIOUS
<1>5. /\ DOMAIN t = 1..(n - 1) /\ Offs(R, M, k) = t
      /\ \A j \in 1..(n - 1) : t[j] = s[Before(j, i)]
  <2>0. s \in Seq(1..Len(R)) /\ i \in 1..Len(s)
    BY <1>2
  <2>1. /\ RemoveAt(s, i) \in Seq(1..Len(R)) /\ Len(RemoveAt(s, i)) = Len(s) - 1
        /\ \A j \in 1..(Len(s) - 1) : RemoveAt(s, i)[j] = s[IF j < i THEN j ELSE j + 1]
    BY ONLY <2>0, RemoveAtFacts
  <2>2. t \in Seq(1..Len(R)) /\ Len(t) = n - 1 /\ \A j \in 1..(n - 1) : t[j] = s[Before(j, i)]
    BY <2>1 DEF Before
  <2>3. DOMAIN t = 1..(n - 1)
    BY ONLY <2>2, LenProperties
  <2> QED BY <2>2, <2>3, <1>4
<1>6. ASSUME NEW x \in 1..n, x # i
      PROVE  Renumber(x, i) \in 1..(n - 1) /\ Before(Renumber(x, i), i) = x
  BY <1>2, <1>6 DEF Renumber, Before
<1>7. ASSUME NEW c, IndexOf(NamesOf(R, L, k), c) # i
      PROVE  IndexOf(NamesOf(R, M, k), c) = Renumber(IndexOf(NamesOf(R, L, k), c), i)
  <2> PICK x : x = IndexOf(NamesOf(R, L, k), c)
    OBVIOUS
  <2>1. /\ x # 0 => x \in DOMAIN s /\ R[s[x]].name = c
        /\ x = 0 => \A p \in L : R[p].lev = k => R[p].name # c
    BY NamesFacts
  <2>2. CASE x = 0
    <3>1. \A p \in M : R[p].lev = k => R[p].name # c
      BY <2>1, <2>2
    <3> PICK y : y = IndexOf(NamesOf(R, M, k), c)
      OBVIOUS
    <3>2. y # 0 => y \in DOMAIN t /\ R[t[y]].name = c
      BY <1>3, <1>5, NamesFacts
    <3>3. \A j \in DOMAIN t : t[j] \in M /\ R[t[j]].lev = k
      BY <1>3, <1>5, OffsFacts
    <3>4. y = 0
      BY <3>1, <3>2, <3>3
    <3>5. Renumber(0, i) = 0
      BY <1>2 DEF Renumber
    <3> QED BY <3>4, <3>5, <2>2
  <2>3. CASE x # 0
    <3>1. x \in 1..n /\ x # i /\ R[s[x]].name = c
      BY <2>1, <2>3, <1>2, <1>7
    <3>2. Renumber(x, i) \in 1..(n - 1) /\ t[Renumber(x, i)] = s[x]
      BY <3>1, <1>5, <1>6
    <3>3. \A j \in DOMAIN t : R[t[j]].name = c => IndexOf(NamesOf(R, M, k), c) = j
      BY <1>3, <1>5, NamesFacts
    <3> QED BY <3>1, <3>2, <3>3, <1>5
  <2> QED BY <2>2, <2>3
<1>8. ASSUME NEW m, m # k PROVE NamesOf(R, M, m) = NamesOf(R, L, m)
  BY <1>4, <1>8 DEF NamesOf
<1> PICK l : l = Read(R, L)
  OBVIOUS
<1>9. ASSUME NEW m \in Levels, m # k, m # k + 1 PROVE Read(R, M)[m] = l[m]
  <2>1. Offs(R, M, m) = Offs(R, L, m)
    BY <1>4, <1>9
  <2>2. m - 1 # k
    BY <1>9 DEF Levels
  <2>3. NamesOf(R, M, m - 1) = NamesOf(R, L, m - 1)
    BY <2>2, <1>8
  <2> QED BY <2>1, <2>3 DEF Read, EntryOf
<1>10. Read(R, M)[k] = RemoveAt(l[k], i)
  <2>1. k - 1 # k
    BY DEF Levels
  <2>2. \A p : EntryOf(R, M, k, p) = EntryOf(R, L, k, p)
    BY <2>1, <1>8 DEF EntryOf
  <2> PICK a : a = l[k]
    OBVIOUS
  <2> PICK b : b = RemoveAt(a, i)
    OBVIOUS
  <2>3. a = [j \in 1..n |-> EntryOf(R, L, k, s[j])]
    BY <1>2 DEF Read
  <2>4. a \in Seq(Entry) /\ Len(a) = n
    <3>1. a \in Seq(Entry)
      BY ReadOK DEF ListsOK
    <3> QED BY <3>1, <2>3, <1>2
  <2>5. b \in Seq(Entry) /\ Len(b) = n - 1 /\ \A j \in 1..(n - 1) : b[j] = a[Before(j, i)]
    <3>0. a \in Seq(Entry) /\ i \in 1..Len(a)
      BY <2>4, <1>2
    <3>1. /\ RemoveAt(a, i) \in Seq(Entry) /\ Len(RemoveAt(a, i)) = Len(a) - 1
          /\ \A j \in 1..(Len(a) - 1) : RemoveAt(a, i)[j] = a[IF j < i THEN j ELSE j + 1]
      BY ONLY <3>0, RemoveAtFacts
    <3> QED BY <3>1, <2>4 DEF Before
  <2>6. \A j \in 1..(n - 1) : Before(j, i) \in 1..n
    BY <1>2 DEF Before
  <2>7. \A j \in 1..(n - 1) : b[j] = EntryOf(R, L, k, t[j])
    <3>1. \A j \in 1..n : a[j] = EntryOf(R, L, k, s[j])
      BY <2>3
    <3>2. SUFFICES ASSUME NEW j \in 1..(n - 1) PROVE b[j] = EntryOf(R, L, k, t[j])
      OBVIOUS
    <3>3. b[j] = a[Before(j, i)] /\ t[j] = s[Before(j, i)] /\ Before(j, i) \in 1..n
      BY <2>5, <2>6, <1>5
    <3> QED BY <3>1, <3>3
  <2>8. b = [j \in 1..(n - 1) |-> EntryOf(R, L, k, t[j])]
    <3>1. b = [j \in 1..(n - 1) |-> b[j]]
      BY <2>5
    <3> QED BY <3>1, <2>7
  <2>9. Read(R, M)[k] = [j \in 1..(n - 1) |-> EntryOf(R, M, k, t[j])]
    BY <1>5 DEF Read
  <2>10. Read(R, M)[k] = b
    BY ONLY <2>2, <2>8, <2>9
  <2> QED BY <2>10
<1>11. ASSUME k + 1 \in Levels
       PROVE  Read(R, M)[k + 1] =
                [u \in DOMAIN l[k + 1] |-> [l[k + 1][u] EXCEPT !.refs =
                   [j \in DOMAIN l[k + 1][u].refs |-> Renumber(l[k + 1][u].refs[j], i)]]]
  <2> PICK m : m = k + 1
    OBVIOUS
  <2>0. m \in Levels /\ m - 1 = k /\ m # k /\ k # 4
    BY <1>11 DEF Levels
  <2> PICK q : q = Offs(R, L, m)
    OBVIOUS
  <2>1. Offs(R, M, m) = q /\ DOMAIN l[m] = DOMAIN q
    <3>1. Offs(R, M, m) = Offs(R, L, m)
      BY <2>0, <1>4
    <3>2. DOMAIN Read(R, L)[m] = DOMAIN Offs(R, L, m)
      BY <2>0, ReadFacts
    <3> QED BY <3>1, <3>2
  <2>2. ASSUME NEW u \in DOMAIN q
        PROVE  EntryOf(R, M, m, q[u]) =
                 [l[m][u] EXCEPT !.refs = [j \in DOMAIN l[m][u].refs |-> Renumber(l[m][u].refs[j], i)]]
    <3> PICK r : r = R[q[u]].refs
      OBVIOUS
    <3> PICK e : e = l[m][u]
      OBVIOUS
    <3>1. e = [name |-> R[q[u]].name, off |-> q[u],
               refs |-> [j \in DOMAIN r |-> IndexOf(NamesOf(R, L, k), r[j])]]
      BY <2>0, <2>2 DEF Read, EntryOf, Resolve
    <3>2. \A j \in DOMAIN r : IndexOf(NamesOf(R, L, k), r[j]) # i
      <4>1. SUFFICES ASSUME NEW j \in DOMAIN r, IndexOf(NamesOf(R, L, k), r[j]) = i PROVE FALSE
        OBVIOUS
      <4>2. i \in Range(e.refs)
        BY <4>1, <3>1 DEF Range
      <4>3. u \in UsersIn(l, k, i)
        BY <4>2, <2>0, <2>1, <2>2 DEF UsersIn
      <4> QED BY <4>3
    <3>3. \A j \in DOMAIN r :
            IndexOf(NamesOf(R, M, k), r[j]) = Renumber(IndexOf(NamesOf(R, L, k), r[j]), i)
      BY <3>2, <1>7
    <3>4. EntryOf(R, M, m, q[u]) = [name |-> R[q[u]].name, off |-> q[u],
             refs |-> [j \in DOMAIN r |-> IndexOf(NamesOf(R, M, k), r[j])]]
      BY <2>0 DEF EntryOf, Resolve
    <3> PICK f : f = e.refs
      OBVIOUS
    <3>9. PICK g : g = [j \in DOMAIN f |-> Renumber(f[j], i)]
      OBVIOUS
    <3>5. DOMAIN f = DOMAIN r /\ \A j \in DOMAIN r : f[j] = IndexOf(NamesOf(R, L, k), r[j])
      BY <3>1
    <3>6. g = [j \in DOMAIN r |-> IndexOf(NamesOf(R, M, k), r[j])]
      <4>1. \A j \in DOMAIN f : Renumber(f[j], i) = IndexOf(NamesOf(R, M, k), r[j])
        BY ONLY <3>3, <3>5
      <4>2. g = [j \in DOMAIN f |-> IndexOf(NamesOf(R, M, k), r[j])]
        BY ONLY <3>9, <4>1
      <4> QED BY ONLY <4>2, <3>5
    <3>7. [e EXCEPT !.refs = g] = [name |-> R[q[u]].name, off |-> q[u], refs |-> g]
      <4>1. e = [name |-> R[q[u]].name, off |-> q[u], refs |-> f]
        BY <3>1
      <4> QED BY ONLY <4>1, WithRefs
    <3>8. EntryOf(R, M, m, q[u]) = [e EXCEPT !.refs = g]
      BY ONLY <3>4, <3>6, <3>7
    <3> QED BY ONLY <3>8, <3>9, e = l[m][u], f = e.refs
  <2>3. Read(R, M)[m] = [u \in DOMAIN q |-> EntryOf(R, M, m, q[u])]
    BY <2>0, <2>1 DEF Read
  <2> PICK a : a = l[m]
    OBVIOUS
  <2>4. DOMAIN a = DOMAIN q /\ \A u \in DOMAIN q : EntryOf(R, M, m, q[u]) =
                 [a[u] EXCEPT !.refs = [j \in DOMAIN a[u].refs |-> Renumber(a[u].refs[j], i)]]
    BY ONLY <2>1, <2>2, a = l[m]
  <2>5. Read(R, M)[m] = [u \in DOMAIN a |->
                 [a[u] EXCEPT !.refs = [j \in DOMAIN a[u].refs |-> Renumber(a[u].refs[j], i)]]]
    BY ONLY <2>3, <2>4
  <2> QED BY <2>5
<1>12. Read(R, M) = DropList(l, k, i)
  <2>1. Read(R, M) = [m \in Levels |-> Read(R, M)[m]]
    BY DEF Read
  <2>2. ASSUME NEW m \in Levels
        PROVE  Read(R, M)[m] = IF m = k THEN RemoveAt(l[k], i) ELSE IF m = k + 1
                 THEN [u \in DOMAIN l[m] |-> [l[m][u] EXCEPT !.refs =
                         [j \in DOMAIN l[m][u].refs |-> Renumber(l[m][u].refs[j], i)]]]
                 ELSE l[m]
    <3>1. CASE m = k
      BY <3>1, <1>10
    <3>2. CASE m = k + 1
      <4>1. m # k
        BY <3>2 DEF Levels
      <4> QED BY <3>2, <4>1, <1>11
    <3>3. CASE m # k /\ m # k + 1
      BY <3>3, <1>9
    <3> QED BY <3>1, <3>2, <3>3
  <2> QED BY <2>1, <2>2 DEF DropList
<1> QED BY <1>1, <1>3, <1>12

LEMMA NumberAfter ==
  ASSUME NEW n \in Nat, NEW i \in 1..n, NEW x \in 1..n, x # i
  PROVE  Renumber(x, i) \in 1..(n - 1) /\ Before(Renumber(x, i), i) = x
  BY DEF Renumber, Before

LEMMA DropAbove ==
  ASSUME NEW R, NEW l, ListsOK(R, l), NEW k \in Levels, NEW i \in DOMAIN l[k], k + 1 \in Levels
  PROVE  LET d == DropList(l, k, i) IN
             /\ d[k + 1] \in Seq(Entry)
             /\ DOMAIN d[k + 1] = DOMAIN l[k + 1]
             /\ \A u \in DOMAIN l[k + 1] :
                  /\ d[k + 1][u].name = l[k + 1][u].name
                  /\ d[k + 1][u].off = l[k + 1][u].off
                  /\ Len(d[k + 1][u].refs) = Len(l[k + 1][u].refs)
                  /\ DOMAIN d[k + 1][u].refs = DOMAIN l[k + 1][u].refs
                  /\ \A j \in DOMAIN l[k + 1][u].refs :
                       d[k + 1][u].refs[j] = Renumber(l[k + 1][u].refs[j], i)
<1> PICK d : d = DropList(l, k, i)
  OBVIOUS
<1>0. i \in Nat
  <2>1. l[k] \in Seq(Entry)
    BY DEF ListsOK
  <2> QED BY <2>1
<1> PICK c : c = l[k + 1]
  OBVIOUS
<1> PICK f : f = d[k + 1]
  OBVIOUS
<1>1. c \in Seq(Entry)
  BY DEF ListsOK
<1>2. k + 1 # k
  BY DEF Levels
<1>3. f = [u \in DOMAIN c |-> [c[u] EXCEPT !.refs =
             [j \in DOMAIN c[u].refs |-> Renumber(c[u].refs[j], i)]]]
  BY <1>2 DEF DropList
<1>4. ASSUME NEW u \in DOMAIN c
      PROVE  /\ f[u] \in Entry
             /\ f[u].name = c[u].name
             /\ f[u].off = c[u].off
             /\ Len(f[u].refs) = Len(c[u].refs)
             /\ DOMAIN f[u].refs = DOMAIN c[u].refs
             /\ \A j \in DOMAIN c[u].refs : f[u].refs[j] = Renumber(c[u].refs[j], i)
  <2> PICK e : e = c[u]
    OBVIOUS
  <2>1. e \in Entry
    BY <1>1, <1>4
  <2> PICK r : r = e.refs
    OBVIOUS
  <2>2. r \in Seq(Nat) /\ e.name \in AllNames /\ e.off \in Nat
    BY <2>1 DEF Entry
  <2>3. e = [name |-> e.name, off |-> e.off, refs |-> r]
    BY <2>1 DEF Entry
  <2>4. PICK g : g = [j \in DOMAIN r |-> Renumber(r[j], i)]
    OBVIOUS
  <2>5. g \in Seq(Nat) /\ Len(g) = Len(r) /\ DOMAIN g = DOMAIN r
    <3>1. DOMAIN r = 1..Len(r) /\ Len(r) \in Nat /\ \A j \in DOMAIN r : r[j] \in Nat
      BY ONLY <2>2, LenProperties, ElementOfSeq
    <3>2. \A j \in DOMAIN r : Renumber(r[j], i) \in Nat
      <4>1. \A x \in Nat : Renumber(x, i) \in Nat
        BY <1>0 DEF Renumber
      <4> QED BY <3>1, <4>1
    <3>3. g \in [1..Len(r) -> Nat]
      BY <2>4, <3>1, <3>2
    <3> QED BY ONLY <3>1, <3>3
  <2>6. f[u] = [name |-> e.name, off |-> e.off, refs |-> g]
    <3>1. f[u] = [e EXCEPT !.refs = [j \in DOMAIN e.refs |-> Renumber(e.refs[j], i)]]
      BY <1>3, <1>4
    <3>2. f[u] = [e EXCEPT !.refs = g]
      BY ONLY <3>1, <2>4, r = e.refs
    <3> QED BY ONLY <3>2, <2>3, WithRefs
  <2>7. f[u] \in Entry
    BY <2>2, <2>5, <2>6 DEF Entry
  <2>8. \A j \in DOMAIN r : g[j] = Renumber(r[j], i)
    BY <2>4
  <2>9. f[u].name = e.name /\ f[u].off = e.off /\ f[u].refs = g
    BY ONLY <2>6
  <2> QED BY ONLY <2>5, <2>7, <2>8, <2>9, e = c[u], r = e.refs
<1>5. DOMAIN f = DOMAIN c
  BY <1>3
<1>6. f \in Seq(Entry)
  <2>1. DOMAIN c = 1..Len(c) /\ Len(c) \in Nat
    BY ONLY <1>1, LenProperties
  <2>2. f \in [1..Len(c) -> Entry]
    BY <1>3, <1>4, <2>1
  <2> QED BY ONLY <2>1, <2>2
<1>7. /\ d[k + 1] \in Seq(Entry)
      /\ DOMAIN d[k + 1] = DOMAIN l[k + 1]
      /\ \A u \in DOMAIN l[k + 1] :
           /\ d[k + 1][u].name = l[k + 1][u].name
           /\ d[k + 1][u].off = l[k + 1][u].off
           /\ Len(d[k + 1][u].refs) = Len(l[k + 1][u].refs)
           /\ DOMAIN d[k + 1][u].refs = DOMAIN l[k + 1][u].refs
           /\ \A j \in DOMAIN l[k + 1][u].refs :
                d[k + 1][u].refs[j] = Renumber(l[k + 1][u].refs[j], i)
  BY ONLY <1>4, <1>5, <1>6, c = l[k + 1], f = d[k + 1]
<1> QED BY ONLY <1>7, d = DropList(l, k, i)

LEMMA DropFacts ==
  ASSUME NEW R, NEW l, ListsOK(R, l), NEW k \in Levels, NEW i \in DOMAIN l[k]
  PROVE  LET d == DropList(l, k, i)
             n == Len(l[k])
         IN  /\ d \in [Levels -> Seq(Entry)]
             /\ DOMAIN l[k] = 1..n /\ n \in Nat /\ DOMAIN d[k] = 1..(n - 1)
             /\ \A u \in DOMAIN d[k] : d[k][u] = l[k][Before(u, i)] /\ Before(u, i) \in DOMAIN l[k]
             /\ k + 1 \in Levels =>
                  /\ DOMAIN d[k + 1] = DOMAIN l[k + 1]
                  /\ \A u \in DOMAIN l[k + 1] :
                       /\ d[k + 1][u].name = l[k + 1][u].name
                       /\ d[k + 1][u].off = l[k + 1][u].off
                       /\ Len(d[k + 1][u].refs) = Len(l[k + 1][u].refs)
                       /\ DOMAIN d[k + 1][u].refs = DOMAIN l[k + 1][u].refs
                       /\ \A j \in DOMAIN l[k + 1][u].refs :
                            d[k + 1][u].refs[j] = Renumber(l[k + 1][u].refs[j], i)
             /\ \A m \in Levels : m # k /\ m # k + 1 => d[m] = l[m]
<1> PICK d : d = DropList(l, k, i)
  OBVIOUS
<1> PICK a : a = l[k]
  OBVIOUS
<1> PICK n : n = Len(a)
  OBVIOUS
<1>1. /\ a \in Seq(Entry) /\ DOMAIN a = 1..n /\ n \in Nat /\ i \in 1..n
  <2>1. a \in Seq(Entry)
    BY DEF ListsOK
  <2>2. DOMAIN a = 1..n /\ n \in Nat
    BY <2>1
  <2> QED BY <2>1, <2>2
<1> PICK b : b = RemoveAt(a, i)
  OBVIOUS
<1>2. /\ b \in Seq(Entry) /\ DOMAIN b = 1..(n - 1)
      /\ \A u \in 1..(n - 1) : b[u] = a[Before(u, i)]
  <2>1. a \in Seq(Entry) /\ i \in 1..Len(a)
    BY <1>1
  <2>2. /\ RemoveAt(a, i) \in Seq(Entry) /\ Len(RemoveAt(a, i)) = Len(a) - 1
        /\ \A j \in 1..(Len(a) - 1) : RemoveAt(a, i)[j] = a[IF j < i THEN j ELSE j + 1]
    BY ONLY <2>1, RemoveAtFacts
  <2>3. b \in Seq(Entry) /\ Len(b) = n - 1
    BY <2>2
  <2>4. DOMAIN b = 1..(n - 1)
    BY ONLY <2>3, LenProperties
  <2> QED BY <2>2, <2>3, <2>4 DEF Before
<1>3. d[k] = b
  BY DEF DropList
<1>4. \A u \in 1..(n - 1) : Before(u, i) \in 1..n
  BY <1>1 DEF Before
<1>5. \A m \in Levels : m # k /\ m # k + 1 => d[m] = l[m]
  BY DEF DropList
<1>6. ASSUME k + 1 \in Levels
      PROVE  /\ d[k + 1] \in Seq(Entry)
             /\ DOMAIN d[k + 1] = DOMAIN l[k + 1]
             /\ \A u \in DOMAIN l[k + 1] :
                  /\ d[k + 1][u].name = l[k + 1][u].name
                  /\ d[k + 1][u].off = l[k + 1][u].off
                  /\ Len(d[k + 1][u].refs) = Len(l[k + 1][u].refs)
                  /\ DOMAIN d[k + 1][u].refs = DOMAIN l[k + 1][u].refs
                  /\ \A j \in DOMAIN l[k + 1][u].refs :
                       d[k + 1][u].refs[j] = Renumber(l[k + 1][u].refs[j], i)
  BY <1>6, DropAbove
<1>7. d \in [Levels -> Seq(Entry)]
  <2>1. \A m \in Levels : d[m] \in Seq(Entry)
    <3>1. SUFFICES ASSUME NEW m \in Levels PROVE d[m] \in Seq(Entry)
      OBVIOUS
    <3>2. CASE m = k
      BY <3>2, <1>2, <1>3
    <3>3. CASE m = k + 1
      BY <3>3, <1>6
    <3>4. CASE m # k /\ m # k + 1
      BY <3>4, <1>5 DEF ListsOK
    <3> QED BY <3>2, <3>3, <3>4
  <2>2. d = [m \in Levels |-> d[m]]
    BY DEF DropList
  <2> QED BY <2>1, <2>2
<1> QED BY <1>1, <1>2, <1>3, <1>4, <1>5, <1>6, <1>7

LEMMA DropOK ==
  ASSUME NEW R, NEW l, ListsOK(R, l), NEW k \in Levels, NEW i \in DOMAIN l[k]
  PROVE  ListsOK(R, DropList(l, k, i))
<1> PICK d : d = DropList(l, k, i)
  OBVIOUS
<1>1. ASSUME NEW m \in Levels, NEW u \in DOMAIN d[m]
      PROVE  Uses(m, d[m][u].refs) /\ d[m][u].off \in 1..Len(R)
  <2>1. CASE m = k
    <3>1. DOMAIN d[k] = 1..(Len(l[k]) - 1)
      BY DropFacts
    <3>2. \A v \in DOMAIN d[k] : d[k][v] = l[k][Before(v, i)] /\ Before(v, i) \in DOMAIN l[k]
      BY DropFacts
    <3>3. d[m][u] = l[m][Before(u, i)] /\ Before(u, i) \in DOMAIN l[m]
      BY ONLY <3>2, <2>1, <1>1
    <3> QED BY <3>3 DEF ListsOK
  <2>2. CASE m = k + 1
    <3>1. /\ u \in DOMAIN l[m] /\ d[m][u].off = l[m][u].off
          /\ Len(d[m][u].refs) = Len(l[m][u].refs) /\ d[m] \in Seq(Entry)
      BY <2>2, <1>1, DropFacts
    <3>2. Uses(m, l[m][u].refs) /\ l[m][u].off \in 1..Len(R) /\ l[m] \in Seq(Entry)
      BY <3>1 DEF ListsOK
    <3> PICK r : r = l[m][u].refs
      OBVIOUS
    <3> PICK g : g = d[m][u].refs
      OBVIOUS
    <3>3. r \in Seq(Nat) /\ g \in Seq(Nat)
      <4>1. l[m][u] \in Entry /\ d[m][u] \in Entry
        BY <1>1, <3>1, <3>2
      <4> QED BY <4>1 DEF Entry
    <3>4. r = <<>> <=> g = <<>>
      BY <3>1, <3>3, EmptySeq
    <3>5. Uses(m, g)
      BY ONLY <3>1, <3>2, <3>4, r = l[m][u].refs, g = d[m][u].refs DEF Uses
    <3> QED BY <3>1, <3>2, <3>5
  <2>3. CASE m # k /\ m # k + 1
    <3>1. d[m] = l[m]
      BY <2>3, DropFacts
    <3> QED BY <3>1, <1>1 DEF ListsOK
  <2> QED BY <2>1, <2>2, <2>3
<1>2. d \in [Levels -> Seq(Entry)]
  BY DropFacts
<1> QED BY <1>1, <1>2 DEF ListsOK

LEMMA DropSound ==
  ASSUME NEW R, NEW l, ListsOK(R, l), SoundIn(R, l), NEW k \in Levels, NEW i \in DOMAIN l[k],
         UsersIn(l, k, i) = {}
  PROVE  SoundIn(R, DropList(l, k, i))
<1> PICK d : d = DropList(l, k, i)
  OBVIOUS
<1> PICK n : n = Len(l[k])
  OBVIOUS
<1>1. /\ DOMAIN l[k] = 1..n /\ n \in Nat /\ DOMAIN d[k] = 1..(n - 1) /\ i \in 1..n
      /\ \A u \in DOMAIN d[k] : d[k][u] = l[k][Before(u, i)] /\ Before(u, i) \in DOMAIN l[k]
  BY DropFacts
<1>2. \A m \in Levels : m # k /\ m # k + 1 => d[m] = l[m]
  BY DropFacts
<1>3. SUFFICES ASSUME NEW m \in Levels, NEW u \in DOMAIN d[m], NEW j \in DOMAIN d[m][u].refs,
                      d[m][u].refs[j] # 0
               PROVE  /\ d[m][u].refs[j] \in DOMAIN d[m - 1]
                      /\ d[m - 1][d[m][u].refs[j]].name = R[d[m][u].off].refs[j]
  BY DEF SoundIn
<1>4. m # 1
  <2>1. ListsOK(R, d)
    BY DropOK
  <2>2. Uses(m, d[m][u].refs)
    BY <2>1, <1>3 DEF ListsOK
  <2> QED BY <2>2, <1>3 DEF Uses
<1>5. m - 1 \in Levels /\ m - 1 # m /\ m \in 1..4 /\ k \in 1..4
  BY <1>4 DEF Levels
<1>6. CASE m = k
  <2>1. d[m - 1] = l[m - 1]
    BY <1>2, <1>5, <1>6
  <2>2. d[k][u] = l[k][Before(u, i)] /\ Before(u, i) \in DOMAIN l[k]
    BY <1>1, <1>3, <1>6
  <2> QED BY <2>1, <2>2, <1>3, <1>6 DEF SoundIn
<1>7. CASE m = k + 1
  <2>0. m - 1 = k /\ k # 4
    BY <1>5, <1>7
  <2>1. /\ u \in DOMAIN l[m] /\ d[m][u].off = l[m][u].off
        /\ j \in DOMAIN l[m][u].refs
        /\ d[m][u].refs[j] = Renumber(l[m][u].refs[j], i)
    <3>1. /\ DOMAIN d[k + 1] = DOMAIN l[k + 1]
          /\ \A v \in DOMAIN l[k + 1] :
               /\ d[k + 1][v].off = l[k + 1][v].off
               /\ DOMAIN d[k + 1][v].refs = DOMAIN l[k + 1][v].refs
               /\ \A c \in DOMAIN l[k + 1][v].refs :
                    d[k + 1][v].refs[c] = Renumber(l[k + 1][v].refs[c], i)
      <4>1. k + 1 \in Levels =>
              /\ DOMAIN d[k + 1] = DOMAIN l[k + 1]
              /\ \A v \in DOMAIN l[k + 1] :
                   /\ d[k + 1][v].name = l[k + 1][v].name
                   /\ d[k + 1][v].off = l[k + 1][v].off
                   /\ Len(d[k + 1][v].refs) = Len(l[k + 1][v].refs)
                   /\ DOMAIN d[k + 1][v].refs = DOMAIN l[k + 1][v].refs
                   /\ \A c \in DOMAIN l[k + 1][v].refs :
                        d[k + 1][v].refs[c] = Renumber(l[k + 1][v].refs[c], i)
        BY DropAbove
      <4>2. k + 1 \in Levels
        BY <1>3, <1>7
      <4> QED BY ONLY <4>1, <4>2
    <3> QED BY ONLY <3>1, <1>3, <1>7
  <2> PICK x : x = l[m][u].refs[j]
    OBVIOUS
  <2>2. x # 0
    <3>1. Renumber(0, i) = 0
      BY <1>1 DEF Renumber
    <3> QED BY <2>1, <3>1, <1>3
  <2>3. x \in DOMAIN l[k] /\ l[k][x].name = R[l[m][u].off].refs[j]
    BY <2>0, <2>1, <2>2 DEF SoundIn
  <2>4. x # i
    <3>1. x \in Range(l[m][u].refs)
      BY <2>1 DEF Range
    <3>2. u \notin UsersIn(l, k, i)
      OBVIOUS
    <3> QED BY <2>0, <2>1, <3>1, <3>2, <1>7 DEF UsersIn
  <2>5. Renumber(x, i) \in DOMAIN d[k] /\ Before(Renumber(x, i), i) = x
    BY <2>3, <2>4, <1>1, NumberAfter, SMTT(30)
  <2>6. d[k][Renumber(x, i)] = l[k][x]
    BY <2>5, <1>1
  <2> QED BY <2>0, <2>1, <2>3, <2>5, <2>6
<1>8. CASE m # k /\ m # k + 1
  <2>1. d[m] = l[m]
    BY <1>2, <1>8
  <2> PICK x : x = l[m][u].refs[j]
    OBVIOUS
  <2>2. x \in DOMAIN l[m - 1] /\ l[m - 1][x].name = R[l[m][u].off].refs[j]
    BY <2>1, <1>3 DEF SoundIn
  <2>3. x \in DOMAIN d[m - 1] /\ d[m - 1][x].name = l[m - 1][x].name
    <3>1. m - 1 # k
      BY <1>5, <1>8
    <3>2. CASE m - 1 = k + 1
      <4>1. DOMAIN d[k + 1] = DOMAIN l[k + 1] /\ \A v \in DOMAIN l[k + 1] : d[k + 1][v].name = l[k + 1][v].name
        BY <3>2, <1>5, DropFacts, SMTT(30)
      <4> QED BY <4>1, <3>2, <2>2
    <3>3. CASE m - 1 # k + 1
      BY <3>1, <3>3, <2>2, <1>2, <1>5
    <3> QED BY <3>2, <3>3
  <2> QED BY <2>1, <2>2, <2>3
<1> QED BY <1>6, <1>7, <1>8

\* An entry at the end of a list.
LEMMA AddFacts ==
  ASSUME NEW R, NEW l, ListsOK(R, l), NEW k \in Levels, NEW e \in Entry
  PROVE  LET d == [l EXCEPT ![k] = Append(@, e)]
             n == Len(l[k])
         IN  /\ d \in [Levels -> Seq(Entry)]
             /\ DOMAIN l[k] = 1..n /\ n \in Nat /\ DOMAIN d[k] = 1..(n + 1)
             /\ d[k][n + 1] = e
             /\ \A m \in Levels : m # k => d[m] = l[m]
             /\ \A m \in Levels : \A u \in DOMAIN l[m] : u \in DOMAIN d[m] /\ d[m][u] = l[m][u]
             /\ \A m \in Levels : \A u \in DOMAIN d[m] :
                  u \in DOMAIN l[m] \/ (m = k /\ d[m][u] = e)
<1> PICK d : d = [l EXCEPT ![k] = Append(@, e)]
  OBVIOUS
<1> PICK a : a = l[k]
  OBVIOUS
<1> PICK n : n = Len(a)
  OBVIOUS
<1>1. l \in [Levels -> Seq(Entry)] /\ a \in Seq(Entry)
  BY DEF ListsOK
<1>2. DOMAIN a = 1..n /\ n \in Nat
  BY <1>1
<1> PICK b : b = Append(a, e)
  OBVIOUS
<1>3. /\ b \in Seq(Entry) /\ Len(b) = n + 1 /\ b[n + 1] = e /\ \A u \in 1..n : b[u] = a[u]
  BY <1>1, <1>2, AppendProperties
<1>4. DOMAIN b = 1..(n + 1)
  BY ONLY <1>3, LenProperties
<1>5. d[k] = b /\ \A m \in Levels : m # k => d[m] = l[m]
  BY <1>1
<1>6. d \in [Levels -> Seq(Entry)]
  BY <1>1, <1>3
<1>7. 1..n \subseteq 1..(n + 1) /\ \A u \in 1..(n + 1) : u \in 1..n \/ u = n + 1
  BY <1>2
<1>8. \A m \in Levels : \A u \in DOMAIN l[m] : u \in DOMAIN d[m] /\ d[m][u] = l[m][u]
  <2>1. SUFFICES ASSUME NEW m \in Levels, NEW u \in DOMAIN l[m]
                 PROVE  u \in DOMAIN d[m] /\ d[m][u] = l[m][u]
    OBVIOUS
  <2>2. CASE m = k
    BY <2>2, <1>2, <1>3, <1>4, <1>5, <1>7
  <2>3. CASE m # k
    BY <2>3, <1>5
  <2> QED BY <2>2, <2>3
<1>9. \A m \in Levels : \A u \in DOMAIN d[m] : u \in DOMAIN l[m] \/ (m = k /\ d[m][u] = e)
  <2>1. SUFFICES ASSUME NEW m \in Levels, NEW u \in DOMAIN d[m]
                 PROVE  u \in DOMAIN l[m] \/ (m = k /\ d[m][u] = e)
    OBVIOUS
  <2>2. CASE m = k
    BY <2>2, <1>2, <1>3, <1>4, <1>5, <1>7
  <2>3. CASE m # k
    BY <2>3, <1>5
  <2> QED BY <2>2, <2>3
<1> QED BY <1>2, <1>3, <1>4, <1>5, <1>6, <1>8, <1>9

\* A new entry whose indices are those of names in the lists.
LEMMA AddSound ==
  ASSUME NEW R \in Seq(RecordType), NEW l, ListsOK(R, l), NEW r \in RecordType, NEW e \in Entry,
         e = [name |-> r.name, off |-> Len(R) + 1,
              refs |-> IF r.lev = 1 THEN <<>> ELSE Resolve(l[r.lev - 1], r.refs)],
         Uses(r.lev, r.refs)
  PROVE  LET d == [l EXCEPT ![r.lev] = Append(@, e)]
         IN  ListsOK(Append(R, r), d) /\ (SoundIn(R, l) => SoundIn(Append(R, r), d))
<1> PICK k : k = r.lev
  OBVIOUS
<1> PICK d : d = [l EXCEPT ![k] = Append(@, e)]
  OBVIOUS
<1> PICK R2 : R2 = Append(R, r)
  OBVIOUS
<1> PICK new : new = Len(R) + 1
  OBVIOUS
<1>1. /\ k \in Levels /\ r.refs \in Seq(AllNames)
      /\ Len(R) \in Nat /\ Len(R2) = new /\ R2[new] = r
      /\ \A o \in 1..Len(R) : R2[o] = R[o]
  <2>1. k \in Levels /\ r.refs \in Seq(AllNames)
    BY DEF RecordType
  <2>2. Len(R) \in Nat /\ Len(R2) = new
    BY AppendProperties
  <2>3. R2[Len(R) + 1] = r
    BY AppendProperties
  <2>4. \A o \in 1..Len(R) : R2[o] = R[o]
    BY AppendProperties
  <2> QED BY <2>1, <2>2, <2>3, <2>4
<1>2. d \in [Levels -> Seq(Entry)]
  BY <1>1, AddFacts
<1>3. \A m \in Levels : \A u \in DOMAIN l[m] : u \in DOMAIN d[m] /\ d[m][u] = l[m][u]
  BY <1>1, AddFacts
<1>4. \A m \in Levels : \A u \in DOMAIN d[m] : u \in DOMAIN l[m] \/ (m = k /\ d[m][u] = e)
  BY <1>1, AddFacts
<1>5. e.off = new /\ new \in 1..new /\ 1..Len(R) \subseteq 1..new
  BY <1>1
<1>6. /\ k = 1 => e.refs = <<>>
      /\ k # 1 => /\ DOMAIN e.refs = DOMAIN r.refs /\ Len(e.refs) = Len(r.refs)
                  /\ \A j \in DOMAIN r.refs : e.refs[j] = IndexOf(l[k - 1], r.refs[j])
  <2>1. CASE k # 1
    <3> PICK q : q = r.refs
      OBVIOUS
    <3>1. e.refs = [j \in DOMAIN q |-> IndexOf(l[k - 1], q[j])]
      BY <2>1 DEF Resolve
    <3>2. DOMAIN q = 1..Len(q) /\ Len(q) \in Nat
      BY <1>1
    <3>3. Len([j \in 1..Len(q) |-> IndexOf(l[k - 1], q[j])]) = Len(q)
      BY <3>2
    <3> QED BY <2>1, <3>1, <3>2, <3>3
  <2> QED BY <2>1
<1>7. Uses(k, e.refs)
  <2>1. CASE k = 1
    BY <2>1, <1>6 DEF Uses
  <2>2. CASE k # 1
    <3>1. e.refs = <<>> => r.refs = <<>>
      BY <2>2, <1>1, <1>6
    <3> QED BY <2>2, <3>1, <1>6 DEF Uses
  <2> QED BY <2>1, <2>2
<1>8. ListsOK(R2, d)
  <2>1. ASSUME NEW m \in Levels, NEW u \in DOMAIN d[m]
        PROVE  Uses(m, d[m][u].refs) /\ d[m][u].off \in 1..new
    <3>1. CASE u \in DOMAIN l[m]
      BY <3>1, <1>3, <1>5 DEF ListsOK
    <3>2. CASE m = k /\ d[m][u] = e
      BY <3>2, <1>5, <1>7
    <3> QED BY <3>1, <3>2, <1>4
  <2> QED BY <2>1, <1>1, <1>2 DEF ListsOK
<1>9. ASSUME SoundIn(R, l) PROVE SoundIn(R2, d)
  <2>1. SUFFICES ASSUME NEW m \in Levels, NEW u \in DOMAIN d[m], NEW j \in DOMAIN d[m][u].refs,
                        d[m][u].refs[j] # 0
                 PROVE  /\ d[m][u].refs[j] \in DOMAIN d[m - 1]
                        /\ d[m - 1][d[m][u].refs[j]].name = R2[d[m][u].off].refs[j]
    BY DEF SoundIn
  <2>2. m # 1 /\ m - 1 \in Levels
    <3>1. Uses(m, d[m][u].refs)
      BY <2>1, <1>8 DEF ListsOK
    <3>2. m # 1
      BY <2>1, <3>1 DEF Uses
    <3> QED BY <3>2 DEF Levels
  <2> PICK x : x = d[m][u].refs[j]
    OBVIOUS
  <2>3. SUFFICES x \in DOMAIN l[m - 1] /\ l[m - 1][x].name = R2[d[m][u].off].refs[j]
    BY <2>2, <1>3
  <2>4. CASE u \in DOMAIN l[m]
    <3>1. d[m][u] = l[m][u] /\ l[m][u].off \in 1..Len(R)
      BY <2>4, <1>3 DEF ListsOK
    <3>2. x \in DOMAIN l[m - 1] /\ l[m - 1][x].name = R[l[m][u].off].refs[j]
      BY ONLY <2>1, <2>4, <3>1, <1>9, x = d[m][u].refs[j] DEF SoundIn
    <3>3. R2[d[m][u].off] = R[l[m][u].off]
      BY ONLY <3>1, <1>1
    <3> QED BY ONLY <3>2, <3>3
  <2>5. CASE m = k /\ d[m][u] = e
    <3>1. x = IndexOf(l[k - 1], r.refs[j]) /\ R2[e.off] = r
      BY <2>1, <2>2, <2>5, <1>1, <1>5, <1>6
    <3>2. 0 \notin DOMAIN l[k - 1]
      <4>1. l[k - 1] \in Seq(Entry)
        BY <2>2, <2>5 DEF ListsOK
      <4> QED BY <4>1
    <3>3. x # 0
      BY ONLY <2>1, x = d[m][u].refs[j]
    <3>4. x \in DOMAIN l[k - 1] /\ l[k - 1][x].name = r.refs[j]
      BY ONLY <3>1, <3>2, <3>3, IndexOfFacts
    <3>5. R2[d[m][u].off] = r
      BY ONLY <2>5, <3>1
    <3> QED BY ONLY <2>5, <3>4, <3>5
  <2> QED BY <2>4, <2>5, <1>4
<1> QED BY <1>8, <1>9

(***************************************************************************)
(* The inductive invariant.                                                *)
(***************************************************************************)
Commands   == {"remove", "purge", "*remove", "*purge"}
CreateTask == [do : {"create"}, lev : Levels, name : AllNames, refs : Seq(AllNames), fits : BOOLEAN]
RemoveTask == [do : {"remove", "unlink"}, cmd : Commands, lev : Levels, idx : Nat, nested : BOOLEAN]
VSType     == [list : [Levels -> Seq(Entry)], bare : SUBSET Levels]
CallType   == [todo : Seq(CreateTask \cup RemoveTask), vs : VSType, from : Holders,
               to : Vars \cup {Nowhere}, goal : SUBSET (SUBSET Nat),
               exact : BOOLEAN, err : BOOLEAN, raised : BOOLEAN, missed : BOOLEAN]

VSOK(vs, R) == vs \in VSType /\ ListsOK(R, vs.list) /\ \A k \in vs.bare : vs.list[k] = <<>>

\* What is left to do is creations, ...
Creates(todo) == \A p \in DOMAIN todo : todo[p] \in CreateTask /\ Uses(todo[p].lev, todo[p].refs)

\* ... or removals that look first whether a record is in use, ...
Plain(todo) ==
  \A p \in DOMAIN todo :
    todo[p] \in RemoveTask /\ todo[p].do = "remove" /\ todo[p].cmd \notin Starred

\* ... or removals of a record after that of its users: those of a higher level come first,
\* in one level those of a higher index.
Starry(todo, l) ==
  /\ \A p \in DOMAIN todo :
       /\ todo[p] \in RemoveTask /\ todo[p].cmd \in Starred
       /\ p # Len(todo) => todo[p].cmd = "*remove"
       /\ todo[p].do = "unlink" => todo[p].idx \in DOMAIN l[todo[p].lev]
  /\ \A p, q \in DOMAIN todo : p < q =>
       \/ todo[p].lev > todo[q].lev
       \/ todo[p].lev = todo[q].lev /\ todo[p].idx > todo[q].idx

Shape(todo, l) == Creates(todo) \/ Plain(todo) \/ Starry(todo, l)

\* What is removed without another look has no users but those that are removed before.
Guarded(todo, l) ==
  \A q \in DOMAIN todo : todo[q].do = "unlink" =>
    \A u \in UsersIn(l, todo[q].lev, todo[q].idx) :
      \E p \in DOMAIN todo : p < q /\ todo[p].lev = todo[q].lev + 1 /\ todo[p].idx = u

CallOK == /\ call \in CallType
          /\ VSOK(call.vs, records)
          /\ Shape(call.todo, call.vs.list)

\* As long as no call has changed the file from a structure that was not up to date, ...
FileClean == \A o \in live : DefinedIn(records, live, o)

MemClean ==
  /\ \A h \in fresh : mem[h].list = Read(records, live)
  /\ \A h \in Holders : mem[h] # NoVS => SoundIn(records, mem[h].list)

CallClean ==
  /\ SoundIn(records, call.vs.list)
  /\ call.exact => /\ call.vs.list = Read(records, live)
                   /\ ~call.missed
                   /\ Guarded(call.todo, call.vs.list)

MemOK == /\ mem \in [Holders -> VSType \cup {NoVS}]
         /\ \A h \in Holders : mem[h] # NoVS => VSOK(mem[h], records)
         /\ fresh \in SUBSET {h \in Holders : mem[h] # NoVS}

IInv ==
  /\ FileOK(records, live) /\ Len(records) <= MaxRec
  /\ MemOK
  /\ clean \in BOOLEAN
  /\ ~Idle => CallOK
  /\ clean => FileClean /\ MemClean /\ (~Idle => CallClean)

(***************************************************************************)
(* What is left to do, as a sequence.                                      *)
(***************************************************************************)
TaskType == CreateTask \cup RemoveTask

LEMMA OneElement ==
  ASSUME NEW S, NEW y \in S
  PROVE  <<y>> \in Seq(S) /\ Len(<<y>>) = 1 /\ <<y>>[1] = y
  OBVIOUS

LEMMA TaskKinds ==
  /\ \A t \in CreateTask : t.do = "create" /\ t \in TaskType
  /\ \A t \in RemoveTask : t.do # "create" /\ t \in TaskType
  BY DEF CreateTask, RemoveTask, TaskType

LEMMA RestFacts ==
  ASSUME NEW todo \in Seq(TaskType), todo # <<>>
  PROVE  /\ Tail(todo) \in Seq(TaskType) /\ Head(todo) = todo[1] /\ Head(todo) \in TaskType
         /\ Len(todo) \in Nat \ {0} /\ Len(Tail(todo)) = Len(todo) - 1
         /\ DOMAIN todo = 1..Len(todo) /\ DOMAIN Tail(todo) = 1..(Len(todo) - 1)
         /\ \A p \in 1..(Len(todo) - 1) : Tail(todo)[p] = todo[p + 1] /\ p + 1 \in DOMAIN todo
<1> PICK r : r = Tail(todo)
  OBVIOUS
<1> PICK n : n = Len(todo)
  OBVIOUS
<1>1. /\ r \in Seq(TaskType) /\ Head(todo) \in TaskType /\ Len(r) = n - 1
      /\ \A p \in 1..Len(r) : r[p] = todo[p + 1]
  BY HeadTailProperties
<1>2. n \in Nat \ {0}
  BY EmptySeq
<1>3. DOMAIN todo = 1..n /\ DOMAIN r = 1..(n - 1)
  BY <1>1, LenProperties
<1>4. \A p \in 1..(n - 1) : p + 1 \in 1..n
  BY <1>2
<1>5. Head(todo) = todo[1]
  OBVIOUS
<1> QED BY <1>1, <1>2, <1>3, <1>4, <1>5

LEMMA NothingLeft ==
  ASSUME NEW l PROVE <<>> \in Seq(TaskType) /\ Shape(<<>>, l) /\ Guarded(<<>>, l)
<1>1. DOMAIN <<>> = {}
  OBVIOUS
<1>2. <<>> \in Seq(TaskType)
  OBVIOUS
<1> QED BY <1>1, <1>2 DEF Shape, Creates, Guarded

LEMMA RestShape ==
  ASSUME NEW todo \in Seq(TaskType), todo # <<>>, NEW l
  PROVE  /\ Creates(todo) => Creates(Tail(todo))
         /\ Plain(todo) => Plain(Tail(todo))
         /\ Starry(todo, l) => Starry(Tail(todo), l)
         /\ Shape(todo, l) => Shape(Tail(todo), l)
<1> PICK r : r = Tail(todo)
  OBVIOUS
<1> PICK n : n = Len(todo)
  OBVIOUS
<1>1. /\ n \in Nat \ {0} /\ Len(r) = n - 1
      /\ DOMAIN todo = 1..n /\ DOMAIN r = 1..(n - 1)
      /\ \A p \in 1..(n - 1) : r[p] = todo[p + 1] /\ p + 1 \in 1..n
  BY RestFacts
<1>2. Creates(todo) => Creates(r)
  BY <1>1 DEF Creates
<1>3. Plain(todo) => Plain(r)
  BY <1>1 DEF Plain
<1>4. ASSUME Starry(todo, l) PROVE Starry(r, l)
  <2>1. \A p \in 1..(n - 1) : p # Len(r) => p + 1 # Len(todo)
    BY <1>1
  <2>2. \A p, q \in 1..(n - 1) : p < q => p + 1 < q + 1
    BY <1>1
  <2>3. \A p \in DOMAIN r :
         /\ r[p] \in RemoveTask /\ r[p].cmd \in Starred
         /\ p # Len(r) => r[p].cmd = "*remove"
         /\ r[p].do = "unlink" => r[p].idx \in DOMAIN l[r[p].lev]
    BY <1>1, <1>4, <2>1 DEF Starry
  <2>4. \A p, q \in DOMAIN r : p < q =>
         \/ r[p].lev > r[q].lev
         \/ r[p].lev = r[q].lev /\ r[p].idx > r[q].idx
    <3>1. SUFFICES ASSUME NEW p \in 1..(n - 1), NEW q \in 1..(n - 1), p < q
                   PROVE  \/ r[p].lev > r[q].lev
                          \/ r[p].lev = r[q].lev /\ r[p].idx > r[q].idx
      BY <1>1
    <3>2. p + 1 \in 1..n /\ q + 1 \in 1..n /\ p + 1 < q + 1
      BY <1>1, <2>2, <3>1
    <3>3. \/ todo[p + 1].lev > todo[q + 1].lev
          \/ todo[p + 1].lev = todo[q + 1].lev /\ todo[p + 1].idx > todo[q + 1].idx
      BY <3>2, <1>1, <1>4 DEF Starry
    <3> QED BY <3>3, <1>1
  <2> QED BY <2>3, <2>4 DEF Starry
<1> QED BY <1>2, <1>3, <1>4 DEF Shape

LEMMA GuardedPlain ==
  ASSUME NEW todo, NEW l, Creates(todo) \/ Plain(todo) PROVE Guarded(todo, l)
  BY TaskKinds DEF Creates, Plain, Guarded

LEMMA PlainConcat ==
  ASSUME NEW a \in Seq(TaskType), NEW b \in Seq(TaskType), Plain(a), Plain(b)
  PROVE  a \o b \in Seq(TaskType) /\ Plain(a \o b)
<1> PICK c : c = a \o b
  OBVIOUS
<1>1. /\ c \in Seq(TaskType) /\ Len(c) = Len(a) + Len(b)
      /\ \A p \in 1..(Len(a) + Len(b)) : c[p] = IF p <= Len(a) THEN a[p] ELSE b[p - Len(a)]
  BY ConcatProperties
<1>2. DOMAIN a = 1..Len(a) /\ DOMAIN b = 1..Len(b) /\ Len(a) \in Nat /\ Len(b) \in Nat
  OBVIOUS
<1>3. ASSUME NEW p \in 1..(Len(a) + Len(b))
      PROVE  c[p] \in RemoveTask /\ c[p].do = "remove" /\ c[p].cmd \notin Starred
  <2>1. CASE p <= Len(a)
    <3>1. p \in 1..Len(a) /\ c[p] = a[p]
      BY <2>1, <1>1, <1>2
    <3> QED BY <3>1, <1>2 DEF Plain
  <2>2. CASE ~(p <= Len(a))
    <3>1. p - Len(a) \in 1..Len(b) /\ c[p] = b[p - Len(a)]
      BY <2>2, <1>1, <1>2
    <3> QED BY <3>1, <1>2 DEF Plain
  <2> QED BY <2>1, <2>2
<1>4. DOMAIN c = 1..(Len(a) + Len(b))
  BY <1>1, LenProperties
<1> QED BY <1>1, <1>3, <1>4 DEF Plain

LEMMA PurgePlain ==
  ASSUME NEW cmd \in Commands, NEW k \in Levels, NEW refs \in Seq(Nat), Uses(k, refs)
  PROVE  PurgeBelow(cmd, k, refs) \in Seq(TaskType) /\ Plain(PurgeBelow(cmd, k, refs))
<1>1. \A c \in {"remove", "purge"}, m \in Levels, i \in Nat :
        /\ Removal(c, m, i, TRUE) \in RemoveTask /\ Removal(c, m, i, TRUE).do = "remove"
        /\ Removal(c, m, i, TRUE).cmd \notin Starred
        /\ Removal(c, m, i, TRUE) \in TaskType
  BY DEF Removal, RemoveTask, Commands, Starred, TaskType
<1>2. k \in 1..4 /\ 1 \in Levels
  BY DEF Levels
<1>3. CASE cmd \notin Purging \/ k = 1
  <2>1. PurgeBelow(cmd, k, refs) = <<>>
    BY <1>3 DEF PurgeBelow
  <2>2. DOMAIN <<>> = {} /\ <<>> \in Seq(TaskType)
    OBVIOUS
  <2> QED BY <2>1, <2>2 DEF Plain
<1>4. CASE cmd \in Purging /\ k = 2
  <2> PICK n : n = Len(refs)
    OBVIOUS
  <2>1. n \in Nat /\ DOMAIN refs = 1..n /\ \A j \in 1..n : refs[j] \in Nat
    OBVIOUS
  <2> PICK t : t = PurgeBelow(cmd, k, refs)
    OBVIOUS
  <2>2. t = [j \in 1..n |-> Removal("remove", 1, Largest(refs, j), TRUE)]
    BY <1>4, <2>1 DEF PurgeBelow
  <2>3. \A j \in 1..n : Largest(refs, j) \in Nat
    <3>1. \A j \in 1..n : Largest(refs, j) \in Range(refs)
      BY LargestFacts
    <3>2. Range(refs) \subseteq Nat
      BY <2>1 DEF Range
    <3> QED BY <3>1, <3>2
  <2>4. \A j \in 1..n : /\ t[j] \in TaskType /\ t[j] \in RemoveTask
                        /\ t[j].do = "remove" /\ t[j].cmd \notin Starred
    <3>1. SUFFICES ASSUME NEW j \in 1..n
                   PROVE  /\ t[j] \in TaskType /\ t[j] \in RemoveTask
                          /\ t[j].do = "remove" /\ t[j].cmd \notin Starred
      OBVIOUS
    <3>2. t[j] = Removal("remove", 1, Largest(refs, j), TRUE)
      BY <2>2
    <3>3. "remove" \in {"remove", "purge"} /\ Largest(refs, j) \in Nat
      BY <2>3
    <3> QED BY ONLY <3>2, <3>3, <1>1, <1>2, ZenonT(40)
  <2>5. t \in Seq(TaskType) /\ DOMAIN t = 1..n
    <3>1. DOMAIN t = 1..n
      BY <2>2
    <3>2. t \in [1..n -> TaskType]
      BY <2>2, <2>4
    <3> QED BY <3>1, <3>2, <2>1
  <2> QED BY <2>4, <2>5 DEF Plain
<1>5. CASE cmd \in Purging /\ k \in {3, 4}
  <2>0. k # 1 /\ k # 2 /\ k > 2 /\ ~(cmd \notin Purging \/ k = 1)
    BY <1>5
  <2>1. Len(refs) = 1
    BY <2>0 DEF Uses
  <2>2. refs[1] \in Nat
    <3>1. 1 \in 1..Len(refs)
      BY <2>1
    <3> QED BY <3>1, ElementOfSeq
  <2>3. CASE refs[1] > 0
    <3> PICK x : x = Removal("purge", k - 1, refs[1], TRUE)
      OBVIOUS
    <3>1. PurgeBelow(cmd, k, refs) = <<x>>
      BY ONLY <2>0, <2>3, x = Removal("purge", k - 1, refs[1], TRUE) DEF PurgeBelow
    <3>2. k - 1 \in Levels /\ "purge" \in {"remove", "purge"}
      BY <1>5 DEF Levels
    <3>3. x \in RemoveTask /\ x.do = "remove" /\ x.cmd \notin Starred /\ x \in TaskType
      BY ONLY <3>2, <2>2, <1>1, x = Removal("purge", k - 1, refs[1], TRUE)
    <3> PICK y \in TaskType : y = x
      BY <3>3
    <3>5. <<y>> \in Seq(TaskType)
      BY ONLY y \in TaskType, OneElement
    <3>6. DOMAIN <<y>> = {1} /\ <<y>>[1] = y
      OBVIOUS
    <3>4. <<x>> \in Seq(TaskType) /\ DOMAIN <<x>> = {1} /\ <<x>>[1] = x
      BY ONLY <3>5, <3>6, y = x
    <3> QED BY <3>1, <3>3, <3>4 DEF Plain
  <2>4. CASE ~(refs[1] > 0)
    <3>1. PurgeBelow(cmd, k, refs) = <<>>
      BY ONLY <2>0, <2>4 DEF PurgeBelow
    <3>2. DOMAIN <<>> = {} /\ <<>> \in Seq(TaskType)
      OBVIOUS
    <3> QED BY <3>1, <3>2 DEF Plain
  <2> QED BY <2>3, <2>4
<1>6. k = 1 \/ k = 2 \/ k \in {3, 4}
  BY <1>2
<1> QED BY <1>3, <1>4, <1>5, <1>6

\* A record with users makes place for the removals of these, the last first, and for its own:
\* the order and the guards of what is left to do, in terms of its positions.
LEMMA ExpandOrder ==
  ASSUME NEW todo \in Seq(TaskType), NEW t \in Seq(TaskType), NEW d \in Seq(Nat), NEW l,
         todo # <<>>, Len(t) = Len(d) + Len(todo), Starry(todo, l),
         todo[1].lev # 4, todo[1].idx \in DOMAIN l[todo[1].lev],
         \A u \in UsersIn(l, todo[1].lev, todo[1].idx) : \E j \in 1..Len(d) : d[j] = u,
         \A j, p \in 1..Len(d) : j < p => d[j] > d[p],
         \A j \in 1..Len(d) :
            /\ t[j] \in RemoveTask /\ t[j].lev = todo[1].lev + 1 /\ t[j].idx = d[j]
            /\ t[j].do = "remove" /\ t[j].cmd = "*remove",
         LET h == t[Len(d) + 1] IN
            /\ h \in RemoveTask /\ h.lev = todo[1].lev /\ h.idx = todo[1].idx
            /\ h.cmd = todo[1].cmd /\ h.do = "unlink",
         \A p \in 2..Len(todo) : t[Len(d) + p] = todo[p]
  PROVE  Starry(t, l) /\ (Guarded(todo, l) => Guarded(t, l))
<1> PICK m \in Nat : m = Len(d)
  OBVIOUS
<1> PICK N \in Nat \ {0} : N = Len(todo)
  BY EmptySeq
<1> PICK k : k = todo[1].lev
  OBVIOUS
<1> PICK i : i = todo[1].idx
  OBVIOUS
<1>0. /\ Len(todo) = N /\ Len(t) = m + N /\ DOMAIN todo = 1..N /\ DOMAIN t = 1..(m + N)
      /\ k # 4 /\ i \in DOMAIN l[k] /\ k \in 1..4
  <2>1. Len(t) = m + N /\ Len(todo) = N /\ m + N \in Nat
    OBVIOUS
  <2>2. DOMAIN todo = 1..N /\ DOMAIN t = 1..(m + N)
    BY ONLY <2>1, N \in Nat \ {0}, t \in Seq(TaskType), todo \in Seq(TaskType), LenProperties
  <2>3. todo[1] \in RemoveTask
    <3>1. 1 \in DOMAIN todo
      BY ONLY <2>2, N \in Nat \ {0}
    <3> QED BY <3>1 DEF Starry
  <2>4. k \in 1..4
    BY ONLY <2>3, k = todo[1].lev DEF RemoveTask, Levels
  <2> QED BY <2>1, <2>2, <2>4
<1>1. 1 \in 1..N /\ N \in Nat /\ N > 0 /\ k \in Nat
  BY ONLY <1>0, N \in Nat \ {0}
<1>2. \A p \in 1..N : /\ todo[p] \in RemoveTask /\ todo[p].cmd \in Starred
                      /\ p # N => todo[p].cmd = "*remove"
                      /\ todo[p].do = "unlink" => todo[p].idx \in DOMAIN l[todo[p].lev]
  <2>1. \A p \in DOMAIN todo :
          /\ todo[p] \in RemoveTask /\ todo[p].cmd \in Starred
          /\ p # Len(todo) => todo[p].cmd = "*remove"
          /\ todo[p].do = "unlink" => todo[p].idx \in DOMAIN l[todo[p].lev]
    BY ONLY Starry(todo, l) DEF Starry
  <2>2. DOMAIN todo = 1..N /\ Len(todo) = N
    BY <1>0
  <2> QED BY ONLY <2>1, <2>2
<1>3. \A p, q \in 1..N : p < q =>
         \/ todo[p].lev > todo[q].lev
         \/ todo[p].lev = todo[q].lev /\ todo[p].idx > todo[q].idx
  BY ONLY <1>0, Starry(todo, l) DEF Starry
<1>4. \A j \in 1..m : /\ t[j] \in RemoveTask /\ t[j].lev = k + 1 /\ t[j].idx = d[j]
                      /\ t[j].do = "remove" /\ t[j].cmd = "*remove"
  OBVIOUS
<1>5. /\ t[m + 1] \in RemoveTask /\ t[m + 1].lev = k /\ t[m + 1].idx = i
      /\ t[m + 1].cmd = todo[1].cmd /\ t[m + 1].do = "unlink"
  OBVIOUS
<1>6. \A p \in 2..N : t[m + p] = todo[p]
  OBVIOUS
<1>10. \A p \in 1..N : /\ t[m + p].lev = todo[p].lev /\ t[m + p].idx = todo[p].idx
                       /\ t[m + p].cmd = todo[p].cmd /\ t[m + p] \in RemoveTask
  <2>1. SUFFICES ASSUME NEW p \in 1..N
                 PROVE  /\ t[m + p].lev = todo[p].lev /\ t[m + p].idx = todo[p].idx
                        /\ t[m + p].cmd = todo[p].cmd /\ t[m + p] \in RemoveTask
    OBVIOUS
  <2>2. CASE p = 1
    BY ONLY <2>2, <1>5, k = todo[1].lev, i = todo[1].idx
  <2>3. CASE p # 1
    <3>1. p \in 2..N
      BY ONLY <2>3, p \in 1..N, <1>1
    <3> QED BY ONLY <3>1, p \in 1..N, <1>2, <1>6
  <2> QED BY ONLY <2>2, <2>3
<1>11. \A p \in 1..(m + N) : p \in 1..m \/ \E q \in 1..N : p = m + q
  <2>1. SUFFICES ASSUME NEW p \in 1..(m + N), p \notin 1..m PROVE \E q \in 1..N : p = m + q
    OBVIOUS
  <2>2. p - m \in 1..N /\ p = m + (p - m)
    BY ONLY <2>1, <1>1, p \in 1..(m + N), m \in Nat
  <2> QED BY ONLY <2>2
<1>12. \A p \in 1..N : todo[p].lev \in Int
  BY ONLY <1>2, SMTT(30) DEF RemoveTask, Levels
<1>13. \A p \in 1..N : todo[p].lev <= k
  <2>1. SUFFICES ASSUME NEW p \in 1..N PROVE todo[p].lev <= k
    OBVIOUS
  <2>2. todo[p].lev \in Int /\ todo[1].lev \in Int
    BY ONLY <1>1, <1>12, p \in 1..N
  <2>3. CASE p = 1
    BY ONLY <2>2, <2>3, k = todo[1].lev
  <2>4. CASE p # 1
    <3>1. 1 < p
      BY ONLY <2>4, p \in 1..N, <1>1
    <3>2. todo[1].lev > todo[p].lev \/ todo[1].lev = todo[p].lev
      BY ONLY <3>1, <1>1, <1>3, p \in 1..N
    <3> QED BY ONLY <3>2, <2>2, k = todo[1].lev
  <2> QED BY ONLY <2>3, <2>4
<1>14. ASSUME NEW p \in 1..(m + N)
       PROVE  /\ t[p] \in RemoveTask /\ t[p].cmd \in Starred
              /\ p # m + N => t[p].cmd = "*remove"
              /\ t[p].do = "unlink" => t[p].idx \in DOMAIN l[t[p].lev]
  <2>2. CASE p \in 1..m
    BY ONLY <2>2, <1>4 DEF Starred
  <2>3. CASE p \notin 1..m
    <3>1. PICK q \in 1..N : p = m + q
      BY ONLY <2>3, <1>11, p \in 1..(m + N)
    <3>2. t[p] \in RemoveTask /\ t[p].cmd \in Starred
      BY ONLY <3>1, <1>2, <1>10
    <3>3. p # m + N => t[p].cmd = "*remove"
      BY ONLY <3>1, <1>2, <1>10
    <3>4. t[p].do = "unlink" => t[p].idx \in DOMAIN l[t[p].lev]
      <4>1. CASE q = 1
        <5>1. t[p].idx = i /\ t[p].lev = k
          BY ONLY <4>1, <3>1, <1>5
        <5> QED BY ONLY <5>1, <1>0
      <4>2. CASE q # 1
        <5>1. q \in 2..N
          BY ONLY <4>2, <1>1, q \in 1..N
        <5>2. t[p] = todo[q]
          BY ONLY <5>1, <3>1, <1>6
        <5> QED BY ONLY <5>2, <1>2, q \in 1..N
      <4> QED BY ONLY <4>1, <4>2
    <3> QED BY ONLY <3>2, <3>3, <3>4
  <2> QED BY ONLY <2>2, <2>3
<1>15. ASSUME NEW p \in 1..(m + N), NEW q \in 1..(m + N), p < q
       PROVE  \/ t[p].lev > t[q].lev
              \/ t[p].lev = t[q].lev /\ t[p].idx > t[q].idx
  <2>1. CASE p \in 1..m /\ q \in 1..m
    <3>1. t[p].lev = t[q].lev /\ t[p].idx = d[p] /\ t[q].idx = d[q]
      BY ONLY <2>1, <1>4
    <3>2. d[p] > d[q]
      BY <2>1, <1>15
    <3> QED BY ONLY <3>1, <3>2
  <2>2. CASE p \in 1..m /\ q \notin 1..m
    <3>1. PICK y \in 1..N : q = m + y
      BY ONLY <2>2, <1>11, q \in 1..(m + N)
    <3>2. t[p].lev = k + 1
      BY ONLY <2>2, <1>4
    <3>3. t[q].lev \in Int /\ t[q].lev <= k
      BY ONLY <3>1, <1>10, <1>12, <1>13
    <3> QED BY ONLY <3>2, <3>3, <1>1
  <2>3. CASE p \notin 1..m
    <3>1. PICK x \in 1..N : p = m + x
      BY ONLY <2>3, <1>11, p \in 1..(m + N)
    <3>2. q \notin 1..m
      BY ONLY <2>3, <1>15, m \in Nat, p \in 1..(m + N), q \in 1..(m + N), <1>1
    <3>3. PICK y \in 1..N : q = m + y
      BY ONLY <3>2, <1>11, q \in 1..(m + N)
    <3>4. x < y
      BY ONLY <3>1, <3>3, <1>15, m \in Nat, <1>1
    <3>5. \/ todo[x].lev > todo[y].lev
          \/ todo[x].lev = todo[y].lev /\ todo[x].idx > todo[y].idx
      BY ONLY <3>4, <1>3, x \in 1..N, y \in 1..N
    <3>6. /\ t[p].lev = todo[x].lev /\ t[p].idx = todo[x].idx
          /\ t[q].lev = todo[y].lev /\ t[q].idx = todo[y].idx
      BY ONLY <3>1, <3>3, <1>10
    <3> QED BY ONLY <3>5, <3>6
  <2> QED BY ONLY <2>1, <2>2, <2>3
<1>16. Starry(t, l)
  <2>1. \A p \in DOMAIN t :
         /\ t[p] \in RemoveTask /\ t[p].cmd \in Starred
         /\ p # Len(t) => t[p].cmd = "*remove"
         /\ t[p].do = "unlink" => t[p].idx \in DOMAIN l[t[p].lev]
    BY ONLY <1>14, <1>0
  <2>2. \A p, q \in DOMAIN t : p < q =>
         \/ t[p].lev > t[q].lev
         \/ t[p].lev = t[q].lev /\ t[p].idx > t[q].idx
    BY ONLY <1>15, <1>0
  <2> QED BY ONLY <2>1, <2>2 DEF Starry
<1>17. ASSUME Guarded(todo, l) PROVE Guarded(t, l)
  <2>0. ASSUME NEW q \in DOMAIN t, t[q].do = "unlink",
               NEW u \in UsersIn(l, t[q].lev, t[q].idx)
        PROVE  \E p \in DOMAIN t : p < q /\ t[p].lev = t[q].lev + 1 /\ t[p].idx = u
    <3>1. q \in 1..(m + N) /\ t[q].do = "unlink" /\ DOMAIN t = 1..(m + N)
      BY ONLY <1>0, <2>0, q \in DOMAIN t
    <3>2. q \notin 1..m
      BY ONLY <3>1, <1>4
    <3>3. PICK y \in 1..N : q = m + y
      BY ONLY <3>1, <3>2, <1>11
    <3>4. CASE y = 1
      <4>1. t[q].lev = k /\ t[q].idx = i /\ q = m + 1
        BY ONLY <3>3, <3>4, <1>5
      <4>2. u \in UsersIn(l, k, i)
        BY ONLY <4>1, u \in UsersIn(l, t[q].lev, t[q].idx)
      <4>3. PICK j \in 1..m : d[j] = u
        BY <4>2
      <4>4. j \in 1..(m + N) /\ j < q
        BY ONLY <4>1, <1>1, m \in Nat, j \in 1..m
      <4>5. t[j].lev = k + 1 /\ t[j].idx = u
        BY ONLY <4>3, <1>4
      <4> QED BY ONLY <4>1, <4>4, <4>5, <3>1
    <3>5. CASE y # 1
      <4>1. y \in 2..N
        BY ONLY <3>5, y \in 1..N, <1>1
      <4>2. t[q] = todo[y]
        BY ONLY <4>1, <3>3, <1>6
      <4>6. todo[y].do = "unlink" /\ u \in UsersIn(l, todo[y].lev, todo[y].idx)
        BY ONLY <4>2, <3>1, u \in UsersIn(l, t[q].lev, t[q].idx)
      <4>3. PICK x \in 1..N : x < y /\ todo[x].lev = todo[y].lev + 1 /\ todo[x].idx = u
        BY ONLY <4>6, <1>17, y \in 1..N, <1>0 DEF Guarded
      <4>4. m + x \in 1..(m + N) /\ m + x < q
        BY ONLY <4>3, <3>3, <1>1, m \in Nat, x \in 1..N, y \in 1..N
      <4>5. t[m + x].lev = todo[x].lev /\ t[m + x].idx = todo[x].idx
        BY ONLY <1>10, x \in 1..N
      <4> QED BY ONLY <4>2, <4>3, <4>4, <4>5, <3>1
    <3> QED BY ONLY <3>4, <3>5
  <2> QED BY ONLY <2>0 DEF Guarded
<1> QED BY ONLY <1>16, <1>17

\* The record todo[1] removes after its users U.
Expanded(todo, U) ==
  [j \in 1..Cardinality(U) |-> Removal("*remove", todo[1].lev + 1, Descending(U)[j], TRUE)]
  \o <<[todo[1] EXCEPT !.do = "unlink"]>> \o Tail(todo)

LEMMA ExpandStarry ==
  ASSUME NEW todo \in Seq(TaskType), todo # <<>>, NEW l, Starry(todo, l),
         todo[1].lev # 4, todo[1].idx \in DOMAIN l[todo[1].lev],
         NEW n \in Nat, NEW U \in SUBSET (1..n), UsersIn(l, todo[1].lev, todo[1].idx) \subseteq U
  PROVE  /\ Expanded(todo, U) \in Seq(TaskType) /\ Starry(Expanded(todo, U), l)
         /\ Guarded(todo, l) => Guarded(Expanded(todo, U), l)
<1> PICK k : k = todo[1].lev
  OBVIOUS
<1> PICK i : i = todo[1].idx
  OBVIOUS
<1> PICK a : a = [j \in 1..Cardinality(U) |-> Removal("*remove", k + 1, Descending(U)[j], TRUE)]
  OBVIOUS
<1> PICK h : h = [todo[1] EXCEPT !.do = "unlink"]
  OBVIOUS
<1>0. k # 4 /\ i \in DOMAIN l[k] /\ UsersIn(l, k, i) \subseteq U
  OBVIOUS
<1> PICK m : m = Cardinality(U)
  OBVIOUS
<1> PICK N : N = Len(todo)
  OBVIOUS
<1> PICK d : d = Descending(U)
  OBVIOUS
<1>1. /\ N \in Nat \ {0} /\ DOMAIN todo = 1..N /\ Len(Tail(todo)) = N - 1
      /\ Tail(todo) \in Seq(TaskType)
      /\ \A p \in 1..(N - 1) : Tail(todo)[p] = todo[p + 1]
      /\ 1 \in 1..N
  <2>1. N \in Nat \ {0} /\ DOMAIN todo = 1..N
    BY RestFacts
  <2>2. Len(Tail(todo)) = N - 1 /\ Tail(todo) \in Seq(TaskType)
    BY RestFacts
  <2>3. \A p \in 1..(N - 1) : Tail(todo)[p] = todo[p + 1]
    BY RestFacts
  <2> QED BY <2>1, <2>2, <2>3
<1>2. /\ todo[1] \in RemoveTask /\ todo[1].cmd \in Starred /\ k \in 1..4 /\ k + 1 \in Levels
  <2>1. todo[1] \in RemoveTask /\ todo[1].cmd \in Starred
    BY <1>1 DEF Starry
  <2> QED BY <2>1 DEF RemoveTask, Levels
<1>3. /\ m \in Nat /\ d \in Seq(U) /\ Len(d) = m
      /\ \A x \in U : \E j \in 1..m : d[j] = x
      /\ \A j, p \in 1..m : j < p => d[j] > d[p]
      /\ \A j \in 1..m : d[j] \in Nat
  <2>1. /\ Descending(U) \in Seq(U) /\ Len(Descending(U)) = Cardinality(U)
        /\ \A x \in U : \E j \in 1..Len(Descending(U)) : Descending(U)[j] = x
        /\ \A j, p \in 1..Len(Descending(U)) : j < p => Descending(U)[j] > Descending(U)[p]
    BY DescendingFacts
  <2>2. d \in Seq(U) /\ Len(d) = m
    BY ONLY <2>1, d = Descending(U), m = Cardinality(U)
  <2>3. m \in Nat /\ \A j \in 1..m : d[j] \in U
    BY ONLY <2>2, LenProperties, ElementOfSeq
  <2>4. \A j \in 1..m : d[j] \in Nat
    BY <2>3
  <2> QED BY ONLY <2>1, <2>2, <2>3, <2>4, d = Descending(U)
<1>4. \A j \in 1..m :
        /\ a[j] \in RemoveTask /\ a[j].lev = k + 1 /\ a[j].idx = d[j]
        /\ a[j].do = "remove" /\ a[j].cmd = "*remove"
  <2>1. SUFFICES ASSUME NEW j \in 1..m
                 PROVE  /\ a[j] \in RemoveTask /\ a[j].lev = k + 1 /\ a[j].idx = d[j]
                        /\ a[j].do = "remove" /\ a[j].cmd = "*remove"
    OBVIOUS
  <2>2. a[j] = Removal("*remove", k + 1, d[j], TRUE)
    OBVIOUS
  <2>3. a[j] = [do |-> "remove", cmd |-> "*remove", lev |-> k + 1, idx |-> d[j], nested |-> TRUE]
    BY ONLY <2>2 DEF Removal
  <2>4. d[j] \in Nat
    BY <1>3
  <2> QED BY ONLY <2>3, <2>4, <1>2 DEF RemoveTask, Commands
<1>5. /\ h \in RemoveTask /\ h.lev = k /\ h.idx = i /\ h.cmd = todo[1].cmd /\ h.do = "unlink"
  BY <1>2 DEF RemoveTask
<1>6. a \in Seq(TaskType) /\ Len(a) = m /\ h \in TaskType
  <2>1. \A j \in 1..m : a[j] \in TaskType
    BY <1>4, TaskKinds
  <2>2. a \in [1..m -> TaskType]
    BY <2>1
  <2>3. h \in TaskType
    BY <1>5, TaskKinds
  <2> QED BY ONLY <2>2, <2>3, <1>3
<1> PICK t : t = a \o <<h>> \o Tail(todo)
  OBVIOUS
<1> PICK r : r = Tail(todo)
  OBVIOUS
<1> PICK c \in Nat : c = N - 1
  BY <1>1
<1>7. /\ t \in Seq(TaskType) /\ Len(t) = m + 1 + c
      /\ \A p \in 1..m : t[p] = a[p]
      /\ t[m + 1] = h
      /\ \A p \in 1..c : t[m + 1 + p] = r[p]
  <2>1. r \in Seq(TaskType) /\ Len(r) = c /\ m \in Nat
    BY ONLY <1>1, <1>3, r = Tail(todo), c = N - 1
  <2>2. t = a \o <<h>> \o r
    BY ONLY t = a \o <<h>> \o Tail(todo), r = Tail(todo)
  <2> PICK g : g = <<h>>
    OBVIOUS
  <2>4. g \in Seq(TaskType) /\ Len(g) = 1 /\ g[1] = h
    BY ONLY <1>6, g = <<h>>, OneElement
  <2>5. t = a \o g \o r
    BY ONLY <2>2, g = <<h>>
  <2> PICK b : b = a \o g
    OBVIOUS
  <2>3. /\ b \in Seq(TaskType) /\ Len(b) = Len(a) + Len(g)
        /\ \A p \in 1..(Len(a) + Len(g)) : b[p] = IF p <= Len(a) THEN a[p] ELSE g[p - Len(a)]
    BY ONLY <2>4, <1>6, b = a \o g, ConcatProperties
  <2>6. t = b \o r
    BY ONLY <2>5, b = a \o g
  <2>7. /\ t \in Seq(TaskType) /\ Len(t) = Len(b) + Len(r)
        /\ \A p \in 1..(Len(b) + Len(r)) : t[p] = IF p <= Len(b) THEN b[p] ELSE r[p - Len(b)]
    <3>1. b \in Seq(TaskType) /\ r \in Seq(TaskType)
      BY ONLY <2>1, <2>3
    <3>2. /\ b \o r \in Seq(TaskType) /\ Len(b \o r) = Len(b) + Len(r)
          /\ \A p \in 1..(Len(b) + Len(r)) :
               (b \o r)[p] = IF p <= Len(b) THEN b[p] ELSE r[p - Len(b)]
      BY ONLY <3>1, ConcatProperties, ZenonT(40)
    <3> QED BY ONLY <3>2, <2>6, ZenonT(40)
  <2>13. Len(b) = m + 1
    BY ONLY <2>1, <2>3, <2>4, <1>6
  <2>14. b[m + 1] = h
    <3>1. m + 1 \in 1..(m + 1) /\ ~(m + 1 <= m) /\ (m + 1) - m = 1
      BY ONLY <2>1
    <3> QED BY ONLY <3>1, <2>3, <2>4, <1>6
  <2>15. ASSUME NEW p \in 1..m PROVE b[p] = a[p]
    <3>1. p \in 1..(m + 1) /\ p <= m
      BY ONLY <2>1, p \in 1..m
    <3> QED BY ONLY <3>1, <2>3, <2>4, <1>6
  <2>16. ASSUME NEW p \in 1..(m + 1) PROVE t[p] = b[p]
    <3>1. p \in 1..(m + 1 + c) /\ p <= m + 1
      BY ONLY <2>1, p \in 1..(m + 1), c \in Nat
    <3> QED BY ONLY <3>1, <2>1, <2>7, <2>13
  <2>9. t \in Seq(TaskType) /\ Len(t) = m + 1 + c
    BY ONLY <2>1, <2>7, <2>13, c \in Nat
  <2>10. ASSUME NEW p \in 1..m PROVE t[p] = a[p]
    <3>1. p \in 1..(m + 1)
      BY ONLY <2>1, p \in 1..m
    <3>2. t[p] = b[p]
      BY ONLY <3>1, <2>16
    <3>3. b[p] = a[p]
      BY ONLY <2>15, p \in 1..m
    <3> QED BY ONLY <3>2, <3>3
  <2>11. t[m + 1] = h
    <3>1. m + 1 \in 1..(m + 1)
      BY ONLY <2>1
    <3> QED BY ONLY <3>1, <2>14, <2>16
  <2>12. ASSUME NEW p \in 1..c PROVE t[m + 1 + p] = r[p]
    <3>1. /\ m + 1 + p \in 1..(m + 1 + c) /\ ~(m + 1 + p <= m + 1)
          /\ (m + 1 + p) - (m + 1) = p
      BY ONLY <2>1, p \in 1..c, c \in Nat
    <3> QED BY ONLY <3>1, <2>1, <2>7, <2>13
  <2> QED BY ONLY <2>9, <2>10, <2>11, <2>12
<1>8. Len(t) = m + N /\ DOMAIN t = 1..(m + N)
  <2>1. m + 1 + c = m + N /\ m + N \in Nat
    BY ONLY <1>1, <1>3, c = N - 1
  <2> QED BY ONLY <1>7, <2>1, LenProperties
<1>9. ASSUME NEW p \in 2..N PROVE t[m + p] = todo[p]
  <2> PICK q : q = p - 1
    OBVIOUS
  <2>1. q \in 1..c /\ m + 1 + q = m + p /\ q + 1 = p /\ q \in 1..(N - 1)
    BY ONLY q = p - 1, c = N - 1, <1>1, <1>3, p \in 2..N
  <2>2. t[m + 1 + q] = r[q]
    BY ONLY <1>7, <2>1
  <2>3. r[q] = todo[q + 1]
    BY ONLY <1>1, <2>1, r = Tail(todo)
  <2> QED BY ONLY <2>1, <2>2, <2>3
<1>10. \A j \in 1..m : /\ t[j] \in RemoveTask /\ t[j].lev = k + 1 /\ t[j].idx = d[j]
                       /\ t[j].do = "remove" /\ t[j].cmd = "*remove"
  BY ONLY <1>4, <1>7
<1>11. /\ t[m + 1] \in RemoveTask /\ t[m + 1].lev = k /\ t[m + 1].idx = i
       /\ t[m + 1].cmd = todo[1].cmd /\ t[m + 1].do = "unlink"
  BY ONLY <1>5, <1>7
<1>12. \A u \in UsersIn(l, k, i) : \E j \in 1..m : d[j] = u
  BY ONLY <1>0, <1>3
<1>13. Starry(t, l) /\ (Guarded(todo, l) => Guarded(t, l))
  <2>1. d \in Seq(Nat)
    <3>1. d \in [1..m -> Nat]
      BY <1>3
    <3> QED BY ONLY <3>1, <1>3
  <2>2. \A j, p \in 1..Len(d) : j < p => d[j] > d[p]
    BY ONLY <1>3
  <2>3. \A p \in 2..Len(todo) : t[Len(d) + p] = todo[p]
    BY ONLY <1>3, <1>9, N = Len(todo)
  <2>4. Len(t) = Len(d) + Len(todo)
    BY ONLY <1>3, <1>8, N = Len(todo)
  <2>5. todo[1].lev # 4 /\ todo[1].idx \in DOMAIN l[todo[1].lev]
    BY ONLY <1>0, k = todo[1].lev, i = todo[1].idx
  <2>6. \A u \in UsersIn(l, todo[1].lev, todo[1].idx) : \E j \in 1..Len(d) : d[j] = u
    BY ONLY <1>3, <1>12, k = todo[1].lev, i = todo[1].idx
  <2>7. \A j \in 1..Len(d) :
            /\ t[j] \in RemoveTask /\ t[j].lev = todo[1].lev + 1 /\ t[j].idx = d[j]
            /\ t[j].do = "remove" /\ t[j].cmd = "*remove"
    BY ONLY <1>3, <1>10, k = todo[1].lev
  <2>8. LET x == t[Len(d) + 1] IN
            /\ x \in RemoveTask /\ x.lev = todo[1].lev /\ x.idx = todo[1].idx
            /\ x.cmd = todo[1].cmd /\ x.do = "unlink"
    BY ONLY <1>3, <1>11, k = todo[1].lev, i = todo[1].idx
  <2>9. t \in Seq(TaskType)
    BY ONLY <1>7
  <2> QED
    BY ONLY <2>1, <2>2, <2>3, <2>4, <2>5, <2>6, <2>7, <2>8, <2>9, todo \in Seq(TaskType),
            todo # <<>>, Starry(todo, l), ExpandOrder
<1>14. t = Expanded(todo, U)
  BY DEF Expanded
<1> QED BY ONLY <1>7, <1>13, <1>14

\* What is left to do when a record that was removed was the first of a row.
LEMMA DropStarry ==
  ASSUME NEW R, NEW l, ListsOK(R, l), NEW todo \in Seq(TaskType), todo # <<>>, Starry(todo, l),
         NEW k, k = todo[1].lev, NEW i, i = todo[1].idx, i \in DOMAIN l[k]
  PROVE  LET d == DropList(l, k, i) IN
         Starry(Tail(todo), d) /\ (Guarded(todo, l) => Guarded(Tail(todo), d))
<1> PICK d : d = DropList(l, k, i)
  OBVIOUS
<1> PICK r : r = Tail(todo)
  OBVIOUS
<1> PICK N : N = Len(todo)
  OBVIOUS
<1> PICK n : n = Len(l[k])
  OBVIOUS
<1>1. /\ N \in Nat \ {0} /\ DOMAIN todo = 1..N /\ DOMAIN r = 1..(N - 1)
      /\ \A p \in 1..(N - 1) : r[p] = todo[p + 1] /\ p + 1 \in 1..N
  BY RestFacts
<1>2. 1 \in 1..N /\ \A p \in 1..(N - 1) : 1 < p + 1 /\ p + 1 \in Nat
  BY ONLY <1>1
<1>3. \A p \in 1..N : /\ todo[p] \in RemoveTask
                      /\ todo[p].do = "unlink" => todo[p].idx \in DOMAIN l[todo[p].lev]
  BY <1>1 DEF Starry
<1>4. \A p, q \in 1..N : p < q =>
         \/ todo[p].lev > todo[q].lev
         \/ todo[p].lev = todo[q].lev /\ todo[p].idx > todo[q].idx
  BY <1>1 DEF Starry
<1>5. \A p \in 1..N : todo[p].lev \in 1..4 /\ todo[p].idx \in Nat
  BY ONLY <1>3 DEF RemoveTask, Levels
<1>6. k \in 1..4 /\ i \in Nat /\ k \in Levels
  <2>1. todo[1].lev \in 1..4 /\ todo[1].idx \in Nat
    BY ONLY <1>2, <1>5
  <2> QED BY ONLY <2>1, k = todo[1].lev, i = todo[1].idx DEF Levels
<1>7. ASSUME NEW p \in 1..N, p # 1
      PROVE  todo[p].lev < k \/ (todo[p].lev = k /\ todo[p].idx < i)
  <2>1. 1 < p /\ p \in 1..N
    BY ONLY <1>1, <1>7, p \in 1..N
  <2>2. \/ todo[1].lev > todo[p].lev
        \/ todo[1].lev = todo[p].lev /\ todo[1].idx > todo[p].idx
    BY ONLY <2>1, <1>2, <1>4
  <2>3. todo[p].lev \in 1..4 /\ todo[p].idx \in Nat
    BY ONLY <2>1, <1>5
  <2> QED BY ONLY <2>2, <2>3, <1>6, k = todo[1].lev, i = todo[1].idx
<1>8. /\ d \in [Levels -> Seq(Entry)]
      /\ DOMAIN l[k] = 1..n /\ n \in Nat /\ DOMAIN d[k] = 1..(n - 1)
      /\ \A u \in DOMAIN d[k] : d[k][u] = l[k][Before(u, i)] /\ Before(u, i) \in DOMAIN l[k]
      /\ k + 1 \in Levels =>
           /\ DOMAIN d[k + 1] = DOMAIN l[k + 1]
           /\ \A u \in DOMAIN l[k + 1] :
                /\ DOMAIN d[k + 1][u].refs = DOMAIN l[k + 1][u].refs
                /\ \A j \in DOMAIN l[k + 1][u].refs :
                     d[k + 1][u].refs[j] = Renumber(l[k + 1][u].refs[j], i)
      /\ \A m \in Levels : m # k /\ m # k + 1 => d[m] = l[m]
  <2>1. ListsOK(R, l) /\ k \in Levels /\ i \in DOMAIN l[k]
    BY <1>6
  <2>2. /\ DropList(l, k, i) \in [Levels -> Seq(Entry)]
        /\ DOMAIN l[k] = 1..Len(l[k]) /\ Len(l[k]) \in Nat
        /\ DOMAIN DropList(l, k, i)[k] = 1..(Len(l[k]) - 1)
        /\ \A u \in DOMAIN DropList(l, k, i)[k] :
             DropList(l, k, i)[k][u] = l[k][Before(u, i)] /\ Before(u, i) \in DOMAIN l[k]
        /\ k + 1 \in Levels =>
             /\ DOMAIN DropList(l, k, i)[k + 1] = DOMAIN l[k + 1]
             /\ \A u \in DOMAIN l[k + 1] :
                  /\ DropList(l, k, i)[k + 1][u].name = l[k + 1][u].name
                  /\ DropList(l, k, i)[k + 1][u].off = l[k + 1][u].off
                  /\ Len(DropList(l, k, i)[k + 1][u].refs) = Len(l[k + 1][u].refs)
                  /\ DOMAIN DropList(l, k, i)[k + 1][u].refs = DOMAIN l[k + 1][u].refs
                  /\ \A j \in DOMAIN l[k + 1][u].refs :
                       DropList(l, k, i)[k + 1][u].refs[j] = Renumber(l[k + 1][u].refs[j], i)
        /\ \A m \in Levels : m # k /\ m # k + 1 => DropList(l, k, i)[m] = l[m]
    BY ONLY <2>1, DropFacts
  <2> QED BY ONLY <2>2, d = DropList(l, k, i), n = Len(l[k])
<1>9. ASSUME NEW p \in 1..N, p # 1, todo[p].do = "unlink" PROVE todo[p].idx \in DOMAIN d[todo[p].lev]
  <2>1. todo[p].idx \in DOMAIN l[todo[p].lev]
    BY <1>3, <1>9
  <2>2. CASE todo[p].lev = k /\ todo[p].idx < i
    <3>1. todo[p].idx \in 1..n /\ i \in 1..n
      BY <2>1, <2>2, <1>8
    <3>2. todo[p].idx \in 1..(n - 1)
      BY ONLY <3>1, <2>2, <1>8
    <3> QED BY ONLY <3>2, <2>2, <1>8
  <2>3. CASE todo[p].lev < k
    <3>1. todo[p].lev \in Levels /\ todo[p].lev # k /\ todo[p].lev # k + 1
      BY ONLY <2>3, <1>5, <1>6, p \in 1..N DEF Levels
    <3>2. d[todo[p].lev] = l[todo[p].lev]
      BY ONLY <3>1, <1>8
    <3> QED BY ONLY <3>2, <2>1
  <2> QED BY ONLY <2>2, <2>3, <1>7, <1>9, p \in 1..N
<1>10. Starry(r, d)
  <2>1. Starry(r, l)
    BY RestShape
  <2>2. \A p \in DOMAIN r : r[p].do = "unlink" => r[p].idx \in DOMAIN d[r[p].lev]
    <3>1. SUFFICES ASSUME NEW p \in 1..(N - 1), r[p].do = "unlink"
                   PROVE  r[p].idx \in DOMAIN d[r[p].lev]
      BY <1>1
    <3>2. r[p] = todo[p + 1] /\ p + 1 \in 1..N /\ p + 1 # 1
      BY ONLY <1>1, <1>2, p \in 1..(N - 1)
    <3>3. todo[p + 1].do = "unlink"
      BY <3>1, <3>2
    <3>4. todo[p + 1].idx \in DOMAIN d[todo[p + 1].lev]
      BY ONLY <3>2, <3>3, <1>9
    <3> QED BY ONLY <3>2, <3>4
  <2> QED BY ONLY <2>1, <2>2 DEF Starry
<1>11. ASSUME Guarded(todo, l),
              NEW q \in 1..N, q # 1, todo[q].do = "unlink",
              NEW u \in UsersIn(d, todo[q].lev, todo[q].idx)
       PROVE  \E p \in 1..N : p # 1 /\ p < q /\ todo[p].lev = todo[q].lev + 1 /\ todo[p].idx = u
  <2> PICK m : m = todo[q].lev
    OBVIOUS
  <2> PICK x : x = todo[q].idx
    OBVIOUS
  <2>1. m \in 1..4 /\ x \in Nat /\ (m < k \/ (m = k /\ x < i))
    BY ONLY <1>5, <1>7, <1>11, q \in 1..N, m = todo[q].lev, x = todo[q].idx
  <2>2. ASSUME NEW v \in UsersIn(l, m, x)
        PROVE  \E p \in 1..N : p < q /\ todo[p].lev = m + 1 /\ todo[p].idx = v
    <3>1. v \in UsersIn(l, todo[q].lev, todo[q].idx)
      BY ONLY v \in UsersIn(l, m, x), m = todo[q].lev, x = todo[q].idx
    <3>2. \E p \in DOMAIN todo : p < q /\ todo[p].lev = todo[q].lev + 1 /\ todo[p].idx = v
      BY ONLY <3>1, <1>1, <1>11, q \in 1..N DEF Guarded
    <3> QED BY ONLY <3>2, <1>1, m = todo[q].lev
  <2>3. u \in UsersIn(d, m, x)
    BY ONLY u \in UsersIn(d, todo[q].lev, todo[q].idx), m = todo[q].lev, x = todo[q].idx
  <2>4. m # 4 /\ m + 1 \in Levels /\ u \in DOMAIN d[m + 1] /\ x \in Range(d[m + 1][u].refs)
    <3>1. m # 4
      BY ONLY <2>3 DEF UsersIn
    <3>2. u \in DOMAIN d[m + 1] /\ x \in Range(d[m + 1][u].refs)
      BY ONLY <2>3, <3>1 DEF UsersIn
    <3>3. m + 1 \in Levels
      BY ONLY <3>1, <2>1 DEF Levels
    <3> QED BY ONLY <3>1, <3>2, <3>3
  <2>5. CASE m = k
    <3>1. x < i
      BY ONLY <2>1, <2>5, <1>6
    <3>2. u \in DOMAIN l[k + 1] /\ k + 1 \in Levels
      BY ONLY <2>4, <2>5, <1>8
    <3>3. PICK j \in DOMAIN l[k + 1][u].refs : x = Renumber(l[k + 1][u].refs[j], i)
      <4>1. PICK j \in DOMAIN d[k + 1][u].refs : x = d[k + 1][u].refs[j]
        BY ONLY <2>4, <2>5 DEF Range
      <4> QED BY ONLY <4>1, <3>2, <1>8
    <3>4. l[k + 1][u].refs[j] \in Nat
      <4>1. l[k + 1] \in Seq(Entry)
        BY <3>2 DEF ListsOK
      <4>2. l[k + 1][u] \in Entry
        BY ONLY <4>1, <3>2
      <4>3. l[k + 1][u].refs \in Seq(Nat)
        BY ONLY <4>2 DEF Entry
      <4> QED BY ONLY <4>3, j \in DOMAIN l[k + 1][u].refs
    <3>5. l[k + 1][u].refs[j] = x
      BY ONLY <3>1, <3>3, <3>4, <1>6, <2>1 DEF Renumber
    <3>6. u \in UsersIn(l, m, x)
      <4>1. x \in Range(l[k + 1][u].refs)
        BY ONLY <3>5, j \in DOMAIN l[k + 1][u].refs DEF Range
      <4> QED BY ONLY <4>1, <3>2, <2>4, <2>5 DEF UsersIn
    <3>7. PICK p \in 1..N : p < q /\ todo[p].lev = m + 1 /\ todo[p].idx = u
      BY ONLY <3>6, <2>2
    <3>8. p # 1
      BY ONLY <3>7, <2>5, <1>6, k = todo[1].lev
    <3> QED BY ONLY <3>7, <3>8, m = todo[q].lev
  <2>6. CASE m + 1 = k
    <3>1. u \in 1..(n - 1)
      BY ONLY <2>4, <2>6, <1>8
    <3> PICK v : v = Before(u, i)
      OBVIOUS
    <3>2. v \in DOMAIN l[k] /\ d[k][u] = l[k][v]
      BY ONLY <2>4, <2>6, <1>8, v = Before(u, i)
    <3>3. v \in UsersIn(l, m, x)
      BY ONLY <3>2, <2>4, <2>6 DEF UsersIn
    <3>4. PICK p \in 1..N : p < q /\ todo[p].lev = m + 1 /\ todo[p].idx = v
      BY ONLY <3>3, <2>2
    <3>5. v # i
      BY ONLY <3>1, <1>6, v = Before(u, i) DEF Before
    <3>6. p # 1
      BY ONLY <3>4, <3>5, i = todo[1].idx
    <3>7. v < i
      BY ONLY <3>4, <3>6, <2>6, <1>6, <1>7, p \in 1..N
    <3>8. v = u
      BY ONLY <3>1, <3>7, <1>6, v = Before(u, i) DEF Before
    <3> QED BY ONLY <3>4, <3>6, <3>8, m = todo[q].lev
  <2>7. CASE m + 1 < k
    <3>1. m + 1 \in Levels /\ m + 1 # k /\ m + 1 # k + 1
      BY ONLY <2>4, <2>7, <2>1, <1>6
    <3>2. d[m + 1] = l[m + 1]
      BY ONLY <3>1, <1>8
    <3>3. u \in UsersIn(l, m, x)
      BY ONLY <3>2, <2>4 DEF UsersIn
    <3>4. PICK p \in 1..N : p < q /\ todo[p].lev = m + 1 /\ todo[p].idx = u
      BY ONLY <3>3, <2>2
    <3>5. p # 1
      BY ONLY <3>4, <3>1, k = todo[1].lev
    <3> QED BY ONLY <3>4, <3>5, m = todo[q].lev
  <2> QED BY ONLY <2>1, <2>5, <2>6, <2>7, <1>6
<1>12. ASSUME Guarded(todo, l) PROVE Guarded(r, d)
  <2>1. ASSUME NEW q \in DOMAIN r, r[q].do = "unlink", NEW u \in UsersIn(d, r[q].lev, r[q].idx)
        PROVE  \E p \in DOMAIN r : p < q /\ r[p].lev = r[q].lev + 1 /\ r[p].idx = u
    <3>1. q \in 1..(N - 1)
      BY ONLY <1>1, q \in DOMAIN r
    <3>2. r[q] = todo[q + 1] /\ q + 1 \in 1..N /\ q + 1 # 1
      BY ONLY <3>1, <1>1, <1>2
    <3>3. todo[q + 1].do = "unlink" /\ u \in UsersIn(d, todo[q + 1].lev, todo[q + 1].idx)
      BY ONLY <3>2, <2>1, u \in UsersIn(d, r[q].lev, r[q].idx)
    <3>4. PICK p \in 1..N : /\ p # 1 /\ p < q + 1
                            /\ todo[p].lev = todo[q + 1].lev + 1 /\ todo[p].idx = u
      BY ONLY <3>2, <3>3, <1>11, <1>12
    <3>5. p - 1 \in 1..(N - 1) /\ p - 1 < q /\ (p - 1) + 1 = p
      BY ONLY <3>1, <3>4, <1>1, p \in 1..N
    <3>6. p - 1 \in DOMAIN r /\ r[p - 1] = todo[p]
      BY ONLY <3>5, <1>1
    <3> QED BY ONLY <3>2, <3>4, <3>5, <3>6
  <2> QED BY ONLY <2>1 DEF Guarded
<1> QED BY ONLY <1>10, <1>12, d = DropList(l, k, i), r = Tail(todo)

\* ... with the removals of what a purged record used.
LEMMA UnlinkShape ==
  ASSUME NEW R, NEW l, ListsOK(R, l), NEW todo \in Seq(TaskType), todo # <<>>,
         Plain(todo) \/ Starry(todo, l),
         NEW k, k = todo[1].lev, NEW i, i = todo[1].idx, i \in DOMAIN l[k],
         NEW refs \in Seq(Nat), Uses(k, refs)
  PROVE  LET t == PurgeBelow(todo[1].cmd, k, refs) \o Tail(todo)
             d == DropList(l, k, i)
         IN  t \in Seq(TaskType) /\ Shape(t, d) /\ (Guarded(todo, l) => Guarded(t, d))
<1> PICK d : d = DropList(l, k, i)
  OBVIOUS
<1> PICK r : r = Tail(todo)
  OBVIOUS
<1> PICK a : a = PurgeBelow(todo[1].cmd, k, refs)
  OBVIOUS
<1> PICK N : N = Len(todo)
  OBVIOUS
<1>1. /\ r \in Seq(TaskType) /\ N \in Nat \ {0} /\ DOMAIN todo = 1..N
      /\ DOMAIN r = 1..(N - 1) /\ Len(r) = N - 1
  BY RestFacts
<1>2. todo[1] \in RemoveTask
  <2>1. 1 \in DOMAIN todo
    BY ONLY <1>1
  <2> QED BY <2>1 DEF Plain, Starry
<1>3. todo[1].cmd \in Commands /\ k \in Levels
  BY ONLY <1>2, k = todo[1].lev DEF RemoveTask
<1>4. a \in Seq(TaskType) /\ Plain(a)
  <2>1. PurgeBelow(todo[1].cmd, k, refs) \in Seq(TaskType) /\ Plain(PurgeBelow(todo[1].cmd, k, refs))
    BY ONLY <1>3, refs \in Seq(Nat), Uses(k, refs), PurgePlain
  <2> QED BY ONLY <2>1, a = PurgeBelow(todo[1].cmd, k, refs)
<1>5. ASSUME Plain(r) PROVE a \o r \in Seq(TaskType) /\ Shape(a \o r, d) /\ Guarded(a \o r, d)
  <2>1. a \o r \in Seq(TaskType) /\ Plain(a \o r)
    BY ONLY <1>1, <1>4, <1>5, PlainConcat
  <2>2. Guarded(a \o r, d)
    BY ONLY <2>1, GuardedPlain
  <2> QED BY ONLY <2>1, <2>2 DEF Shape
<1>6. CASE Plain(todo)
  <2>1. Plain(r)
    BY ONLY <1>6, RestShape, todo \in Seq(TaskType), todo # <<>>, r = Tail(todo)
  <2> QED BY ONLY <2>1, <1>5, d = DropList(l, k, i), r = Tail(todo), a = PurgeBelow(todo[1].cmd, k, refs)
<1>7. CASE Starry(todo, l) /\ todo[1].cmd = "*remove"
  <2>1. a = <<>>
    BY ONLY <1>7, a = PurgeBelow(todo[1].cmd, k, refs) DEF PurgeBelow, Purging
  <2>2. a \o r = r
    BY ONLY <2>1, <1>1, ConcatEmptySeq
  <2>3. Starry(r, d) /\ (Guarded(todo, l) => Guarded(r, d))
    BY <1>7, DropStarry
  <2>4. Shape(r, d)
    BY ONLY <2>3 DEF Shape
  <2>5. /\ a \o r \in Seq(TaskType) /\ Shape(a \o r, d)
        /\ (Guarded(todo, l) => Guarded(a \o r, d))
    BY ONLY <1>1, <2>2, <2>3, <2>4
  <2> QED BY ONLY <2>5, d = DropList(l, k, i), r = Tail(todo), a = PurgeBelow(todo[1].cmd, k, refs)
<1>8. CASE Starry(todo, l) /\ todo[1].cmd # "*remove"
  <2>1. N = 1
    <3>1. 1 \in DOMAIN todo
      BY ONLY <1>1
    <3> QED BY ONLY <3>1, <1>8, N = Len(todo) DEF Starry
  <2>2. DOMAIN r = {}
    BY ONLY <2>1, <1>1
  <2>3. Plain(r)
    BY ONLY <2>2 DEF Plain
  <2> QED BY ONLY <2>3, <1>5, d = DropList(l, k, i), r = Tail(todo), a = PurgeBelow(todo[1].cmd, k, refs)
<1> QED BY <1>6, <1>7, <1>8

(***************************************************************************)
(* The states of a call, and the structures of a file.                     *)
(***************************************************************************)
LEMMA CallParts ==
  ASSUME NEW c \in CallType
  PROVE  /\ c.todo \in Seq(TaskType) /\ c.vs \in VSType
         /\ c.err \in BOOLEAN /\ c.raised \in BOOLEAN /\ c.missed \in BOOLEAN /\ c.exact \in BOOLEAN
         /\ c.from \in Holders /\ c.to \in Vars \cup {Nowhere}
  BY DEF CallType, TaskType

LEMMA NotNoVS ==
  \A v \in VSType : v # NoVS
<1>1. SUFFICES ASSUME NEW v \in VSType PROVE v # NoVS
  OBVIOUS
<1>2. DOMAIN v = {"list", "bare"}
  BY DEF VSType
<1>3. DOMAIN NoVS = {}
  BY DEF NoVS
<1> QED BY <1>2, <1>3

\* What is read from a file is a structure.
LEMMA StructureOK ==
  ASSUME NEW L, FileOK(records, L)
  PROVE  VSOK(Structure(L), records) /\ Structure(L).list = Read(records, L)
<1> PICK s : s = Structure(L)
  OBVIOUS
<1>1. s.list = Read(records, L) /\ s.bare = {k \in Levels : At(L, k) = {}}
  BY ONLY s = Structure(L), StructureIsRead
<1>2. ListsOK(records, Read(records, L))
  BY ReadOK
<1>3. s = [list |-> s.list, bare |-> s.bare]
  BY DEF Structure
<1>4. s.list \in [Levels -> Seq(Entry)] /\ s.bare \in SUBSET Levels
  BY ONLY <1>1, <1>2 DEF ListsOK
<1>5. s \in VSType
  BY ONLY <1>3, <1>4 DEF VSType
<1>6. ASSUME NEW k \in s.bare PROVE s.list[k] = <<>>
  <2>1. k \in Levels /\ At(L, k) = {}
    BY ONLY <1>1, k \in s.bare
  <2>2. /\ DOMAIN Read(records, L)[k] = DOMAIN Offs(records, L, k)
    BY ONLY <2>1, FileOK(records, L), ReadFacts
  <2>3. \A i \in DOMAIN Offs(records, L, k) :
           Offs(records, L, k)[i] \in L /\ records[Offs(records, L, k)[i]].lev = k
    BY ONLY FileOK(records, L), OffsFacts
  <2>4. DOMAIN Offs(records, L, k) = {}
    BY ONLY <2>1, <2>3 DEF At
  <2>5. Read(records, L)[k] \in Seq(Entry) /\ DOMAIN Read(records, L)[k] = {}
    BY ONLY <2>1, <2>2, <2>4, <1>2 DEF ListsOK
  <2>6. Read(records, L)[k] = <<>>
    <3> PICK x : x = Read(records, L)[k]
      OBVIOUS
    <3>1. x \in Seq(Entry) /\ DOMAIN x = {} /\ DOMAIN x = 1..Len(x) /\ Len(x) \in Nat
      BY ONLY <2>5, x = Read(records, L)[k], LenProperties
    <3>2. Len(x) = 0
      BY ONLY <3>1
    <3> QED BY ONLY <3>1, <3>2, EmptySeq, x = Read(records, L)[k]
  <2> QED BY ONLY <2>6, <1>1
<1> QED BY ONLY <1>1, <1>2, <1>5, <1>6, s = Structure(L) DEF VSOK

\* A record that is appended changes nothing for the others.
LEMMA AppendFacts ==
  ASSUME NEW R \in Seq(RecordType), NEW r \in RecordType
  PROVE  /\ Append(R, r) \in Seq(RecordType) /\ Len(Append(R, r)) = Len(R) + 1
         /\ Len(R) \in Nat /\ Append(R, r)[Len(R) + 1] = r
         /\ \A o \in 1..Len(R) : Append(R, r)[o] = R[o] /\ o \in 1..(Len(R) + 1)
  OBVIOUS

LEMMA ListsLater ==
  ASSUME NEW R \in Seq(RecordType), NEW r \in RecordType, NEW l, ListsOK(R, l)
  PROVE  ListsOK(Append(R, r), l) /\ (SoundIn(R, l) => SoundIn(Append(R, r), l))
<1> PICK A : A = Append(R, r)
  OBVIOUS
<1>1. Len(A) = Len(R) + 1 /\ \A o \in 1..Len(R) : A[o] = R[o] /\ o \in 1..Len(A)
  BY ONLY R \in Seq(RecordType), r \in RecordType, A = Append(R, r), AppendFacts
<1>2. \A k \in Levels : \A i \in DOMAIN l[k] : l[k][i].off \in 1..Len(R)
  BY DEF ListsOK
<1>3. ListsOK(A, l)
  BY ONLY <1>1, ListsOK(R, l) DEF ListsOK
<1>4. \A k \in Levels : \A i \in DOMAIN l[k] : A[l[k][i].off] = R[l[k][i].off]
  BY ONLY <1>1, <1>2
<1>5. SoundIn(R, l) => SoundIn(A, l)
  BY ONLY <1>4 DEF SoundIn
<1> QED BY ONLY <1>3, <1>5, A = Append(R, r)

LEMMA VSLater ==
  ASSUME NEW R \in Seq(RecordType), NEW r \in RecordType, NEW v, VSOK(v, R)
  PROVE  VSOK(v, Append(R, r))
<1>1. ListsOK(R, v.list)
  BY DEF VSOK
<1>2. ListsOK(Append(R, r), v.list)
  BY <1>1, ListsLater
<1> QED BY <1>2 DEF VSOK

LEMMA ReadLater ==
  ASSUME NEW R \in Seq(RecordType), NEW r \in RecordType, NEW L \in SUBSET (1..Len(R)), FileOK(R, L)
  PROVE  Read(Append(R, r), L) = Read(R, L)
<1> PICK A : A = Append(R, r)
  OBVIOUS
<1>1. \A o \in L : A[o] = R[o]
  BY ONLY R \in Seq(RecordType), r \in RecordType, L \in SUBSET (1..Len(R)), A = Append(R, r), AppendFacts
<1>2. \A k : Offs(A, L, k) = Offs(R, L, k)
  <2>1. \A k : {o \in L : A[o].lev = k} = {o \in L : R[o].lev = k}
    BY ONLY <1>1
  <2> QED BY ONLY <2>1 DEF Offs
<1>3. \A k : \A i \in DOMAIN Offs(R, L, k) : A[Offs(R, L, k)[i]] = R[Offs(R, L, k)[i]]
  <2>1. SUFFICES ASSUME NEW k, NEW i \in DOMAIN Offs(R, L, k)
                 PROVE  A[Offs(R, L, k)[i]] = R[Offs(R, L, k)[i]]
    OBVIOUS
  <2>2. \A j \in DOMAIN Offs(R, L, k) : Offs(R, L, k)[j] \in L /\ R[Offs(R, L, k)[j]].lev = k
    BY ONLY FileOK(R, L), OffsFacts
  <2> QED BY ONLY <2>2, <1>1, i \in DOMAIN Offs(R, L, k)
<1>4. \A k : NamesOf(A, L, k) = NamesOf(R, L, k)
  <2>1. SUFFICES ASSUME NEW k PROVE NamesOf(A, L, k) = NamesOf(R, L, k)
    OBVIOUS
  <2>2. \A i \in DOMAIN Offs(R, L, k) :
          [name |-> A[Offs(R, L, k)[i]].name] = [name |-> R[Offs(R, L, k)[i]].name]
    BY ONLY <1>3
  <2> QED BY ONLY <2>2, <1>2 DEF NamesOf
<1>5. \A k : \A i \in DOMAIN Offs(R, L, k) :
        EntryOf(A, L, k, Offs(A, L, k)[i]) = EntryOf(R, L, k, Offs(R, L, k)[i])
  <2>1. SUFFICES ASSUME NEW k, NEW i \in DOMAIN Offs(R, L, k)
                 PROVE  EntryOf(A, L, k, Offs(A, L, k)[i]) = EntryOf(R, L, k, Offs(R, L, k)[i])
    OBVIOUS
  <2> PICK o : o = Offs(R, L, k)[i]
    OBVIOUS
  <2>2. A[o] = R[o] /\ Offs(A, L, k)[i] = o
    BY ONLY <1>2, <1>3, i \in DOMAIN Offs(R, L, k), o = Offs(R, L, k)[i]
  <2>3. NamesOf(A, L, k - 1) = NamesOf(R, L, k - 1)
    BY ONLY <1>4
  <2>4. EntryOf(A, L, k, o) = EntryOf(R, L, k, o)
    BY ONLY <2>2, <2>3 DEF EntryOf
  <2> QED BY ONLY <2>2, <2>4, o = Offs(R, L, k)[i]
<1>6. Read(A, L) = Read(R, L)
  BY ONLY <1>2, <1>5 DEF Read
<1> QED BY ONLY <1>6, A = Append(R, r)

LEMMA FileLater ==
  ASSUME NEW R, NEW L, FileOK(R, L), NEW r \in RecordType, Uses(r.lev, r.refs)
  PROVE  /\ FileOK(Append(R, r), L)
         /\ (\A o \in L : ~(R[o].lev = r.lev /\ R[o].name = r.name)) =>
               FileOK(Append(R, r), L \cup {Len(R) + 1})
         /\ \A o \in L : DefinedIn(R, L, o) =>
               DefinedIn(Append(R, r), L, o) /\ DefinedIn(Append(R, r), L \cup {Len(R) + 1}, o)
<1> PICK A : A = Append(R, r)
  OBVIOUS
<1> PICK x : x = Len(R) + 1
  OBVIOUS
<1>0. /\ R \in Seq(RecordType) /\ L \in SUBSET (1..Len(R))
      /\ \A o \in 1..Len(R) : Uses(R[o].lev, R[o].refs)
      /\ \A o, p \in L : R[o].lev = R[p].lev /\ R[o].name = R[p].name => o = p
  BY DEF FileOK
<1>1. /\ A \in Seq(RecordType) /\ Len(A) = x /\ Len(R) \in Nat /\ A[x] = r
      /\ \A o \in 1..Len(R) : A[o] = R[o] /\ o \in 1..x
  BY ONLY <1>0, r \in RecordType, A = Append(R, r), x = Len(R) + 1, AppendFacts
<1>2. \A o \in 1..x : o \in 1..Len(R) \/ o = x
  BY ONLY <1>1, x = Len(R) + 1
<1>3. \A o \in 1..x : Uses(A[o].lev, A[o].refs)
  BY <1>0, <1>1, <1>2
<1>4. \A o \in L : A[o] = R[o] /\ o \in 1..x
  BY ONLY <1>0, <1>1
<1>5. FileOK(A, L)
  <2>1. \A o, p \in L : A[o].lev = A[p].lev /\ A[o].name = A[p].name => o = p
    BY ONLY <1>0, <1>4
  <2> QED BY ONLY <2>1, <1>1, <1>3, <1>4 DEF FileOK
<1>6. ASSUME \A o \in L : ~(R[o].lev = r.lev /\ R[o].name = r.name)
      PROVE  FileOK(A, L \cup {x})
  <2>1. \A o, p \in L \cup {x} : A[o].lev = A[p].lev /\ A[o].name = A[p].name => o = p
    BY ONLY <1>0, <1>1, <1>4, <1>6
  <2>2. x \in 1..x
    BY ONLY <1>1, x = Len(R) + 1
  <2> QED BY ONLY <2>1, <2>2, <1>1, <1>3, <1>4 DEF FileOK
<1>7. ASSUME NEW o \in L, DefinedIn(R, L, o)
      PROVE  DefinedIn(A, L, o) /\ DefinedIn(A, L \cup {x}, o)
  <2>1. \A n \in Range(R[o].refs) : \E p \in L : R[p].lev = R[o].lev - 1 /\ R[p].name = n
    BY ONLY <1>7 DEF DefinedIn
  <2>2. \A n \in Range(A[o].refs) : \E p \in L : A[p].lev = A[o].lev - 1 /\ A[p].name = n
    BY ONLY <2>1, <1>4, o \in L
  <2> QED BY ONLY <2>2 DEF DefinedIn
<1> QED BY ONLY <1>5, <1>6, <1>7, A = Append(R, r), x = Len(R) + 1

(***************************************************************************)
(* The invariant holds at the start, and every step keeps it.              *)
(***************************************************************************)
LEMMA GivenFacts ==
  FileOK(Given, DOMAIN Given) /\ \A o \in DOMAIN Given : DefinedIn(Given, DOMAIN Given, o)
<1>1. Given \in Seq(RecordType)
  BY GivenAssumption DEF RecordType
<1>2. DOMAIN Given = 1..Len(Given)
  BY ONLY <1>1, LenProperties
<1>3. \A o \in DOMAIN Given : Uses(Given[o].lev, Given[o].refs)
  BY GivenAssumption
<1>4. \A o, p \in DOMAIN Given : Given[o].lev = Given[p].lev /\ Given[o].name = Given[p].name => o = p
  BY GivenAssumption
<1>5. FileOK(Given, DOMAIN Given)
  BY ONLY <1>1, <1>2, <1>3, <1>4 DEF FileOK
<1>6. \A o \in DOMAIN Given : DefinedIn(Given, DOMAIN Given, o)
  BY GivenAssumption DEF DefinedIn
<1> QED BY <1>5, <1>6

LEMMA InitInv == Init => IInv
<1>1. SUFFICES ASSUME Init PROVE IInv
  OBVIOUS
<1>2. records = Given /\ live = DOMAIN Given
  BY <1>1 DEF Init
<1>3. FileOK(records, live) /\ FileClean
  BY ONLY <1>2, GivenFacts DEF FileClean
<1>4. Len(records) <= MaxRec
  BY <1>2, BoundAssumption
<1>5. MemOK /\ MemClean
  BY <1>1 DEF Init, MemOK, MemClean
<1>6. Idle /\ clean \in BOOLEAN
  BY <1>1 DEF Init, Idle
<1> QED BY <1>3, <1>4, <1>5, <1>6 DEF IInv

LEMMA Parts ==
  ASSUME IInv
  PROVE  /\ FileOK(records, live) /\ Len(records) <= MaxRec
         /\ records \in Seq(RecordType) /\ live \in SUBSET (1..Len(records)) /\ Len(records) \in Nat
         /\ mem \in [Holders -> VSType \cup {NoVS}]
         /\ \A h \in Holders : mem[h] # NoVS => mem[h] \in VSType /\ VSOK(mem[h], records)
         /\ fresh \subseteq {h \in Holders : mem[h] # NoVS}
         /\ clean \in BOOLEAN
         /\ ~Idle => call \in CallType /\ VSOK(call.vs, records) /\ Shape(call.todo, call.vs.list)
         /\ clean => /\ FileClean /\ \A h \in fresh : mem[h].list = Read(records, live)
                     /\ \A h \in Holders : mem[h] # NoVS => SoundIn(records, mem[h].list)
         /\ clean /\ ~Idle => /\ SoundIn(records, call.vs.list)
                              /\ call.exact => /\ call.vs.list = Read(records, live)
                                               /\ ~call.missed
                                               /\ Guarded(call.todo, call.vs.list)
<1>1. FileOK(records, live) /\ Len(records) <= MaxRec /\ clean \in BOOLEAN
  BY DEF IInv
<1>2. records \in Seq(RecordType) /\ live \in SUBSET (1..Len(records)) /\ Len(records) \in Nat
  BY <1>1 DEF FileOK
<1>3. /\ mem \in [Holders -> VSType \cup {NoVS}]
      /\ \A h \in Holders : mem[h] # NoVS => mem[h] \in VSType /\ VSOK(mem[h], records)
      /\ fresh \subseteq {h \in Holders : mem[h] # NoVS}
  BY DEF IInv, MemOK
<1>4. ~Idle => call \in CallType /\ VSOK(call.vs, records) /\ Shape(call.todo, call.vs.list)
  BY DEF IInv, CallOK
<1>5. clean => /\ FileClean /\ \A h \in fresh : mem[h].list = Read(records, live)
               /\ \A h \in Holders : mem[h] # NoVS => SoundIn(records, mem[h].list)
  BY DEF IInv, MemClean
<1>6. clean /\ ~Idle => /\ SoundIn(records, call.vs.list)
                        /\ call.exact => /\ call.vs.list = Read(records, live)
                                         /\ ~call.missed
                                         /\ Guarded(call.todo, call.vs.list)
  BY DEF IInv, CallClean
<1> QED BY <1>1, <1>2, <1>3, <1>4, <1>5, <1>6

\* A step of a call that leaves the file and the structures alone.
LEMMA CallKept ==
  ASSUME IInv, ~Idle, UNCHANGED <<file, mem, fresh, clean>>,
         call' \in CallType, call'.vs = call.vs, call'.exact = call.exact, call'.missed = call.missed,
         Shape(call'.todo, call.vs.list),
         clean /\ call.exact => Guarded(call'.todo, call.vs.list)
  PROVE  IInv'
<1>1. records' = records /\ live' = live /\ mem' = mem /\ fresh' = fresh /\ clean' = clean
  BY DEF file
<1>2. FileOK(records, live)' /\ (Len(records) <= MaxRec)' /\ (clean \in BOOLEAN)'
  BY <1>1 DEF IInv
<1>3. MemOK'
  BY <1>1 DEF IInv, MemOK
<1>4. CallOK'
  BY <1>1 DEF IInv, CallOK
<1>5. clean' => FileClean' /\ MemClean'
  BY <1>1 DEF IInv, FileClean, MemClean
<1>6. clean' => CallClean'
  BY <1>1 DEF IInv, CallClean
<1> QED BY <1>2, <1>3, <1>4, <1>5, <1>6 DEF IInv

LEMMA OpenInv ==
  ASSUME IInv, NEW g \in Vars \cup {Nowhere}, Open(g) PROVE IInv'
<1>1. /\ records' = records /\ live' = live /\ call' = call /\ clean' = clean /\ Idle
      /\ mem' = [h \in Holders |-> IF h \in {g, Keep} THEN Structure(live) ELSE mem[h]]
      /\ fresh' = fresh \cup ({g, Keep} \ {Nowhere})
  BY DEF Open, file
<1>2. Idle'
  BY <1>1 DEF Idle
<1>3. /\ FileOK(records, live) /\ mem \in [Holders -> VSType \cup {NoVS}]
      /\ \A h \in Holders : mem[h] # NoVS => VSOK(mem[h], records)
      /\ fresh \subseteq {h \in Holders : mem[h] # NoVS}
      /\ clean => /\ FileClean /\ \A h \in fresh : mem[h].list = Read(records, live)
                  /\ \A h \in Holders : mem[h] # NoVS => SoundIn(records, mem[h].list)
  BY Parts
<1> PICK s : s = Structure(live)
  OBVIOUS
<1>4. VSOK(s, records) /\ s.list = Read(records, live)
  BY ONLY <1>3, s = Structure(live), StructureOK
<1>5. s \in VSType /\ s # NoVS
  BY <1>4, NotNoVS DEF VSOK
<1>6. SoundIn(records, s.list)
  BY ONLY <1>3, <1>4, ReadOK
<1>7. \A h \in Holders : mem'[h] = IF h \in {g, Keep} THEN s ELSE mem[h]
  BY <1>1
<1>8. mem' \in [Holders -> VSType \cup {NoVS}]
  BY <1>1, <1>3, <1>5
<1>9. ({g, Keep} \ {Nowhere}) \subseteq Holders /\ (\A h \in Holders : h # Nowhere)
  BY HolderAssumption DEF Holders
<1>10. MemOK'
  <2>1. \A h \in Holders : mem'[h] # NoVS => VSOK(mem'[h], records')
    BY <1>1, <1>3, <1>4, <1>7
  <2>2. fresh' \in SUBSET {h \in Holders : mem'[h] # NoVS}
    BY <1>1, <1>3, <1>5, <1>7, <1>9
  <2> QED BY <2>1, <2>2, <1>8 DEF MemOK
<1>11. ASSUME clean PROVE FileClean' /\ MemClean'
  <2>1. FileClean'
    BY <1>1, <1>3, <1>11 DEF FileClean
  <2>2. \A h \in fresh' : mem'[h].list = Read(records', live')
    BY <1>1, <1>3, <1>4, <1>7, <1>9, <1>11
  <2>3. \A h \in Holders : mem'[h] # NoVS => SoundIn(records', mem'[h].list)
    BY <1>1, <1>3, <1>6, <1>7, <1>11
  <2> QED BY <2>1, <2>2, <2>3 DEF MemClean
<1>12. FileOK(records, live)' /\ (Len(records) <= MaxRec)' /\ (clean \in BOOLEAN)'
  BY <1>1 DEF IInv
<1> QED BY <1>1, <1>2, <1>10, <1>11, <1>12 DEF IInv

\* Any call begins with what its structure is known to be.
LEMMA BeginInv ==
  ASSUME IInv, NEW h \in Holders, NEW g \in Vars \cup {Nowhere}, NEW todo \in Seq(TaskType),
         NEW goal \in SUBSET (SUBSET Nat), Begin(h, g, todo, goal),
         Shape(todo, mem[h].list), Guarded(todo, mem[h].list)
  PROVE  IInv'
<1>1. /\ records' = records /\ live' = live /\ mem' = mem /\ fresh' = fresh /\ clean' = clean
      /\ mem[h] # NoVS
      /\ call' = [todo |-> todo, vs |-> mem[h], from |-> h, to |-> g, goal |-> goal,
                  exact |-> h \in fresh, err |-> todo = <<>>, raised |-> FALSE, missed |-> FALSE]
  BY DEF Begin, file
<1>2. /\ mem[h] \in VSType /\ VSOK(mem[h], records)
      /\ clean => /\ \A x \in fresh : mem[x].list = Read(records, live)
                  /\ SoundIn(records, mem[h].list)
  BY <1>1, Parts
<1>5. call' \in CallType
  BY <1>1, <1>2 DEF CallType, TaskType
<1>6. /\ call'.todo = todo /\ call'.vs = mem[h] /\ (call'.exact <=> h \in fresh) /\ ~call'.missed
  BY <1>1
<1>7. CallOK'
  BY <1>1, <1>2, <1>5, <1>6 DEF CallOK
<1>8. clean' => CallClean'
  BY <1>1, <1>2, <1>6 DEF CallClean
<1>9. FileOK(records, live)' /\ (Len(records) <= MaxRec)' /\ (clean \in BOOLEAN)'
  BY <1>1 DEF IInv
<1>10. MemOK'
  BY <1>1 DEF IInv, MemOK
<1>11. clean' => FileClean' /\ MemClean'
  BY <1>1 DEF IInv, FileClean, MemClean
<1> QED BY <1>7, <1>8, <1>9, <1>10, <1>11 DEF IInv

\* The calls.
LEMMA SingleTask ==
  ASSUME NEW t \in TaskType, NEW l,
         \/ t \in CreateTask /\ Uses(t.lev, t.refs)
         \/ t \in RemoveTask /\ t.do = "remove"
  PROVE  <<t>> \in Seq(TaskType) /\ Shape(<<t>>, l) /\ Guarded(<<t>>, l)
<1> PICK s : s = <<t>>
  OBVIOUS
<1>1. s \in Seq(TaskType) /\ Len(s) = 1 /\ s[1] = t
  BY ONLY t \in TaskType, s = <<t>>, OneElement
<1>2. DOMAIN s = 1..1
  BY ONLY <1>1, LenProperties
<1>3. \A p \in DOMAIN s : s[p] = t /\ p = Len(s)
  BY ONLY <1>1, <1>2
<1>4. Shape(s, l)
  <2>1. CASE t \in CreateTask /\ Uses(t.lev, t.refs)
    <3>1. Creates(s)
      BY ONLY <2>1, <1>3 DEF Creates
    <3> QED BY ONLY <3>1 DEF Shape
  <2>2. CASE t \in RemoveTask /\ t.do = "remove" /\ t.cmd \notin Starred
    <3>1. Plain(s)
      BY ONLY <2>2, <1>3 DEF Plain
    <3> QED BY ONLY <3>1 DEF Shape
  <2>3. CASE t \in RemoveTask /\ t.do = "remove" /\ t.cmd \in Starred
    <3>1. \A p, q \in DOMAIN s : ~(p < q)
      BY ONLY <1>2
    <3>2. \A p \in DOMAIN s :
            /\ s[p] \in RemoveTask /\ s[p].cmd \in Starred
            /\ p # Len(s) => s[p].cmd = "*remove"
            /\ s[p].do = "unlink" => s[p].idx \in DOMAIN l[s[p].lev]
      BY ONLY <2>3, <1>3
    <3>3. Starry(s, l)
      BY ONLY <3>1, <3>2 DEF Starry
    <3> QED BY ONLY <3>3 DEF Shape
  <2> QED BY <2>1, <2>2, <2>3
<1>5. t.do # "unlink"
  BY DEF CreateTask
<1>6. Guarded(s, l)
  BY ONLY <1>3, <1>5 DEF Guarded
<1> QED BY ONLY <1>1, <1>4, <1>6, s = <<t>>

LEMMA CreationType ==
  ASSUME NEW k \in Levels, NEW n \in AllNames, NEW refs \in Seq(AllNames), NEW fits \in BOOLEAN, Uses(k, refs)
  PROVE  LET t == Creation(k, n, refs, fits) IN t \in CreateTask /\ t \in TaskType /\ Uses(t.lev, t.refs)
<1> PICK t : t = Creation(k, n, refs, fits)
  OBVIOUS
<1>1. t = [do |-> "create", lev |-> k, name |-> n, refs |-> refs, fits |-> fits]
  BY DEF Creation
<1>2. t \in CreateTask /\ t.lev = k /\ t.refs = refs
  BY <1>1 DEF CreateTask
<1>3. t \in TaskType
  BY <1>2 DEF TaskType
<1> QED BY <1>2, <1>3

LEMMA NamesGiven ==
  /\ \A k \in Levels : \A n \in NamesAt[k] : n \in AllNames
  /\ \A n \in EasyNames : n \in AllNames
  /\ \A k \in Levels : \A r \in Lists[k] : r \in Seq(AllNames) /\ Uses(k, r)
<1>1. \A k \in Levels : \A n \in NamesAt[k] : n \in AllNames
  BY DEF AllNames
<1>2. \A n \in EasyNames : n \in AllNames
  BY DEF AllNames
<1>3. ASSUME NEW k \in Levels, NEW r \in Lists[k] PROVE r \in Seq(AllNames) /\ Uses(k, r)
  <2>1. Uses(k, r) /\ (k > 1 => r \in Seq(NamesAt[k - 1]))
    BY NamesAssumption
  <2>2. CASE k = 1
    <3>1. r = <<>>
      BY <2>1, <2>2 DEF Uses
    <3> QED BY <2>1, <3>1
  <2>3. CASE k # 1
    <3>1. k > 1 /\ k - 1 \in Levels
      BY <2>3 DEF Levels
    <3>2. NamesAt[k - 1] \subseteq AllNames
      BY <3>1, <1>1
    <3>3. r \in Seq(NamesAt[k - 1])
      BY <2>1, <3>1
    <3>4. r \in Seq(AllNames)
      BY ONLY <3>2, <3>3, SeqMonotonic
    <3> QED BY <2>1, <3>4
  <2> QED BY <2>2, <2>3
<1> QED BY <1>1, <1>2, <1>3

LEMMA CallCreateInv ==
  ASSUME IInv, NEW h \in Holders, NEW g \in Vars \cup {Nowhere}, NEW k \in Levels, NEW n \in NamesAt[k],
         NEW refs \in Lists[k], NEW fits \in BOOLEAN, CallCreate(h, g, k, n, refs, fits)
  PROVE  IInv'
<1> PICK t : t = Creation(k, n, refs, fits)
  OBVIOUS
<1>1. n \in AllNames /\ refs \in Seq(AllNames) /\ Uses(k, refs)
  BY NamesGiven
<1>2. t \in CreateTask /\ t \in TaskType /\ Uses(t.lev, t.refs)
  BY ONLY <1>1, k \in Levels, fits \in BOOLEAN, t = Creation(k, n, refs, fits), CreationType
<1> PICK s : s = <<t>>
  OBVIOUS
<1>3. s \in Seq(TaskType) /\ Shape(s, mem[h].list) /\ Guarded(s, mem[h].list)
  BY ONLY <1>2, s = <<t>>, SingleTask
<1>4. Begin(h, g, s, {})
  BY DEF CallCreate
<1> QED BY ONLY <1>3, <1>4, IInv, h \in Holders, g \in Vars \cup {Nowhere}, BeginInv

LEMMA CallEasyInv ==
  ASSUME IInv, NEW h \in Holders, NEW g \in Vars \cup {Nowhere}, NEW n \in EasyNames, NEW elms \in Lists[2],
         NEW fits3 \in BOOLEAN, NEW fits4 \in BOOLEAN, CallEasy(h, g, n, elms, fits3, fits4)
  PROVE  IInv'
<1>0. n \in AllNames /\ elms \in Seq(AllNames) /\ Uses(2, elms) /\ 2 \in Levels /\ 3 \in Levels /\ 4 \in Levels
  BY NamesGiven DEF Levels
<1>1. <<n>> \in Seq(AllNames) /\ Len(<<n>>) = 1
  BY ONLY <1>0, OneElement
<1>2. Uses(3, <<n>>) /\ Uses(4, <<n>>)
  BY ONLY <1>1 DEF Uses
<1> PICK a : a = Creation(2, n, elms, TRUE)
  OBVIOUS
<1> PICK b : b = Creation(3, n, <<n>>, fits3)
  OBVIOUS
<1> PICK c : c = Creation(4, n, <<n>>, fits4)
  OBVIOUS
<1>3. a \in CreateTask /\ a \in TaskType /\ Uses(a.lev, a.refs)
  BY ONLY <1>0, a = Creation(2, n, elms, TRUE), CreationType
<1>4. b \in CreateTask /\ b \in TaskType /\ Uses(b.lev, b.refs)
  BY ONLY <1>0, <1>1, <1>2, b = Creation(3, n, <<n>>, fits3), fits3 \in BOOLEAN, CreationType
<1>5. c \in CreateTask /\ c \in TaskType /\ Uses(c.lev, c.refs)
  BY ONLY <1>0, <1>1, <1>2, c = Creation(4, n, <<n>>, fits4), fits4 \in BOOLEAN, CreationType
<1> PICK s : s = <<a, b, c>>
  OBVIOUS
<1>6. /\ s \in Seq(TaskType)
      /\ DOMAIN s = 1..3 /\ s[1] = a /\ s[2] = b /\ s[3] = c
  BY ONLY <1>3, <1>4, <1>5, s = <<a, b, c>>
<1>7. \A p \in DOMAIN s : s[p] = a \/ s[p] = b \/ s[p] = c
  <2>1. \A p \in 1..3 : p = 1 \/ p = 2 \/ p = 3
    OBVIOUS
  <2> QED BY ONLY <1>6, <2>1
<1>8. Creates(s)
  BY ONLY <1>3, <1>4, <1>5, <1>7 DEF Creates
<1>9. Shape(s, mem[h].list) /\ Guarded(s, mem[h].list)
  BY ONLY <1>8, GuardedPlain DEF Shape
<1>10. Begin(h, g, s, {})
  BY DEF CallEasy
<1> QED BY ONLY <1>6, <1>9, <1>10, IInv, h \in Holders, g \in Vars \cup {Nowhere}, BeginInv

LEMMA CallRemoveInv ==
  ASSUME IInv, NEW h \in Holders, NEW g \in Vars \cup {Nowhere}, NEW cmd \in Commands,
         NEW k \in Levels, NEW n, CallRemove(h, g, cmd, k, n)
  PROVE  IInv'
<1> PICK l : l = mem[h].list
  OBVIOUS
<1> PICK i : i = IndexOf(mem[h].list[k], n)
  OBVIOUS
<1>1. live \in SUBSET Nat /\ mem[h] \in VSType /\ mem[h] # NoVS
  <2>1. mem[h] # NoVS
    BY DEF CallRemove
  <2>2. live \in SUBSET (1..Len(records)) /\ mem[h] \in VSType
    BY <2>1, Parts
  <2>3. 1..Len(records) \subseteq Nat
    BY Parts
  <2> QED BY <2>1, <2>2, <2>3
<1>2. \A c, o : Left(c, o) \in SUBSET Nat
  BY ONLY <1>1 DEF Left
<1>3. CASE i = 0
  <2>1. Begin(h, g, <<>>, {live})
    BY <1>3 DEF CallRemove
  <2>2. {live} \in SUBSET (SUBSET Nat)
    BY <1>1
  <2>3. <<>> \in Seq(TaskType) /\ Shape(<<>>, mem[h].list) /\ Guarded(<<>>, mem[h].list)
    BY ONLY NothingLeft
  <2> QED BY ONLY <2>1, <2>2, <2>3, IInv, h \in Holders, g \in Vars \cup {Nowhere}, BeginInv
<1>4. CASE i # 0
  <2> PICK goal : goal = IF h \in fresh THEN {Left(cmd, mem[h].list[k][i].off)} ELSE {}
    OBVIOUS
  <2> PICK t : t = Removal(cmd, k, i, FALSE)
    OBVIOUS
  <2> PICK s : s = <<t>>
    OBVIOUS
  <2>1. Begin(h, g, s, goal)
    BY <1>4 DEF CallRemove
  <2>2. goal \in SUBSET (SUBSET Nat)
    BY <1>2
  <2>3. i \in Nat
    <3>1. l[k] \in Seq(Entry)
      BY <1>1 DEF VSType
    <3>2. DOMAIN l[k] \subseteq Nat /\ 0 \notin DOMAIN l[k]
      BY <3>1
    <3>3. IndexOf(l[k], n) # 0 => IndexOf(l[k], n) \in DOMAIN l[k]
      BY ONLY <3>2, IndexOfFacts
    <3> QED BY ONLY <3>2, <3>3, i = IndexOf(mem[h].list[k], n), l = mem[h].list
  <2>4. t = [do |-> "remove", cmd |-> cmd, lev |-> k, idx |-> i, nested |-> FALSE]
    BY DEF Removal
  <2>5. t \in RemoveTask /\ t.do = "remove" /\ t \in TaskType
    <3>1. cmd \in Commands /\ k \in Levels
      OBVIOUS
    <3>2. t \in RemoveTask
      BY ONLY <2>3, <2>4, <3>1 DEF RemoveTask
    <3>3. t.do = "remove"
      BY ONLY <2>4
    <3> QED BY ONLY <3>2, <3>3, TaskKinds
  <2>6. s \in Seq(TaskType) /\ Shape(s, mem[h].list) /\ Guarded(s, mem[h].list)
    BY ONLY <2>5, s = <<t>>, SingleTask
  <2> QED BY ONLY <2>1, <2>2, <2>6, IInv, h \in Holders, g \in Vars \cup {Nowhere}, BeginInv
<1> QED BY <1>3, <1>4

\* What a step of a call starts from.
LEMMA BusyFacts ==
  ASSUME IInv, Busy
  PROVE  /\ ~Idle /\ call \in CallType /\ VS = call.vs /\ VS \in VSType /\ VSOK(VS, records)
         /\ call.todo \in Seq(TaskType) /\ call.todo # <<>> /\ Task = call.todo[1]
         /\ Rest = Tail(call.todo) /\ Rest \in Seq(TaskType) /\ Shape(Rest, VS.list)
         /\ Task.do = "create" => /\ Task \in CreateTask /\ Uses(Task.lev, Task.refs)
                                  /\ Creates(Rest) /\ Guarded(Rest, VS.list)
         /\ Task.do \in {"remove", "unlink"} =>
               Task \in RemoveTask /\ (Plain(call.todo) \/ Starry(call.todo, VS.list))
<1> PICK todo : todo = call.todo
  OBVIOUS
<1> PICK l : l = VS.list
  OBVIOUS
<1>1. ~Idle /\ todo # <<>>
  BY DEF Busy
<1>2. call \in CallType /\ VS = call.vs /\ VSOK(VS, records) /\ Shape(todo, l)
  BY <1>1, Parts DEF VS
<1>3. todo \in Seq(TaskType) /\ VS \in VSType
  BY <1>2, CallParts
<1>4. /\ Tail(todo) \in Seq(TaskType) /\ Head(todo) = todo[1] /\ DOMAIN todo = 1..Len(todo)
      /\ Len(todo) \in Nat \ {0}
  BY ONLY <1>1, <1>3, RestFacts
<1>5. Task = todo[1] /\ Rest = Tail(todo)
  BY <1>4 DEF Task, Rest
<1>6. Shape(Rest, l) /\ (Creates(todo) => Creates(Rest))
  BY ONLY <1>1, <1>2, <1>3, <1>5, RestShape
<1>7. 1 \in DOMAIN todo
  BY ONLY <1>4
<1>8. ASSUME Task.do = "create"
      PROVE  /\ Task \in CreateTask /\ Uses(Task.lev, Task.refs)
             /\ Creates(Rest) /\ Guarded(Rest, l)
  <2>1. ~Plain(todo)
    BY ONLY <1>5, <1>7, <1>8 DEF Plain
  <2>2. ~Starry(todo, l)
    BY ONLY <1>5, <1>7, <1>8, TaskKinds DEF Starry
  <2>3. Creates(todo)
    BY ONLY <2>1, <2>2, <1>2 DEF Shape
  <2>4. Task \in CreateTask /\ Uses(Task.lev, Task.refs)
    BY ONLY <2>3, <1>5, <1>7 DEF Creates
  <2>5. Guarded(Rest, l)
    BY ONLY <2>3, <1>6, GuardedPlain
  <2> QED BY ONLY <2>3, <2>4, <2>5, <1>6
<1>9. ASSUME Task.do \in {"remove", "unlink"}
      PROVE  Task \in RemoveTask /\ (Plain(todo) \/ Starry(todo, l))
  <2>1. ~Creates(todo)
    BY ONLY <1>5, <1>7, <1>9, TaskKinds DEF Creates
  <2>2. Plain(todo) \/ Starry(todo, l)
    BY ONLY <2>1, <1>2 DEF Shape
  <2>3. Task \in RemoveTask
    BY ONLY <2>2, <1>5, <1>7 DEF Plain, Starry
  <2> QED BY ONLY <2>2, <2>3
<1> QED BY <1>1, <1>2, <1>3, <1>4, <1>5, <1>6, <1>8, <1>9

LEMMA RaisedInv ==
  ASSUME IInv, Busy, call' = Raised, UNCHANGED <<file, mem, fresh, clean>> PROVE IInv'
<1>1. ~Idle /\ call \in CallType
  BY BusyFacts
<1> PICK z \in Seq(TaskType) : z = <<>>
  BY NothingLeft
<1>2. call' = [call EXCEPT !.todo = z, !.raised = TRUE]
  BY DEF Raised
<1>3. LET f == [call EXCEPT !.todo = z, !.raised = TRUE] IN
        /\ f \in CallType
        /\ f.todo = z /\ f.vs = call.vs /\ f.exact = call.exact /\ f.missed = call.missed
  BY ONLY <1>1, z \in Seq(TaskType) DEF CallType, TaskType
<1>4. /\ call' \in CallType
      /\ call'.todo = z /\ call'.vs = call.vs /\ call'.exact = call.exact /\ call'.missed = call.missed
  BY ONLY <1>2, <1>3
<1>5. Shape(z, call.vs.list) /\ Guarded(z, call.vs.list)
  BY NothingLeft
<1> QED BY <1>1, <1>4, <1>5, CallKept

LEMMA FailedInv ==
  ASSUME IInv, Busy, call' = Failed(VS), UNCHANGED <<file, mem, fresh, clean>> PROVE IInv'
<1>1. ~Idle /\ call \in CallType /\ VS = call.vs /\ VS \in VSType
  BY BusyFacts
<1> PICK z \in Seq(TaskType) : z = <<>>
  BY NothingLeft
<1>2. call' = [call EXCEPT !.todo = z, !.err = TRUE, !.vs = VS]
  BY DEF Failed
<1>3. LET f == [call EXCEPT !.todo = z, !.err = TRUE, !.vs = VS] IN
        /\ f \in CallType
        /\ f.todo = z /\ f.vs = VS /\ f.exact = call.exact /\ f.missed = call.missed
  BY ONLY <1>1, z \in Seq(TaskType) DEF CallType, TaskType
<1>4. /\ call' \in CallType
      /\ call'.todo = z /\ call'.vs = call.vs /\ call'.exact = call.exact /\ call'.missed = call.missed
  BY ONLY <1>1, <1>2, <1>3
<1>5. Shape(z, call.vs.list) /\ Guarded(z, call.vs.list)
  BY NothingLeft
<1> QED BY <1>1, <1>4, <1>5, CallKept

LEMMA CreateExistingInv ==
  ASSUME IInv, CreateExisting PROVE IInv'
<1>1. /\ Busy /\ Task.do = "create" /\ UNCHANGED <<file, mem, fresh, clean>>
      /\ call' = Raised \/ call' = [call EXCEPT !.todo = Rest] \/ call' = Failed(VS)
  BY DEF CreateExisting, Creating
<1>2. CASE call' = Raised
  BY <1>1, <1>2, RaisedInv
<1>3. CASE call' = Failed(VS)
  BY <1>1, <1>3, FailedInv
<1>4. CASE call' = [call EXCEPT !.todo = Rest]
  <2>1. /\ ~Idle /\ call \in CallType /\ VS = call.vs /\ Rest \in Seq(TaskType)
        /\ Shape(Rest, VS.list) /\ Guarded(Rest, VS.list)
    BY <1>1, BusyFacts
  <2>2. LET f == [call EXCEPT !.todo = Rest] IN
        /\ f \in CallType
        /\ f.todo = Rest /\ f.vs = call.vs /\ f.exact = call.exact /\ f.missed = call.missed
    BY ONLY <2>1 DEF CallType, TaskType
  <2>3. /\ call' \in CallType
        /\ call'.todo = Rest /\ call'.vs = call.vs /\ call'.exact = call.exact /\ call'.missed = call.missed
    BY ONLY <2>2, <1>4
  <2> QED BY <1>1, <2>1, <2>3, CallKept
<1> QED BY <1>1, <1>2, <1>3, <1>4

LEMMA CreateInvalidInv ==
  ASSUME IInv, CreateInvalid PROVE IInv'
<1>1. /\ Busy /\ UNCHANGED <<file, mem, fresh, clean>>
      /\ call' = Raised \/ call' = Failed(VS)
  BY DEF CreateInvalid, Creating
<1> QED BY <1>1, RaisedInv, FailedInv

LEMMA RemoveRaisesInv ==
  ASSUME IInv, RemoveRaises PROVE IInv'
<1>1. Busy /\ UNCHANGED <<file, mem, fresh, clean>> /\ call' = Raised
  BY DEF RemoveRaises, Removing
<1> QED BY <1>1, RaisedInv

LEMMA RemoveUsedInv ==
  ASSUME IInv, RemoveUsed PROVE IInv'
<1> PICK e : e = ~Task.nested
  OBVIOUS
<1>1. /\ Busy /\ Task.do = "remove" /\ Task.cmd \notin Starred /\ UNCHANGED <<file, mem, fresh, clean>>
      /\ call' = [call EXCEPT !.todo = Rest, !.err = e]
  BY DEF RemoveUsed, Removing
<1>2. /\ ~Idle /\ call \in CallType /\ VS = call.vs /\ Rest \in Seq(TaskType)
      /\ Shape(Rest, VS.list) /\ Task \in RemoveTask
      /\ call.todo \in Seq(TaskType) /\ call.todo # <<>> /\ Task = call.todo[1] /\ Rest = Tail(call.todo)
      /\ Plain(call.todo) \/ Starry(call.todo, VS.list)
  BY <1>1, BusyFacts
<1>3. e \in BOOLEAN
  OBVIOUS
<1>4. LET f == [call EXCEPT !.todo = Rest, !.err = e] IN
        /\ f \in CallType
        /\ f.todo = Rest /\ f.vs = call.vs /\ f.exact = call.exact /\ f.missed = call.missed
  BY ONLY <1>2, <1>3 DEF CallType, TaskType
<1>5. /\ call' \in CallType
      /\ call'.todo = Rest /\ call'.vs = call.vs /\ call'.exact = call.exact /\ call'.missed = call.missed
  BY ONLY <1>1, <1>4
<1>6. Plain(call.todo)
  <2>1. 1 \in DOMAIN call.todo
    BY <1>2, RestFacts
  <2>2. ~Starry(call.todo, VS.list)
    BY ONLY <2>1, <1>1, <1>2 DEF Starry
  <2> QED BY <1>2, <2>2
<1>7. Guarded(Rest, VS.list)
  BY ONLY <1>2, <1>6, RestShape, GuardedPlain
<1> QED BY <1>1, <1>2, <1>5, <1>7, CallKept

\* The indices of a name are numbers, and those of names that are found lead to them.
LEMMA ResolveFacts ==
  ASSUME NEW l \in Seq(Entry), NEW ns \in Seq(AllNames)
  PROVE  /\ Resolve(l, ns) \in Seq(Nat) /\ Len(Resolve(l, ns)) = Len(ns)
         /\ 0 \notin Range(Resolve(l, ns)) =>
              \A n \in Range(ns) : \E i \in DOMAIN l : l[i].name = n
<1> PICK r : r = Resolve(l, ns)
  OBVIOUS
<1>1. DOMAIN l \subseteq Nat /\ 0 \notin DOMAIN l /\ DOMAIN ns = 1..Len(ns) /\ Len(ns) \in Nat
  OBVIOUS
<1>2. r = [j \in 1..Len(ns) |-> IndexOf(l, ns[j])]
  BY <1>1 DEF Resolve
<1>3. \A n : /\ IndexOf(l, n) # 0 => IndexOf(l, n) \in DOMAIN l /\ l[IndexOf(l, n)].name = n
  BY ONLY <1>1, IndexOfFacts
<1>4. \A n : IndexOf(l, n) \in Nat
  BY ONLY <1>1, <1>3
<1>5. r \in [1..Len(ns) -> Nat]
  BY ONLY <1>2, <1>4
<1>6. r \in Seq(Nat) /\ Len(r) = Len(ns)
  BY ONLY <1>1, <1>5
<1>7. ASSUME 0 \notin Range(r), NEW n \in Range(ns) PROVE \E i \in DOMAIN l : l[i].name = n
  <2>1. PICK j \in 1..Len(ns) : ns[j] = n
    BY ONLY <1>1, n \in Range(ns) DEF Range
  <2>2. r[j] = IndexOf(l, n) /\ j \in DOMAIN r
    BY ONLY <1>2, <2>1
  <2>3. IndexOf(l, n) # 0
    BY ONLY <2>2, <1>7 DEF Range
  <2> QED BY ONLY <2>3, <1>3
<1> QED BY ONLY <1>6, <1>7, r = Resolve(l, ns)

\* A definition that is in the file is in what is read from it.
LEMMA ReadHas ==
  ASSUME NEW R, NEW L, FileOK(R, L), NEW k \in Levels
  PROVE  /\ \A o \in L : R[o].lev = k =>
              \E i \in DOMAIN Read(R, L)[k] : Read(R, L)[k][i].off = o /\ Read(R, L)[k][i].name = R[o].name
         /\ \A i \in DOMAIN Read(R, L)[k] :
              /\ Read(R, L)[k][i].off \in L /\ R[Read(R, L)[k][i].off].lev = k
              /\ R[Read(R, L)[k][i].off].name = Read(R, L)[k][i].name
<1> PICK s : s = Offs(R, L, k)
  OBVIOUS
<1> PICK l : l = Read(R, L)[k]
  OBVIOUS
<1>1. /\ \A i \in DOMAIN s : s[i] \in L /\ R[s[i]].lev = k
      /\ \A o \in L : R[o].lev = k => \E i \in DOMAIN s : s[i] = o
  <2>1. /\ \A i \in DOMAIN Offs(R, L, k) : Offs(R, L, k)[i] \in L /\ R[Offs(R, L, k)[i]].lev = k
        /\ \A o \in L : R[o].lev = k => \E i \in DOMAIN Offs(R, L, k) : Offs(R, L, k)[i] = o
    BY ONLY FileOK(R, L), OffsFacts
  <2> QED BY ONLY <2>1, s = Offs(R, L, k)
<1>2. /\ DOMAIN l = DOMAIN s
      /\ \A i \in DOMAIN s : l[i].name = R[s[i]].name /\ l[i].off = s[i]
  <2>1. /\ DOMAIN Read(R, L)[k] = DOMAIN Offs(R, L, k)
        /\ \A i \in DOMAIN Offs(R, L, k) : /\ Read(R, L)[k][i].name = R[Offs(R, L, k)[i]].name
                                           /\ Read(R, L)[k][i].off = Offs(R, L, k)[i]
    BY ONLY FileOK(R, L), k \in Levels, ReadFacts
  <2> QED BY ONLY <2>1, s = Offs(R, L, k), l = Read(R, L)[k]
<1>3. \A o \in L : R[o].lev = k => \E i \in DOMAIN l : l[i].off = o /\ l[i].name = R[o].name
  BY ONLY <1>1, <1>2
<1>4. \A i \in DOMAIN l : l[i].off \in L /\ R[l[i].off].lev = k /\ R[l[i].off].name = l[i].name
  BY ONLY <1>1, <1>2
<1> QED BY ONLY <1>3, <1>4, l = Read(R, L)[k]

\* The structure after a creation.
LEMMA AddedVS ==
  ASSUME NEW v \in VSType, NEW k \in Levels, NEW e \in Entry
  PROVE  LET w == [v EXCEPT !.list[k] = Append(@, e), !.bare = @ \ {k}] IN
         /\ w \in VSType
         /\ w.list = [v.list EXCEPT ![k] = Append(@, e)] /\ w.bare = v.bare \ {k}
<1> PICK w : w = [v EXCEPT !.list[k] = Append(@, e), !.bare = @ \ {k}]
  OBVIOUS
<1>1. v.list \in [Levels -> Seq(Entry)] /\ v.bare \in SUBSET Levels
  BY DEF VSType
<1>2. w.list = [v.list EXCEPT ![k] = Append(@, e)] /\ w.bare = v.bare \ {k}
  BY DEF VSType
<1>3. [v.list EXCEPT ![k] = Append(@, e)] \in [Levels -> Seq(Entry)]
  <2>1. Append(v.list[k], e) \in Seq(Entry)
    BY <1>1
  <2> QED BY ONLY <2>1, <1>1
<1>4. w = [list |-> w.list, bare |-> w.bare]
  BY DEF VSType
<1>5. w \in VSType
  BY ONLY <1>1, <1>2, <1>3, <1>4 DEF VSType
<1> QED BY <1>2, <1>5

NewEntry(R, v, r) ==
  [name |-> r.name, off |-> Len(R) + 1,
   refs |-> IF r.lev = 1 THEN <<>> ELSE Resolve(v.list[r.lev - 1], r.refs)]
WithEntry(v, k, e) == [v EXCEPT !.list[k] = Append(@, e), !.bare = @ \ {k}]

LEMMA AddedOK ==
  ASSUME NEW R \in Seq(RecordType), NEW v, VSOK(v, R), NEW r \in RecordType, Uses(r.lev, r.refs),
         NEW e, e = NewEntry(R, v, r), NEW w, w = WithEntry(v, r.lev, e)
  PROVE  /\ e \in Entry /\ w \in VSType /\ VSOK(w, Append(R, r))
         /\ w.list = [v.list EXCEPT ![r.lev] = Append(@, e)]
         /\ SoundIn(R, v.list) => SoundIn(Append(R, r), w.list)
<1> PICK k : k = r.lev
  OBVIOUS
<1> PICK A : A = Append(R, r)
  OBVIOUS
<1>0. e = [name |-> r.name, off |-> Len(R) + 1,
           refs |-> IF r.lev = 1 THEN <<>> ELSE Resolve(v.list[r.lev - 1], r.refs)]
  BY DEF NewEntry
<1>1. v \in VSType /\ ListsOK(R, v.list) /\ \A m \in v.bare : v.list[m] = <<>>
  BY DEF VSOK
<1>2. v.list \in [Levels -> Seq(Entry)] /\ v.bare \in SUBSET Levels
  BY ONLY <1>1 DEF VSType
<1>3. k \in Levels /\ r.name \in AllNames /\ r.refs \in Seq(AllNames)
  BY DEF RecordType
<1>4. e.refs \in Seq(Nat)
  <2>1. CASE k = 1
    <3>1. e.refs = <<>>
      BY <2>1, <1>0
    <3>2. <<>> \in Seq(Nat)
      OBVIOUS
    <3> QED BY ONLY <3>1, <3>2
  <2>2. CASE k # 1
    <3>1. k - 1 \in Levels
      BY <2>2, <1>3 DEF Levels
    <3>2. v.list[k - 1] \in Seq(Entry)
      BY <3>1, <1>2
    <3>3. Resolve(v.list[k - 1], r.refs) \in Seq(Nat)
      BY ONLY <3>2, <1>3, ResolveFacts
    <3>4. e.refs = Resolve(v.list[k - 1], r.refs)
      BY <2>2, <1>0
    <3> QED BY ONLY <3>3, <3>4
  <2> QED BY <2>1, <2>2
<1>5. e \in Entry
  <2>1. Len(R) + 1 \in Nat
    OBVIOUS
  <2>2. e = [name |-> r.name, off |-> Len(R) + 1, refs |-> e.refs]
    BY ONLY <1>0
  <2> QED BY ONLY <2>1, <2>2, <1>3, <1>4 DEF Entry
<1>6. /\ w \in VSType
      /\ w.list = [v.list EXCEPT ![k] = Append(@, e)] /\ w.bare = v.bare \ {k}
  <2>1. LET x == [v EXCEPT !.list[k] = Append(@, e), !.bare = @ \ {k}] IN
         /\ x \in VSType
         /\ x.list = [v.list EXCEPT ![k] = Append(@, e)] /\ x.bare = v.bare \ {k}
    BY ONLY <1>1, <1>3, <1>5, AddedVS
  <2>2. w = [v EXCEPT !.list[k] = Append(@, e), !.bare = @ \ {k}]
    BY ONLY k = r.lev, w = WithEntry(v, r.lev, e) DEF WithEntry
  <2> QED BY ONLY <2>1, <2>2
<1>7. LET d == [v.list EXCEPT ![r.lev] = Append(@, e)]
      IN  ListsOK(A, d) /\ (SoundIn(R, v.list) => SoundIn(A, d))
  <2>1. ListsOK(R, v.list) /\ R \in Seq(RecordType) /\ r \in RecordType /\ e \in Entry /\ Uses(r.lev, r.refs)
    BY <1>1, <1>5
  <2>2. e = [name |-> r.name, off |-> Len(R) + 1,
             refs |-> IF r.lev = 1 THEN <<>> ELSE Resolve(v.list[r.lev - 1], r.refs)]
    BY ONLY <1>0
  <2>3. LET d == [v.list EXCEPT ![r.lev] = Append(@, e)]
        IN  ListsOK(Append(R, r), d) /\ (SoundIn(R, v.list) => SoundIn(Append(R, r), d))
    BY ONLY <2>1, <2>2, AddSound
  <2> QED BY ONLY <2>3, A = Append(R, r)
<1>8. ListsOK(A, w.list) /\ (SoundIn(R, v.list) => SoundIn(A, w.list))
  BY ONLY <1>6, <1>7, k = r.lev
<1>9. \A m \in w.bare : w.list[m] = <<>>
  <2>1. SUFFICES ASSUME NEW m \in w.bare PROVE w.list[m] = <<>>
    OBVIOUS
  <2>2. m \in v.bare /\ m # k /\ m \in Levels
    BY <1>2, <1>6
  <2>3. w.list[m] = v.list[m]
    BY ONLY <2>2, <1>2, <1>6
  <2> QED BY ONLY <2>2, <2>3, <1>1
<1>10. VSOK(w, A)
  BY ONLY <1>6, <1>8, <1>9 DEF VSOK
<1> QED BY ONLY <1>5, <1>6, <1>8, <1>10, A = Append(R, r), k = r.lev

\* The same, in one word each.
AddsEntry(R, v, r, e, w) ==
  /\ e \in Entry /\ w \in VSType /\ VSOK(w, Append(R, r))
  /\ w.list = [v.list EXCEPT ![r.lev] = Append(@, e)]
  /\ SoundIn(R, v.list) => SoundIn(Append(R, r), w.list)

LEMMA EntryAdded ==
  ASSUME NEW R \in Seq(RecordType), NEW v, VSOK(v, R), NEW r \in RecordType, Uses(r.lev, r.refs)
  PROVE  AddsEntry(R, v, r, NewEntry(R, v, r), WithEntry(v, r.lev, NewEntry(R, v, r)))
  BY AddedOK DEF AddsEntry

\* The records that are there already, when one is appended.
LEMMA MemLater ==
  ASSUME IInv, NEW r \in RecordType, records' = Append(records, r), UNCHANGED mem,
         fresh' = fresh \/ fresh' = {}
  PROVE  /\ MemOK'
         /\ clean => \A h \in Holders : mem'[h] # NoVS => SoundIn(records', mem'[h].list)
<1>1. /\ records \in Seq(RecordType) /\ mem \in [Holders -> VSType \cup {NoVS}]
      /\ \A h \in Holders : mem[h] # NoVS => VSOK(mem[h], records)
      /\ fresh \subseteq {h \in Holders : mem[h] # NoVS}
      /\ clean => \A h \in Holders : mem[h] # NoVS => SoundIn(records, mem[h].list)
  BY Parts
<1>2. ASSUME NEW h \in Holders, mem[h] # NoVS
      PROVE  VSOK(mem[h], records') /\ (clean => SoundIn(records', mem[h].list))
  <2>1. VSOK(mem[h], records) /\ (clean => SoundIn(records, mem[h].list))
    BY <1>1, <1>2
  <2>2. VSOK(mem[h], Append(records, r))
    BY ONLY <1>1, <2>1, r \in RecordType, VSLater
  <2>3. ListsOK(records, mem[h].list)
    BY ONLY <2>1 DEF VSOK
  <2>4. SoundIn(records, mem[h].list) => SoundIn(Append(records, r), mem[h].list)
    BY ONLY <1>1, <2>3, r \in RecordType, ListsLater
  <2> QED BY <2>1, <2>2, <2>4
<1>3. MemOK'
  BY <1>1, <1>2 DEF MemOK
<1>4. clean => \A h \in Holders : mem'[h] # NoVS => SoundIn(records', mem'[h].list)
  BY <1>2
<1> QED BY <1>3, <1>4

LEMMA CreateRecordInv ==
  ASSUME IInv, CreateRecord PROVE IInv'
<1> PICK off : off = Len(records) + 1
  OBVIOUS
<1> PICK r : r = [lev |-> Task.lev, name |-> Task.name, refs |-> Task.refs]
  OBVIOUS
<1> PICK l : l = VS.list
  OBVIOUS
<1>1. /\ Busy /\ Task.do = "create" /\ Known = 0 /\ Trouble = "none"
      /\ Len(records) < MaxRec /\ records' = Append(records, r) /\ mem' = mem
      /\ IF Taken
         THEN /\ call' = [Failed(IF Task.lev = 4 THEN Added(off) ELSE VS) EXCEPT !.missed = TRUE]
              /\ live' = live /\ fresh' = fresh /\ clean' = clean
         ELSE /\ live' = live \cup {off}
              /\ call' = [call EXCEPT !.todo = Rest, !.vs = Added(off)]
              /\ fresh' = {} /\ clean' = (clean /\ call.exact)
  BY DEF CreateRecord, Creating, FileChanged
<1>2. /\ FileOK(records, live) /\ records \in Seq(RecordType) /\ Len(records) \in Nat
      /\ live \in SUBSET (1..Len(records)) /\ clean \in BOOLEAN
      /\ fresh \subseteq {h \in Holders : mem[h] # NoVS}
      /\ clean => /\ FileClean /\ \A h \in fresh : mem[h].list = Read(records, live)
                  /\ SoundIn(records, l)
                  /\ call.exact => l = Read(records, live) /\ ~call.missed
  <2>1. ~Idle
    BY <1>1, BusyFacts
  <2>2. VS.list = call.vs.list
    BY DEF VS
  <2> QED BY <2>1, <2>2, Parts
<1>3. /\ ~Idle /\ call \in CallType /\ VS = call.vs /\ VS \in VSType /\ VSOK(VS, records)
      /\ Rest \in Seq(TaskType) /\ Shape(Rest, l)
      /\ Task \in CreateTask /\ Uses(Task.lev, Task.refs) /\ Creates(Rest)
  BY <1>1, BusyFacts
<1>4. r \in RecordType /\ r.lev = Task.lev /\ r.name = Task.name /\ r.refs = Task.refs /\ Uses(r.lev, r.refs)
  <2>1. Task.lev \in Levels /\ Task.name \in AllNames /\ Task.refs \in Seq(AllNames)
    BY ONLY <1>3 DEF CreateTask
  <2>2. r \in RecordType /\ r.lev = Task.lev /\ r.name = Task.name /\ r.refs = Task.refs
    BY ONLY <2>1, r = [lev |-> Task.lev, name |-> Task.name, refs |-> Task.refs] DEF RecordType
  <2> QED BY ONLY <2>2, <1>3
<1> PICK e : e = NewEntry(records, VS, r)
  OBVIOUS
<1> PICK w : w = WithEntry(VS, r.lev, e)
  OBVIOUS
<1>5. e.refs = Refs /\ e = [name |-> Task.name, off |-> off, refs |-> Refs]
  BY <1>4 DEF Refs, List, NewEntry
<1>6. w = Added(off)
  BY <1>4, <1>5 DEF Added, WithEntry
<1>7. /\ e \in Entry /\ w \in VSType /\ VSOK(w, records')
      /\ w.list = [l EXCEPT ![r.lev] = Append(@, e)]
      /\ SoundIn(records, l) => SoundIn(records', w.list)
  <2>1. /\ e \in Entry /\ w \in VSType /\ VSOK(w, Append(records, r))
        /\ w.list = [VS.list EXCEPT ![r.lev] = Append(@, e)]
        /\ SoundIn(records, VS.list) => SoundIn(Append(records, r), w.list)
    <3>1. AddsEntry(records, VS, r, NewEntry(records, VS, r), WithEntry(VS, r.lev, NewEntry(records, VS, r)))
      BY ONLY <1>2, <1>3, <1>4, EntryAdded
    <3>2. AddsEntry(records, VS, r, e, w)
      BY ONLY <3>1, e = NewEntry(records, VS, r), w = WithEntry(VS, r.lev, e)
    <3> QED BY ONLY <3>2 DEF AddsEntry
  <2> QED BY ONLY <2>1, <1>1, l = VS.list
<1>8. /\ FileOK(records', live)
      /\ (\A o \in live : ~(records[o].lev = r.lev /\ records[o].name = r.name)) =>
            FileOK(records', live \cup {off})
      /\ \A o \in live : DefinedIn(records, live, o) =>
            DefinedIn(records', live, o) /\ DefinedIn(records', live \cup {off}, o)
  <2>1. /\ FileOK(Append(records, r), live)
        /\ (\A o \in live : ~(records[o].lev = r.lev /\ records[o].name = r.name)) =>
              FileOK(Append(records, r), live \cup {Len(records) + 1})
        /\ \A o \in live : DefinedIn(records, live, o) =>
              DefinedIn(Append(records, r), live, o) /\ DefinedIn(Append(records, r), live \cup {Len(records) + 1}, o)
    BY ONLY <1>2, <1>4, FileLater
  <2> QED BY ONLY <2>1, <1>1, off = Len(records) + 1
<1>9. Len(records') <= MaxRec
  <2>1. Len(records') = Len(records) + 1
    BY <1>1, <1>2
  <2>2. MaxRec \in Nat
    BY BoundAssumption
  <2> QED BY ONLY <2>1, <2>2, <1>1, <1>2
<1>10. /\ MemOK'
       /\ clean => \A h \in Holders : mem'[h] # NoVS => SoundIn(records', mem'[h].list)
  <2>1. fresh' = fresh \/ fresh' = {}
    BY ONLY <1>1
  <2> QED BY <2>1, <1>1, <1>4, MemLater
<1>11. \A o \in live : (records[o].lev = r.lev /\ records[o].name = r.name) => Taken
  BY <1>4 DEF Taken, At
<1>12. CASE Taken
  <2> PICK z \in Seq(TaskType) : z = <<>>
    BY NothingLeft
  <2> PICK v : v = IF Task.lev = 4 THEN Added(off) ELSE VS
    OBVIOUS
  <2>1. VSOK(VS, records') /\ (SoundIn(records, l) => SoundIn(records', l))
    <3>1. VSOK(VS, Append(records, r))
      BY ONLY <1>2, <1>3, <1>4, VSLater
    <3>2. ListsOK(records, l)
      BY ONLY <1>3, l = VS.list DEF VSOK
    <3>3. SoundIn(records, l) => SoundIn(Append(records, r), l)
      BY ONLY <1>2, <1>4, <3>2, ListsLater
    <3> QED BY ONLY <1>1, <3>1, <3>3
  <2>2. v \in VSType /\ VSOK(v, records') /\ (SoundIn(records, l) => SoundIn(records', v.list))
    BY ONLY <1>3, <1>6, <1>7, <2>1, l = VS.list, v = IF Task.lev = 4 THEN Added(off) ELSE VS
  <2> PICK c : c = [call EXCEPT !.todo = z, !.err = TRUE, !.vs = v]
    OBVIOUS
  <2>3. c \in CallType /\ c.todo = z /\ c.vs = v /\ c.exact = call.exact
    BY ONLY <1>3, <2>2, z \in Seq(TaskType), c = [call EXCEPT !.todo = z, !.err = TRUE, !.vs = v]
       DEF CallType, TaskType
  <2>4. call' = [c EXCEPT !.missed = TRUE]
    BY <1>1, <1>12 DEF Failed
  <2>5. call' \in CallType /\ call'.todo = z /\ call'.vs = v /\ call'.exact = call.exact
    <3>1. LET f == [c EXCEPT !.missed = TRUE]
          IN  f \in CallType /\ f.todo = c.todo /\ f.vs = c.vs /\ f.exact = c.exact
      BY ONLY <2>3 DEF CallType, TaskType
    <3> QED BY ONLY <3>1, <2>3, <2>4
  <2>6. ~(clean /\ call.exact)
    <3>1. SUFFICES ASSUME clean, call.exact PROVE FALSE
      OBVIOUS
    <3>2. PICK o \in live : records[o].lev = r.lev /\ records[o].name = r.name
      BY <1>4, <1>12 DEF Taken, At
    <3>3. l = Read(records, live)
      BY ONLY <3>1, <1>2
    <3>4. r.lev \in Levels
      BY ONLY <1>4 DEF RecordType
    <3>5. PICK i \in DOMAIN l[r.lev] : l[r.lev][i].name = r.name
      <4>1. \A x \in live : records[x].lev = r.lev =>
              \E i \in DOMAIN Read(records, live)[r.lev] :
                 /\ Read(records, live)[r.lev][i].off = x
                 /\ Read(records, live)[r.lev][i].name = records[x].name
        BY ONLY <3>4, <1>2, ReadHas
      <4> QED BY ONLY <4>1, <3>2, <3>3
    <3>6. 0 \notin DOMAIN l[r.lev]
      <4>1. l[r.lev] \in Seq(Entry)
        BY <1>3, <3>4 DEF VSType
      <4> QED BY ONLY <4>1
    <3>7. IndexOf(l[r.lev], r.name) # 0
      BY ONLY <3>5, <3>6, IndexOfFacts
    <3>8. Known = IndexOf(l[r.lev], r.name)
      BY <1>4 DEF Known, List
    <3> QED BY ONLY <3>7, <3>8, <1>1
  <2>7. FileOK(records, live)' /\ (clean \in BOOLEAN)'
    BY <1>1, <1>2, <1>8, <1>12
  <2>8. CallOK'
    <3>1. Shape(z, v.list)
      BY NothingLeft
    <3> QED BY <3>1, <2>2, <2>5 DEF CallOK
  <2>9. clean' => FileClean' /\ MemClean'
    <3>1. SUFFICES ASSUME clean PROVE FileClean' /\ MemClean'
      BY <1>1, <1>12
    <3>2. \A o \in live : DefinedIn(records', live, o)
      BY <3>1, <1>2, <1>8 DEF FileClean
    <3>3. FileClean'
      BY <3>2, <1>1, <1>12 DEF FileClean
    <3>4. Read(records', live) = Read(records, live)
      <4>1. Read(Append(records, r), live) = Read(records, live)
        BY ONLY <1>2, <1>4, ReadLater
      <4> QED BY ONLY <4>1, <1>1
    <3>5. \A h \in fresh' : mem'[h].list = Read(records', live')
      BY ONLY <3>1, <3>4, <1>1, <1>2, <1>12
    <3>6. MemClean'
      BY <3>1, <3>5, <1>10 DEF MemClean
    <3> QED BY <3>3, <3>6
  <2>10. clean' => CallClean'
    <3>1. SUFFICES ASSUME clean PROVE CallClean'
      BY <1>1, <1>12
    <3>2. SoundIn(records', call'.vs.list)
      BY ONLY <3>1, <1>2, <2>2, <2>5
    <3>3. ~call'.exact
      BY ONLY <3>1, <2>5, <2>6
    <3> QED BY <3>2, <3>3 DEF CallClean
  <2> QED BY <1>9, <1>10, <2>7, <2>8, <2>9, <2>10 DEF IInv
<1>13. CASE ~Taken
  <2>1. /\ live' = live \cup {off} /\ fresh' = {} /\ clean' = (clean /\ call.exact)
        /\ call' = [call EXCEPT !.todo = Rest, !.vs = w]
    BY ONLY <1>1, <1>6, <1>13
  <2>2. /\ call' \in CallType /\ call'.todo = Rest /\ call'.vs = w
        /\ call'.exact = call.exact /\ call'.missed = call.missed
    <3>1. LET f == [call EXCEPT !.todo = Rest, !.vs = w] IN
          /\ f \in CallType /\ f.todo = Rest /\ f.vs = w
          /\ f.exact = call.exact /\ f.missed = call.missed
      BY ONLY <1>3, <1>7 DEF CallType, TaskType
    <3> QED BY ONLY <3>1, <2>1
  <2>3. \A o \in live : ~(records[o].lev = r.lev /\ records[o].name = r.name)
    BY ONLY <1>11, <1>13
  <2>4. FileOK(records, live)' /\ (clean \in BOOLEAN)'
    <3>1. FileOK(records', live')
      BY ONLY <2>1, <2>3, <1>8
    <3>2. clean' \in BOOLEAN
      BY ONLY <2>1
    <3> QED BY <3>1, <3>2
  <2>5. Shape(Rest, w.list) /\ Guarded(Rest, w.list)
    BY ONLY <1>3, GuardedPlain DEF Shape
  <2>6. CallOK'
    BY <1>7, <2>2, <2>5 DEF CallOK
  <2>7. ASSUME clean' PROVE FileClean' /\ MemClean' /\ CallClean'
    <3>1. clean /\ call.exact /\ l = Read(records, live) /\ ~call.missed /\ SoundIn(records, l)
      BY ONLY <2>1, <2>7, <1>2
    <3>2. \A o \in live : DefinedIn(records, live, o)
      BY <3>1, <1>2 DEF FileClean
    <3>3. \A n \in Range(r.refs) : \E p \in live : records[p].lev = r.lev - 1 /\ records[p].name = n
      <4>1. SUFFICES ASSUME NEW n \in Range(r.refs)
                     PROVE  \E p \in live : records[p].lev = r.lev - 1 /\ records[p].name = n
        OBVIOUS
      <4>2. r.lev \in Levels /\ r.refs \in Seq(AllNames)
        BY ONLY <1>4 DEF RecordType
      <4>3. r.lev # 1
        <5>1. SUFFICES ASSUME r.lev = 1 PROVE FALSE
          OBVIOUS
        <5>2. r.refs = <<>>
          BY ONLY <5>1, <1>4 DEF Uses
        <5>3. Range(<<>>) = {}
          BY DEF Range
        <5> QED BY <5>2, <5>3, <4>1
      <4>4. r.lev - 1 \in Levels
        BY ONLY <4>2, <4>3 DEF Levels
      <4> PICK b : b = l[r.lev - 1]
        OBVIOUS
      <4>5. b \in Seq(Entry)
        BY <1>3, <4>4 DEF VSType
      <4>6. Refs = Resolve(b, r.refs)
        BY <4>3, <1>4 DEF Refs, List
      <4>7. 0 \notin Range(Refs)
        BY <1>1 DEF Trouble
      <4>8. PICK i \in DOMAIN b : b[i].name = n
        BY ONLY <4>1, <4>2, <4>5, <4>6, <4>7, ResolveFacts
      <4>9. \A x \in DOMAIN Read(records, live)[r.lev - 1] :
               /\ Read(records, live)[r.lev - 1][x].off \in live
               /\ records[Read(records, live)[r.lev - 1][x].off].lev = r.lev - 1
               /\ records[Read(records, live)[r.lev - 1][x].off].name = Read(records, live)[r.lev - 1][x].name
        BY ONLY <4>4, <1>2, ReadHas
      <4> QED BY ONLY <4>8, <4>9, <3>1, b = l[r.lev - 1]
    <3>4. DefinedIn(records', live', off)
      <4>1. records'[off] = r /\ \A o \in live : records'[o] = records[o]
        BY ONLY <1>1, <1>2, <1>4, off = Len(records) + 1, AppendFacts
      <4> QED BY ONLY <4>1, <3>3, <2>1 DEF DefinedIn
    <3>5. FileClean'
      <4>1. \A o \in live : DefinedIn(records', live', o)
        BY ONLY <3>2, <2>1, <1>8
      <4> QED BY <4>1, <3>4, <2>1 DEF FileClean
    <3>6. MemClean'
      BY <3>1, <2>1, <1>10 DEF MemClean
    <3>7. w.list = Read(records', live')
      <4>1. \A o \in live : records[o].lev = r.lev => records[o].name # r.name
        BY ONLY <2>3
      <4>2. Read(Append(records, r), live \cup {Len(records) + 1}) =
              [Read(records, live) EXCEPT ![r.lev] = Append(@,
                 [name |-> r.name, off |-> Len(records) + 1,
                  refs |-> Resolve(IF r.lev = 1 THEN <<>> ELSE Read(records, live)[r.lev - 1], r.refs)])]
        <5>1. AddsRecord(records, live, r)
          BY ONLY <4>1, <3>2, <1>2, <1>4, RecordAdded
        <5> QED BY ONLY <5>1 DEF AddsRecord
      <4>3. Resolve(IF r.lev = 1 THEN <<>> ELSE Read(records, live)[r.lev - 1], r.refs) =
            IF r.lev = 1 THEN <<>> ELSE Resolve(VS.list[r.lev - 1], r.refs)
        <5>1. CASE r.lev = 1
          <6>1. r.refs = <<>>
            BY ONLY <5>1, <1>4 DEF Uses
          <6>2. Resolve(<<>>, <<>>) = <<>>
            BY DEF Resolve
          <6> QED BY ONLY <5>1, <6>1, <6>2
        <5>2. CASE r.lev # 1
          BY ONLY <5>2, <3>1, l = VS.list
        <5> QED BY ONLY <5>1, <5>2
      <4>4. e = [name |-> r.name, off |-> Len(records) + 1,
                 refs |-> Resolve(IF r.lev = 1 THEN <<>> ELSE Read(records, live)[r.lev - 1], r.refs)]
        BY <4>3 DEF NewEntry
      <4>5. Read(Append(records, r), live \cup {Len(records) + 1}) =
            [Read(records, live) EXCEPT ![r.lev] = Append(@, e)]
        BY ONLY <4>2, <4>4
      <4> QED BY ONLY <4>5, <3>1, <1>1, <1>7, <2>1, off = Len(records) + 1
    <3>8. CallClean'
      <4>1. SoundIn(records', call'.vs.list)
        BY ONLY <3>1, <1>7, <2>2
      <4>2. call'.vs.list = Read(records', live') /\ ~call'.missed /\ Guarded(call'.todo, call'.vs.list)
        BY ONLY <3>1, <3>7, <2>2, <2>5
      <4> QED BY <4>1, <4>2 DEF CallClean
    <3> QED BY <3>5, <3>6, <3>8
  <2> QED BY <1>9, <1>10, <2>4, <2>6, <2>7 DEF IInv
<1> QED BY <1>12, <1>13

\* The users of a record, from the last one to the first, come before it.
LEMMA RemoveUsersInv ==
  ASSUME IInv, RemoveUsers PROVE IInv'
<1> PICK todo : todo = call.todo
  OBVIOUS
<1> PICK l : l = VS.list
  OBVIOUS
<1> PICK k : k = todo[1].lev
  OBVIOUS
<1> PICK i : i = todo[1].idx
  OBVIOUS
<1> PICK U : U = TaskUsers
  OBVIOUS
<1> PICK t : t = Expanded(todo, U)
  OBVIOUS
<1>1. /\ Busy /\ Task.do = "remove" /\ Task.cmd \in Starred /\ ~BadIndex /\ TaskUsers # {}
      /\ UNCHANGED <<file, mem, fresh, clean>>
      /\ call' = [call EXCEPT !.todo = UsersFirst \o Rest]
  BY DEF RemoveUsers, Removing
<1>2. /\ ~Idle /\ call \in CallType /\ VS = call.vs /\ VS \in VSType
      /\ todo \in Seq(TaskType) /\ todo # <<>> /\ Task = todo[1] /\ Rest = Tail(todo)
      /\ Task \in RemoveTask /\ (Plain(todo) \/ Starry(todo, l))
  BY <1>1, BusyFacts
<1>3. Starry(todo, l)
  <2>1. 1 \in DOMAIN todo
    BY ONLY <1>2, RestFacts
  <2>2. ~Plain(todo)
    BY ONLY <2>1, <1>1, <1>2 DEF Plain
  <2> QED BY ONLY <2>2, <1>2
<1>4. i \in DOMAIN l[k]
  BY <1>1, <1>2 DEF BadIndex, List
<1>5. k # 4 /\ k \in Levels
  <2>1. k # 4
    BY <1>1, <1>2 DEF TaskUsers, Users
  <2> QED BY <2>1, <1>2 DEF RemoveTask
<1>6. UsersIn(l, k, i) = U
  BY <1>2, <1>5 DEF TaskUsers, Users, UsersIn
<1> PICK n : n = Len(l[k + 1])
  OBVIOUS
<1>7. n \in Nat /\ U \in SUBSET (1..n)
  <2>1. k + 1 \in Levels
    BY <1>5 DEF Levels
  <2>2. l[k + 1] \in Seq(Entry)
    BY <2>1, <1>2 DEF VSType
  <2>3. n \in Nat /\ DOMAIN l[k + 1] = 1..n
    BY ONLY <2>2, n = Len(l[k + 1])
  <2>4. U \subseteq DOMAIN l[k + 1]
    BY ONLY <1>5, <1>6 DEF UsersIn
  <2> QED BY ONLY <2>3, <2>4
<1>8. t = UsersFirst \o Rest
  BY <1>2 DEF UsersFirst, Expanded
<1>9. t \in Seq(TaskType) /\ Starry(t, l) /\ (Guarded(todo, l) => Guarded(t, l))
  <2>1. todo[1].lev # 4 /\ todo[1].idx \in DOMAIN l[todo[1].lev]
    BY ONLY <1>4, <1>5, k = todo[1].lev, i = todo[1].idx
  <2>2. UsersIn(l, todo[1].lev, todo[1].idx) \subseteq U
    BY ONLY <1>6, k = todo[1].lev, i = todo[1].idx
  <2> QED BY ONLY <1>2, <1>3, <1>7, <2>1, <2>2, t = Expanded(todo, U), ExpandStarry
<1>10. LET f == [call EXCEPT !.todo = t] IN
        /\ f \in CallType
        /\ f.todo = t /\ f.vs = call.vs /\ f.exact = call.exact /\ f.missed = call.missed
  BY ONLY <1>2, <1>9 DEF CallType, TaskType
<1>11. /\ call' \in CallType
       /\ call'.todo = t /\ call'.vs = call.vs /\ call'.exact = call.exact /\ call'.missed = call.missed
  BY ONLY <1>1, <1>8, <1>10
<1>12. Shape(t, call.vs.list)
  BY <1>2, <1>9 DEF Shape
<1>13. clean /\ call.exact => Guarded(t, call.vs.list)
  <2>1. clean /\ call.exact => Guarded(todo, l)
    BY <1>2, Parts
  <2> QED BY <2>1, <1>2, <1>9
<1> QED BY <1>1, <1>2, <1>11, <1>12, <1>13, CallKept

\* A structure after an entry has left it.
LEMMA DropVS ==
  ASSUME NEW R, NEW v, VSOK(v, R), NEW k \in Levels, NEW i \in DOMAIN v.list[k]
  PROVE  VSOK(Drop(v, k, i), R) /\ Drop(v, k, i).list = DropList(v.list, k, i)
<1> PICK w : w = Drop(v, k, i)
  OBVIOUS
<1> PICK d : d = DropList(v.list, k, i)
  OBVIOUS
<1>1. v \in VSType /\ ListsOK(R, v.list) /\ \A m \in v.bare : v.list[m] = <<>>
  BY DEF VSOK
<1>2. v.list \in [Levels -> Seq(Entry)] /\ v.bare \in SUBSET Levels /\ v = [list |-> v.list, bare |-> v.bare]
  BY ONLY <1>1 DEF VSType
<1>3. w = [v EXCEPT !.list = d]
  BY DEF Drop
<1>4. w = [list |-> d, bare |-> v.bare]
  BY ONLY <1>2, <1>3
<1>5. ListsOK(R, d)
  BY <1>1, DropOK
<1>6. w \in VSType
  BY ONLY <1>2, <1>4, <1>5 DEF VSType, ListsOK
<1>7. ASSUME NEW m \in v.bare PROVE d[m] = <<>>
  <2>1. m \in Levels /\ v.list[m] = <<>> /\ d[m] \in Seq(Entry)
    BY <1>1, <1>2, <1>5 DEF ListsOK
  <2>2. m # k
    BY <2>1
  <2>3. k + 1 \in Levels => DOMAIN d[k + 1] = DOMAIN v.list[k + 1]
    BY <1>1, DropFacts
  <2>4. \A x \in Levels : x # k /\ x # k + 1 => d[x] = v.list[x]
    BY <1>1, DropFacts
  <2>5. CASE m = k + 1
    <3>1. DOMAIN d[m] = {}
      BY ONLY <2>1, <2>3, <2>5
    <3>2. Len(d[m]) \in Nat /\ DOMAIN d[m] = 1..Len(d[m])
      BY ONLY <2>1, LenProperties
    <3> PICK n : n = Len(d[m])
      OBVIOUS
    <3>4. n \in Nat /\ 1 \notin 1..n
      BY ONLY <3>1, <3>2, n = Len(d[m])
    <3>3. Len(d[m]) = 0
      BY ONLY <3>4, n = Len(d[m])
    <3> QED BY ONLY <3>3, <2>1, EmptySeq
  <2> QED BY ONLY <2>1, <2>2, <2>4, <2>5
<1> QED BY ONLY <1>4, <1>5, <1>6, <1>7, w = Drop(v, k, i), d = DropList(v.list, k, i) DEF VSOK

\* What is linked still has all it uses when a record that has no users leaves.
LEMMA DefinedAfter ==
  ASSUME NEW R, NEW L, FileOK(R, L), \A p \in L : DefinedIn(R, L, p),
         NEW k \in Levels, NEW i \in DOMAIN Read(R, L)[k], UsersIn(Read(R, L), k, i) = {},
         NEW o, o = Read(R, L)[k][i].off
  PROVE  \A p \in L \ {o} : DefinedIn(R, L \ {o}, p)
<1> PICK l : l = Read(R, L)
  OBVIOUS
<1>1. SUFFICES ASSUME NEW p \in L \ {o}, NEW n \in Range(R[p].refs)
               PROVE  \E q \in L \ {o} : R[q].lev = R[p].lev - 1 /\ R[q].name = n
  BY DEF DefinedIn
<1>2. PICK q \in L : R[q].lev = R[p].lev - 1 /\ R[q].name = n
  BY DEF DefinedIn
<1>3. CASE q # o
  BY <1>2, <1>3
<1>4. CASE q = o
  <2>1. R[o].lev = k
    BY ReadHas
  <2>2. R \in Seq(RecordType) /\ p \in 1..Len(R)
    BY DEF FileOK
  <2>3. R[p].lev \in Levels /\ R[p].refs \in Seq(AllNames)
    <3>1. R[p] \in RecordType
      BY ONLY <2>2, ElementOfSeq
    <3> QED BY ONLY <3>1 DEF RecordType
  <2>4. R[p].lev = k + 1 /\ k + 1 \in Levels /\ k # 4 /\ (k + 1) - 1 = k
    BY <1>2, <1>4, <2>1, <2>3 DEF Levels
  <2> PICK m : m = k + 1
    OBVIOUS
  <2>5. PICK u \in DOMAIN l[m] : l[m][u].off = p
    BY <2>4, ReadHas
  <2>6. PICK j \in DOMAIN R[p].refs : R[p].refs[j] = n
    BY DEF Range
  <2>7. /\ DOMAIN l[m] = DOMAIN Offs(R, L, m)
        /\ \A x \in DOMAIN Offs(R, L, m) :
             /\ l[m][x].off = Offs(R, L, m)[x]
             /\ DOMAIN l[m][x].refs = DOMAIN R[Offs(R, L, m)[x]].refs
             /\ \A y \in DOMAIN l[m][x].refs :
                  l[m][x].refs[y] = IndexOf(NamesOf(R, L, m - 1), R[Offs(R, L, m)[x]].refs[y])
    BY <2>4, ReadFacts
  <2>8. j \in DOMAIN l[m][u].refs /\ l[m][u].refs[j] = IndexOf(NamesOf(R, L, k), n)
    BY ONLY <2>4, <2>5, <2>6, <2>7, m = k + 1
  <2>9. i \in DOMAIN Offs(R, L, k) /\ Offs(R, L, k)[i] = o
    BY ReadFacts
  <2>10. IndexOf(NamesOf(R, L, k), n) = i
    BY <1>2, <1>4, <2>9, NamesFacts
  <2>11. i \in Range(l[m][u].refs)
    BY ONLY <2>8, <2>10 DEF Range
  <2>12. u \in UsersIn(l, k, i)
    BY ONLY <2>4, <2>5, <2>11, m = k + 1 DEF UsersIn
  <2> QED BY <2>12
<1> QED BY <1>3, <1>4

\* What unlinking a record starts from.
LEMMA UnlinkFacts ==
  ASSUME IInv, UnlinkRecord, NEW k, k = Task.lev, NEW i, i = Task.idx
  PROVE  /\ Busy /\ Task.do \in {"remove", "unlink"}
         /\ k \in Levels /\ i \in DOMAIN VS.list[k]
         /\ VS.list[k][i] \in Entry /\ Uses(k, VS.list[k][i].refs)
         /\ Guarded(call.todo, VS.list) => UsersIn(VS.list, k, i) = {}
<1> PICK todo : todo = call.todo
  OBVIOUS
<1> PICK l : l = VS.list
  OBVIOUS
<1>1. /\ Busy
      /\ \/ Task.do = "unlink"
         \/ Task.do = "remove" /\ ~BadIndex /\ TaskUsers = {}
  BY DEF UnlinkRecord, InUse
<1>2. /\ VSOK(VS, records) /\ todo \in Seq(TaskType) /\ todo # <<>> /\ Task = todo[1]
      /\ Task \in RemoveTask /\ (Plain(todo) \/ Starry(todo, l))
  BY <1>1, BusyFacts
<1>3. k \in Levels
  BY ONLY <1>2, k = Task.lev DEF RemoveTask
<1>4. 1 \in DOMAIN todo /\ DOMAIN todo \subseteq Nat \ {0}
  BY ONLY <1>2, RestFacts
<1>5. i \in DOMAIN l[k]
  <2>1. CASE Task.do = "unlink"
    <3>1. ~Plain(todo)
      BY ONLY <1>2, <1>4, <2>1 DEF Plain
    <3>2. Starry(todo, l)
      BY ONLY <1>2, <3>1
    <3> QED BY ONLY <1>2, <1>4, <2>1, <3>2, k = Task.lev, i = Task.idx DEF Starry
  <2>2. CASE ~BadIndex
    BY <2>2 DEF BadIndex, List
  <2> QED BY <1>1, <2>1, <2>2
<1>6. l[k][i] \in Entry /\ Uses(k, l[k][i].refs)
  <2>1. ListsOK(records, l)
    BY ONLY <1>2, l = VS.list DEF VSOK
  <2>2. l[k] \in Seq(Entry) /\ Uses(k, l[k][i].refs)
    BY ONLY <2>1, <1>3, <1>5 DEF ListsOK
  <2> QED BY ONLY <2>2, <1>5
<1>7. Guarded(todo, l) => UsersIn(l, k, i) = {}
  <2>1. CASE Task.do = "unlink"
    <3>1. SUFFICES ASSUME Guarded(todo, l), NEW u \in UsersIn(l, k, i) PROVE FALSE
      OBVIOUS
    <3>2. \E p \in DOMAIN todo : p < 1
      BY ONLY <3>1, <1>2, <1>4, <2>1, k = Task.lev, i = Task.idx DEF Guarded
    <3> QED BY ONLY <3>2, <1>4
  <2>2. CASE TaskUsers = {}
    BY <2>2 DEF TaskUsers, Users, UsersIn
  <2> QED BY <1>1, <2>1, <2>2
<1> QED BY <1>1, <1>3, <1>5, <1>6, <1>7

\* A record leaves the file and the structure: what is left leads where it did.
LEMMA UnlinkLinked ==
  ASSUME IInv, UnlinkRecord, VS.list[Task.lev][Task.idx].off \in live PROVE IInv'
<1> PICK todo : todo = call.todo
  OBVIOUS
<1> PICK l : l = VS.list
  OBVIOUS
<1> PICK k : k = Task.lev
  OBVIOUS
<1> PICK i : i = Task.idx
  OBVIOUS
<1> PICK e : e = l[k][i]
  OBVIOUS
<1> PICK o : o = e.off
  OBVIOUS
<1> PICK w : w = Drop(VS, k, i)
  OBVIOUS
<1> PICK d : d = DropList(l, k, i)
  OBVIOUS
<1> PICK t : t = PurgeBelow(Task.cmd, k, e.refs) \o Rest
  OBVIOUS
<1>1. /\ live' = live \ {o} /\ records' = records /\ mem' = mem
      /\ fresh' = {} /\ clean' = (clean /\ call.exact)
      /\ call' = [call EXCEPT !.todo = t, !.vs = w, !.err = FALSE]
  BY DEF UnlinkRecord, FileChanged, List
<1>2. /\ Busy /\ Task.do \in {"remove", "unlink"}
      /\ k \in Levels /\ i \in DOMAIN l[k]
      /\ e \in Entry /\ Uses(k, e.refs)
      /\ Guarded(todo, l) => UsersIn(l, k, i) = {}
  BY UnlinkFacts
<1>3. /\ ~Idle /\ call \in CallType /\ VS = call.vs /\ VS \in VSType /\ VSOK(VS, records)
      /\ todo \in Seq(TaskType) /\ todo # <<>> /\ Task = todo[1] /\ Rest = Tail(todo)
      /\ Plain(todo) \/ Starry(todo, l)
  BY <1>2, BusyFacts
<1>4. /\ FileOK(records, live) /\ Len(records) <= MaxRec
      /\ clean \in BOOLEAN
      /\ mem \in [Holders -> VSType \cup {NoVS}]
      /\ \A h \in Holders : mem[h] # NoVS => VSOK(mem[h], records)
      /\ clean => /\ FileClean /\ \A h \in Holders : mem[h] # NoVS => SoundIn(records, mem[h].list)
                  /\ SoundIn(records, l)
                  /\ call.exact => l = Read(records, live) /\ ~call.missed /\ Guarded(todo, l)
  <2>1. l = call.vs.list
    BY <1>3
  <2> QED BY <2>1, <1>3, Parts
<1>5. VSOK(w, records) /\ w.list = d /\ ListsOK(records, l)
  <2>1. VSOK(Drop(VS, k, i), records) /\ Drop(VS, k, i).list = DropList(VS.list, k, i)
    <3>1. i \in DOMAIN VS.list[k]
      BY ONLY <1>2, l = VS.list
    <3> QED BY ONLY <3>1, <1>2, <1>3, DropVS
  <2> QED BY ONLY <2>1, <1>3, w = Drop(VS, k, i), d = DropList(l, k, i), l = VS.list DEF VSOK
<1>6. t \in Seq(TaskType) /\ Shape(t, d) /\ (Guarded(todo, l) => Guarded(t, d))
  <2>1. e.refs \in Seq(Nat)
    BY ONLY <1>2 DEF Entry
  <2>2. t = PurgeBelow(todo[1].cmd, k, e.refs) \o Tail(todo)
    BY ONLY <1>3, t = PurgeBelow(Task.cmd, k, e.refs) \o Rest
  <2>3. k = todo[1].lev /\ i = todo[1].idx
    BY ONLY <1>3, k = Task.lev, i = Task.idx
  <2>4. /\ PurgeBelow(todo[1].cmd, k, e.refs) \o Tail(todo) \in Seq(TaskType)
        /\ Shape(PurgeBelow(todo[1].cmd, k, e.refs) \o Tail(todo), DropList(l, k, i))
        /\ Guarded(todo, l) =>
              Guarded(PurgeBelow(todo[1].cmd, k, e.refs) \o Tail(todo), DropList(l, k, i))
    BY ONLY <2>1, <2>3, <1>2, <1>3, <1>5, UnlinkShape
  <2> QED BY ONLY <2>2, <2>4, d = DropList(l, k, i)
<1> PICK c : c = [call EXCEPT !.todo = t, !.vs = w, !.err = FALSE]
  OBVIOUS
<1>7. c \in CallType /\ c.todo = t /\ c.vs = w /\ c.exact = call.exact /\ c.missed = call.missed
  <2>1. w \in VSType
    BY ONLY <1>5 DEF VSOK
  <2> QED BY ONLY <2>1, <1>3, <1>6, c = [call EXCEPT !.todo = t, !.vs = w, !.err = FALSE]
          DEF CallType, TaskType
<1>8. call' = c
  BY ONLY <1>1, c = [call EXCEPT !.todo = t, !.vs = w, !.err = FALSE]
<1>9. FileOK(records, live \ {o})
  BY ONLY <1>4 DEF FileOK
<1>10. FileOK(records, live)' /\ (Len(records) <= MaxRec)' /\ (clean \in BOOLEAN)'
  <2>1. clean' \in BOOLEAN
    BY ONLY <1>1
  <2>2. FileOK(records', live') /\ Len(records') <= MaxRec
    BY ONLY <1>1, <1>4, <1>9
  <2> QED BY <2>1, <2>2
<1>11. MemOK'
  BY <1>1, <1>4 DEF MemOK
<1>12. CallOK'
  <2>1. call' \in CallType /\ VSOK(call'.vs, records') /\ Shape(call'.todo, call'.vs.list)
    BY ONLY <1>1, <1>5, <1>6, <1>7, <1>8
  <2> QED BY <2>1 DEF CallOK
<1>13. ASSUME clean' PROVE FileClean' /\ MemClean' /\ CallClean'
  <2>1. /\ clean /\ call.exact /\ l = Read(records, live) /\ ~call.missed /\ Guarded(todo, l)
        /\ SoundIn(records, l) /\ UsersIn(l, k, i) = {}
    BY ONLY <1>1, <1>2, <1>4, <1>13
  <2>2. FileClean'
    <3>1. \A p \in live : DefinedIn(records, live, p)
      BY <2>1, <1>4 DEF FileClean
    <3>2. o = Read(records, live)[k][i].off /\ UsersIn(Read(records, live), k, i) = {}
          /\ i \in DOMAIN Read(records, live)[k]
      BY ONLY <2>1, <1>2, e = l[k][i], o = e.off
    <3>3. \A p \in live \ {o} : DefinedIn(records, live \ {o}, p)
      BY ONLY <3>1, <3>2, <1>2, <1>4, DefinedAfter
    <3>4. \A p \in live' : DefinedIn(records', live', p)
      BY ONLY <3>3, <1>1
    <3> QED BY <3>4 DEF FileClean
  <2>3. MemClean'
    BY <2>1, <1>1, <1>4 DEF MemClean
  <2>4. d = Read(records, live \ {o})
    <3>1. Read(records, live \ {Read(records, live)[k][i].off}) = DropList(Read(records, live), k, i)
      BY ONLY <2>1, <1>2, <1>4, ReadRemove
    <3> QED BY ONLY <3>1, <2>1, e = l[k][i], o = e.off, d = DropList(l, k, i)
  <2>5. SoundIn(records, d)
    <3>1. SoundIn(records, DropList(l, k, i))
      BY ONLY <2>1, <1>2, <1>5, DropSound
    <3> QED BY ONLY <3>1, d = DropList(l, k, i)
  <2>6. CallClean'
    <3>1. /\ SoundIn(records', call'.vs.list) /\ call'.vs.list = Read(records', live')
          /\ ~call'.missed /\ Guarded(call'.todo, call'.vs.list)
      BY ONLY <2>1, <2>4, <2>5, <1>1, <1>5, <1>6, <1>7, <1>8
    <3> QED BY <3>1 DEF CallClean
  <2> QED BY <2>2, <2>3, <2>6
<1> QED BY <1>10, <1>11, <1>12, <1>13 DEF IInv

\* From a structure that is up to date a record is always found in its chain.
LEMMA UnlinkMissed ==
  ASSUME IInv, UnlinkRecord, VS.list[Task.lev][Task.idx].off \notin live PROVE IInv'
<1>1. /\ UNCHANGED <<file, mem, fresh, clean>>
      /\ call' = [call EXCEPT !.todo = Rest, !.err = TRUE, !.missed = TRUE]
  BY DEF UnlinkRecord, List, file
<1>2. Busy /\ Task.lev \in Levels /\ Task.idx \in DOMAIN VS.list[Task.lev]
  BY UnlinkFacts
<1>3. /\ ~Idle /\ call \in CallType /\ VS = call.vs /\ VSOK(VS, records)
      /\ Rest \in Seq(TaskType) /\ Shape(Rest, VS.list)
  BY <1>2, BusyFacts
<1> PICK c : c = [call EXCEPT !.todo = Rest, !.err = TRUE, !.missed = TRUE]
  OBVIOUS
<1>4. c \in CallType /\ c.todo = Rest /\ c.vs = call.vs /\ c.exact = call.exact
  BY ONLY <1>3, c = [call EXCEPT !.todo = Rest, !.err = TRUE, !.missed = TRUE] DEF CallType, TaskType
<1>5. call' = c
  BY ONLY <1>1, c = [call EXCEPT !.todo = Rest, !.err = TRUE, !.missed = TRUE]
<1>6. ~(clean /\ call.exact)
  <2>1. SUFFICES ASSUME clean, call.exact PROVE FALSE
    OBVIOUS
  <2>2. FileOK(records, live) /\ VS.list = Read(records, live)
    BY <2>1, <1>3, Parts
  <2>3. VS.list[Task.lev][Task.idx].off \in live
    BY ONLY <2>2, <1>2, ReadHas
  <2> QED BY <2>3
<1>7. /\ FileOK(records, live) /\ Len(records) <= MaxRec /\ MemOK /\ clean \in BOOLEAN
      /\ clean => FileClean /\ MemClean /\ SoundIn(records, call.vs.list)
  BY <1>3 DEF IInv, CallClean
<1>8. /\ FileOK(records, live)' /\ (Len(records) <= MaxRec)' /\ MemOK' /\ (clean \in BOOLEAN)'
      /\ clean' => FileClean' /\ MemClean'
  BY <1>1, <1>7 DEF file, MemOK, FileClean, MemClean
<1>9. CallOK'
  BY <1>1, <1>3, <1>4, <1>5 DEF CallOK, file
<1>10. clean' => CallClean'
  BY <1>1, <1>4, <1>5, <1>6, <1>7 DEF CallClean, file
<1> QED BY <1>8, <1>9, <1>10 DEF IInv

LEMMA UnlinkRecordInv ==
  ASSUME IInv, UnlinkRecord PROVE IInv'
  BY UnlinkLinked, UnlinkMissed

\* The structure of a call that ends goes to its holders; it is up to date if the one the
\* call began with was and no record of it was missing.
LEMMA EndCallInv ==
  ASSUME IInv, NEW caught \in BOOLEAN, EndCall(caught) PROVE IInv'
<1> PICK S : S = Returned(caught)
  OBVIOUS
<1>1. /\ ~Idle /\ call' = NoCall /\ records' = records /\ live' = live /\ clean' = clean
      /\ mem' = [h \in Holders |-> IF h \in S THEN VS ELSE mem[h]]
      /\ fresh' = IF call.exact /\ ~call.missed THEN fresh \cup S ELSE fresh \ S
  BY DEF EndCall, file
<1>2. Idle'
  BY <1>1 DEF Idle
<1>3. /\ FileOK(records, live) /\ Len(records) <= MaxRec /\ clean \in BOOLEAN
      /\ mem \in [Holders -> VSType \cup {NoVS}]
      /\ \A h \in Holders : mem[h] # NoVS => VSOK(mem[h], records)
      /\ fresh \subseteq {h \in Holders : mem[h] # NoVS}
      /\ VSOK(VS, records)
      /\ clean => /\ FileClean /\ \A h \in fresh : mem[h].list = Read(records, live)
                  /\ \A h \in Holders : mem[h] # NoVS => SoundIn(records, mem[h].list)
                  /\ SoundIn(records, VS.list)
                  /\ call.exact => VS.list = Read(records, live)
  <2>1. VS = call.vs
    BY DEF VS
  <2> QED BY <1>1, <2>1, Parts
<1>4. S \subseteq Holders
  <2>1. call.to \in Vars \cup {Nowhere}
    BY <1>1, Parts, CallParts
  <2> QED BY <2>1 DEF Returned, Holders
<1>5. VS \in VSType /\ VS # NoVS
  <2>1. VS \in VSType
    BY <1>3 DEF VSOK
  <2> QED BY <2>1, NotNoVS
<1>6. fresh' \subseteq fresh \cup S /\ (~call.exact => fresh' \subseteq fresh \ S)
  BY ONLY <1>1
<1>7. \A h \in Holders : mem'[h] = IF h \in S THEN VS ELSE mem[h]
  BY ONLY <1>1
<1>8. MemOK'
  <2>1. mem' \in [Holders -> VSType \cup {NoVS}]
    BY ONLY <1>1, <1>3, <1>5
  <2>2. \A h \in Holders : mem'[h] # NoVS => VSOK(mem'[h], records')
    BY ONLY <1>1, <1>3, <1>7
  <2>3. fresh' \subseteq {h \in Holders : mem'[h] # NoVS}
    BY ONLY <1>3, <1>4, <1>5, <1>6, <1>7
  <2> QED BY <2>1, <2>2, <2>3 DEF MemOK
<1>9. clean' => FileClean' /\ MemClean'
  <2>1. SUFFICES ASSUME clean PROVE FileClean' /\ MemClean'
    BY <1>1
  <2>2. FileClean'
    BY <2>1, <1>1, <1>3 DEF FileClean
  <2>3. \A h \in fresh' : mem'[h].list = Read(records', live')
    BY ONLY <2>1, <1>1, <1>3, <1>4, <1>6, <1>7
  <2>4. \A h \in Holders : mem'[h] # NoVS => SoundIn(records', mem'[h].list)
    BY ONLY <2>1, <1>1, <1>3, <1>7
  <2> QED BY <2>2, <2>3, <2>4 DEF MemClean
<1>10. FileOK(records, live)' /\ (Len(records) <= MaxRec)' /\ (clean \in BOOLEAN)'
  BY <1>1, <1>3
<1> QED BY <1>2, <1>8, <1>9, <1>10 DEF IInv

\* What is in memory is lost, what is on file stays.
LEMMA CrashInv ==
  ASSUME IInv, Crash PROVE IInv'
<1>1. /\ records' = records /\ live' = live /\ clean' = clean /\ call' = NoCall
      /\ mem' = [h \in Holders |-> NoVS] /\ fresh' = {}
  BY DEF Crash, file
<1>2. Idle'
  BY <1>1 DEF Idle
<1>3. FileOK(records, live)' /\ (Len(records) <= MaxRec)' /\ (clean \in BOOLEAN)' /\ (clean' => FileClean')
  BY <1>1 DEF IInv, FileClean
<1>4. MemOK' /\ MemClean'
  BY <1>1 DEF MemOK, MemClean
<1> QED BY <1>2, <1>3, <1>4 DEF IInv

LEMMA StepInv ==
  ASSUME IInv, [Next]_vars PROVE IInv'
<1>1. CASE UNCHANGED vars
  <2>1. /\ records' = records /\ live' = live /\ mem' = mem /\ call' = call
        /\ fresh' = fresh /\ clean' = clean
    BY <1>1 DEF vars
  <2>2. FileOK(records, live)' /\ (Len(records) <= MaxRec)' /\ (clean \in BOOLEAN)'
    BY <2>1 DEF IInv
  <2>3. MemOK' /\ (~Idle' => CallOK')
    BY <2>1 DEF IInv, MemOK, CallOK, Idle
  <2>4. clean' => FileClean' /\ MemClean' /\ (~Idle' => CallClean')
    BY <2>1 DEF IInv, FileClean, MemClean, CallClean, Idle
  <2> QED BY <2>2, <2>3, <2>4 DEF IInv
<1>2. ASSUME NEW g \in Vars \cup {Nowhere}, Open(g) PROVE IInv'
  BY <1>2, OpenInv
<1>3. ASSUME NEW h \in Holders, NEW g \in Vars \cup {Nowhere}, NEW k \in Levels, NEW n \in NamesAt[k],
             NEW refs \in Lists[k], NEW fits \in BOOLEAN, CallCreate(h, g, k, n, refs, fits)
      PROVE  IInv'
  BY <1>3, CallCreateInv
<1>4. ASSUME NEW h \in Holders, NEW g \in Vars \cup {Nowhere}, NEW k \in Levels, NEW n \in NamesAt[k],
             NEW cmd \in {"remove", "purge", "*remove", "*purge"}, CallRemove(h, g, cmd, k, n)
      PROVE  IInv'
  BY <1>4, CallRemoveInv DEF Commands
<1>5. ASSUME NEW h \in Holders, NEW g \in Vars \cup {Nowhere}, NEW n \in EasyNames, NEW elms \in Lists[2],
             NEW fits3 \in BOOLEAN, NEW fits4 \in BOOLEAN, CallEasy(h, g, n, elms, fits3, fits4)
      PROVE  IInv'
  BY <1>5, CallEasyInv
<1>6. ASSUME CallStep PROVE IInv'
  <2>1. ASSUME NEW caught \in BOOLEAN, EndCall(caught) PROVE IInv'
    BY <2>1, EndCallInv
  <2> QED BY <1>6, <2>1, CreateExistingInv, CreateInvalidInv, CreateRecordInv, RemoveRaisesInv,
             RemoveUsedInv, RemoveUsersInv, UnlinkRecordInv DEF CallStep
<1>7. ASSUME Next PROVE IInv'
  <2>1. CASE \E g \in Vars \cup {Nowhere} : Open(g)
    BY <2>1, <1>2
  <2>2. CASE \E h \in Holders, g \in Vars \cup {Nowhere}, k \in Levels : \E n \in NamesAt[k] :
               \E refs \in Lists[k], fits \in BOOLEAN : CallCreate(h, g, k, n, refs, fits)
    BY <2>2, <1>3
  <2>3. CASE \E h \in Holders, g \in Vars \cup {Nowhere}, k \in Levels : \E n \in NamesAt[k] :
               \E cmd \in {"remove", "purge", "*remove", "*purge"} : CallRemove(h, g, cmd, k, n)
    BY <2>3, <1>4
  <2>4. CASE \E h \in Holders, g \in Vars \cup {Nowhere} :
               \E n \in EasyNames, elms \in Lists[2], fits3, fits4 \in BOOLEAN :
                 CallEasy(h, g, n, elms, fits3, fits4)
    BY <2>4, <1>5
  <2>5. CASE CallStep
    BY <2>5, <1>6
  <2>6. CASE Crash
    BY <2>6, CrashInv
  <2> QED BY ONLY <1>7, <2>1, <2>2, <2>3, <2>4, <2>5, <2>6 DEF Next
<1> QED BY <1>1, <1>7

\* Every state satisfies the inductive invariant: what is linked is well formed, each structure
\* is, and as long as no call has changed the file from a stale structure, the file uses nothing
\* it does not hold, indices lead to what they stand for, and what is called up to date is what
\* vs_use would read, in the middle of a call too.
THEOREM Inductive == Spec => []IInv
<1>1. Init => IInv
  BY InitInv
<1>2. IInv /\ [Next]_vars => IInv'
  BY StepInv
<1> QED BY <1>1, <1>2, PTL DEF Spec

(***************************************************************************)
(* Theorems.                                                               *)
(***************************************************************************)
\* Records, structures and history keep their types, and only an empty list is the [] of
\* vs_use.
THEOREM TypeCorrect == Spec => []TypeOK
<1>1. ASSUME IInv PROVE TypeOK
  <2>1. /\ records \in Seq(RecordType) /\ live \in SUBSET (1..Len(records)) /\ Len(records) \in Nat
        /\ Len(records) <= MaxRec /\ clean \in BOOLEAN
        /\ \A h \in Holders : mem[h] # NoVS => VSOK(mem[h], records)
        /\ fresh \subseteq {h \in Holders : mem[h] # NoVS}
    BY <1>1, Parts
  <2>2. DOMAIN records = 1..Len(records)
    BY ONLY <2>1
  <2>3. \A o \in DOMAIN records : records[o].lev \in Levels /\ records[o].name \in AllNames
    <3>1. \A o \in DOMAIN records : records[o] \in RecordType
      BY ONLY <2>1
    <3> QED BY ONLY <3>1 DEF RecordType
  <2>4. ASSUME NEW h \in Holders, mem[h] # NoVS
        PROVE  /\ \A k \in Levels : \A e \in Range(mem[h].list[k]) : EntryOK(e)
               /\ \A k \in mem[h].bare : mem[h].list[k] = <<>>
    <3>1. ListsOK(records, mem[h].list) /\ \A k \in mem[h].bare : mem[h].list[k] = <<>>
      BY <2>1, <2>4 DEF VSOK
    <3>2. ASSUME NEW k \in Levels, NEW e \in Range(mem[h].list[k]) PROVE EntryOK(e)
      <4>1. mem[h].list[k] \in Seq(Entry)
        BY <3>1 DEF ListsOK
      <4>2. PICK i \in DOMAIN mem[h].list[k] : mem[h].list[k][i] = e
        BY DEF Range
      <4>3. e \in Entry
        BY ONLY <4>1, <4>2
      <4>4. e.off \in 1..Len(records)
        BY <3>1, <4>2 DEF ListsOK
      <4>5. e.off \in Offsets
        <5>1. MaxRec \in Nat
          BY BoundAssumption
        <5> QED BY ONLY <4>4, <5>1, <2>1 DEF Offsets
      <4> QED BY ONLY <4>3, <4>5 DEF EntryOK, Entry
    <3> QED BY <3>1, <3>2
  <2> QED BY <2>1, <2>2, <2>3, <2>4 DEF TypeOK
<1> QED BY <1>1, Inductive, PTL

\* As long as no call has changed the file from a stale structure, it holds all that its linked
\* records use, in the middle of a call too and so when the session is killed there.
THEOREM UsesAreHeld == Spec => []NoDangling
<1>1. ASSUME IInv PROVE NoDangling
  BY <1>1 DEF IInv, FileClean, DefinedIn, NoDangling, DefinedOnFile, Defined
<1> QED BY <1>1, Inductive, PTL

\* A structure that was read, or returned by a call that began with one that is up to date, is
\* what reading the file again would give.
THEOREM StructuresFollow == Spec => []FreshExact
<1>1. ASSUME IInv PROVE FreshExact
  <2>1. Structure(live).list = Read(records, live)
    BY StructureIsRead
  <2>2. clean => \A h \in fresh : mem[h].list = Read(records, live)
    BY <1>1, Parts
  <2> QED BY <2>1, <2>2 DEF FreshExact
<1> QED BY <1>1, Inductive, PTL

\* As long as no call has changed the file from a stale structure, no structure, be it up to date
\* or stale, leads from a name to another definition than the record names, or to none.
THEOREM IndicesLeadRight == Spec => []IndicesSound
<1>1. ASSUME IInv PROVE IndicesSound
  <2>1. SUFFICES ASSUME clean, NEW h \in Holders, mem[h] # NoVS PROVE Sound(mem[h])
    BY DEF IndicesSound, IndicesLead
  <2>2. SoundIn(records, mem[h].list)
    BY <1>1, <2>1, Parts
  <2>3. ASSUME NEW k \in Levels, NEW e \in Range(mem[h].list[k]) PROVE Leads(mem[h], k, e)
    <3>1. PICK i \in DOMAIN mem[h].list[k] : mem[h].list[k][i] = e
      BY DEF Range
    <3> QED BY <2>2, <3>1 DEF SoundIn, Leads
  <2> QED BY <2>3 DEF Sound
<1> QED BY <1>1, Inductive, PTL

\* As long as no call has changed the file from a stale structure, in a call that began with one
\* that is up to date no name is refused as taken and no record is missing from its chain.
THEOREM NothingMissed == Spec => []FreshNeverRefused
<1>1. ASSUME IInv PROVE FreshNeverRefused
  BY <1>1 DEF IInv, CallClean, FreshNeverRefused
<1> QED BY <1>1, Inductive, PTL
==============================================================================
