-------------------------- MODULE NefisVarDim_proofs --------------------------
(* The pointer tables of a variable dimension stay a tree in which every      *)
(* record written is found, whatever the radix, the indices and the calls; so *)
(* vs_let reads it, although it keeps the tables of one index for the next.   *)
EXTENDS NefisVarDim, TLAPS, WellFoundedInduction, SequenceTheorems

------------------------------------------------------------------------------
(* Arithmetic: an index is the sum of its digits.                          *)

\* Division by a number above zero.
LEMMA DivMod ==
  ASSUME NEW n \in Nat, NEW d \in Nat \ {0}
  PROVE  /\ n \div d \in Nat /\ n % d \in 0..(d - 1)
         /\ n = d * (n \div d) + (n % d)
  BY SMTT(30)

LEMMA TimesMonotone ==
  ASSUME NEW d \in Nat, NEW a \in Nat, NEW b \in Nat, a < b
  PROVE  d * a + d <= d * b
<1> DEFINE k == b - a - 1
<1>1. k \in Nat /\ b = a + 1 + k
  OBVIOUS
<1> HIDE DEF k
<1>2. d * b = d * a + d + d * k /\ d * k >= 0
  BY <1>1
<1> QED BY <1>2

LEMMA DivUnique ==
  ASSUME NEW n \in Nat, NEW d \in Nat \ {0}, NEW q \in Nat, NEW r \in 0..(d - 1),
         n = d * q + r
  PROVE  n \div d = q /\ n % d = r
<1> DEFINE p == n \div d
           t == n % d
<1>1. p \in Nat /\ t \in 0..(d - 1) /\ n = d * p + t
  BY DivMod
<1> HIDE DEF p, t
<1>2. p = q
  <2>1. CASE p < q
    <3>1. d * p + d <= d * q
      BY <1>1, <2>1, TimesMonotone
    <3> QED BY <1>1, <3>1
  <2>2. CASE q < p
    <3>1. d * q + d <= d * p
      BY <1>1, <2>2, TimesMonotone
    <3> QED BY <1>1, <3>1
  <2> QED BY <1>1, <2>1, <2>2
<1> QED BY <1>1, <1>2 DEF p, t

LEMMA DivDiv ==
  ASSUME NEW n \in Nat, NEW d \in Nat \ {0}, NEW e \in Nat \ {0}
  PROVE  d * e \in Nat \ {0} /\ n \div (d * e) = (n \div d) \div e
<1> DEFINE q == n \div d
           r == n % d
           p == q \div e
           t == q % e
<1>1. q \in Nat /\ r \in 0..(d - 1) /\ n = d * q + r
  BY DivMod
<1>2. p \in Nat /\ t \in 0..(e - 1) /\ q = e * p + t
  BY <1>1, DivMod
<1> HIDE DEF q, r, p, t
<1>3. d * e \in Nat \ {0}
  OBVIOUS
<1>4. d * q = (d * e) * p + d * t
  BY <1>1, <1>2
<1>5. d * t >= 0 /\ d * t <= d * e - d
  <2>1. d * t + d <= d * e
    BY <1>2, TimesMonotone
  <2> QED BY <1>2, <2>1
<1>6. d * t + r \in 0..(d * e - 1)
  BY <1>1, <1>2, <1>3, <1>5
<1>7. n = (d * e) * p + (d * t + r)
  BY <1>1, <1>2, <1>4
<1>8. n \div (d * e) = p
  BY <1>2, <1>3, <1>6, <1>7, DivUnique
<1> QED BY <1>3, <1>8 DEF p, q

\* The indices of four digits.
InRange == 0..(Radix * Radix * Radix * Radix - 1)

LEMMA Monotone ==
  ASSUME NEW d \in Nat, NEW a \in Nat, NEW b \in Nat, a <= b
  PROVE  d * a <= d * b /\ d * a \in Nat
BY TimesMonotone, SMTT(10)

LEMMA SmallMod ==
  ASSUME NEW d \in Nat \ {0}, NEW n \in 0..(d - 1)
  PROVE  n \div d = 0 /\ n % d = n
BY DivUnique

\* The powers of the radix are numbers above zero.
LEMMA Powers ==
  /\ Radix \in Nat \ {0} /\ Slots = 0..(Radix - 1) /\ 0 \in Slots
  /\ Power(0) = 1 /\ Power(1) = Radix
  /\ Power(2) = Radix * Radix /\ Power(3) = Radix * Radix * Radix
  /\ Power(1) \in Nat \ {0} /\ Power(2) \in Nat \ {0} /\ Power(3) \in Nat \ {0}
<1>1. Radix \in Nat \ {0}
  BY RadixAssumption
<1>2. Radix * Radix \in Nat \ {0}
  BY <1>1
<1>3. (Radix * Radix) * Radix \in Nat \ {0}
  BY <1>1, <1>2
<1> QED BY <1>1, <1>2, <1>3, RadixAssumption DEF Power, Slots

\* An index is made of its digits (P256 and VDByte, vs_put.m:791-793).
LEMMA IndexOfDigits ==
  ASSUME NEW i \in InRange
  PROVE  /\ \A b \in Byte : Digit(i, b) \in Slots
         /\ i = Digit(i, 4) * Power(3) + Digit(i, 3) * Power(2)
                 + Digit(i, 2) * Power(1) + Digit(i, 1)
<1> DEFINE R == Radix
           q1 == i \div R
           q2 == q1 \div R
           q3 == q2 \div R
<1>1. R \in Nat \ {0} /\ i \in Nat /\ i < (R * R) * (R * R)
  BY Powers DEF InRange
<1>2. q1 \in Nat /\ i % R \in Slots /\ i = R * q1 + (i % R)
  BY <1>1, DivMod, Powers
<1>3. q2 \in Nat /\ q1 % R \in Slots /\ q1 = R * q2 + (q1 % R)
  BY <1>1, <1>2, DivMod, Powers
<1>4. q3 \in Nat /\ q2 % R \in Slots /\ q2 = R * q3 + (q2 % R)
  BY <1>1, <1>3, DivMod, Powers
<1>5. Digit(i, 1) = i % R
  BY <1>1, <1>2, Powers, SMTT(30) DEF Digit
<1>6. Digit(i, 2) = q1 % R
  BY Powers DEF Digit
<1>7. Digit(i, 3) = q2 % R
  <2>1. i \div (R * R) = q2
    BY <1>1, DivDiv, ZenonT(40)
  <2> QED BY <2>1, Powers DEF Digit
<1>8. i \div (R * R * R) = q3
  <2>1. R * R \in Nat \ {0} /\ i \div (R * R) = q2
    BY <1>1, DivDiv, ZenonT(40)
  <2>2. i \div ((R * R) * R) = (i \div (R * R)) \div R
    BY <1>1, <2>1, DivDiv, ZenonT(40)
  <2> QED BY <2>1, <2>2
<1> HIDE DEF q1, q2, q3
<1>9. i = R * (R * (R * q3)) + R * (R * (q2 % R)) + R * (q1 % R) + (i % R)
  <2> DEFINE m1 == i % R
             m2 == q1 % R
             m3 == q2 % R
  <2>1. m1 \in Nat /\ m2 \in Nat /\ m3 \in Nat
    BY <1>2, <1>3, <1>4, Powers
  <2>2. i = R * q1 + m1 /\ q1 = R * q2 + m2 /\ q2 = R * q3 + m3
    BY <1>2, <1>3, <1>4
  <2> HIDE DEF m1, m2, m3
  <2>3. R * q2 = R * (R * q3) + R * m3
    BY <1>1, <1>4, <2>1, <2>2
  <2>4. R * q1 = R * (R * q2) + R * m2
    BY <1>1, <1>3, <2>1, <2>2
  <2>5. R * (R * q2) = R * (R * (R * q3)) + R * (R * m3)
    BY <1>1, <1>4, <2>1, <2>3
  <2> QED BY <1>1, <1>4, <2>1, <2>2, <2>4, <2>5 DEF m1, m2, m3
<1>12. q3 \in Slots
  <2> SUFFICES ASSUME R <= q3 PROVE FALSE
    BY <1>1, <1>4, Powers
  <2>2. R * R <= R * q3
    BY <1>1, <1>4, Monotone
  <2>3. R * (R * R) <= R * (R * q3)
    BY <1>1, <1>4, <2>2, Monotone
  <2>4. R * (R * (R * R)) <= R * (R * (R * q3))
    BY <1>1, <1>4, <2>3, Monotone
  <2>5. (R * R) * (R * R) = R * (R * (R * R))
    BY <1>1
  <2>6. i >= R * (R * (R * q3))
    <3>1. q2 % R \in Nat /\ q1 % R \in Nat /\ i % R \in Nat
      BY <1>2, <1>3, <1>4, Powers
    <3>2. R * (q2 % R) \in Nat /\ R * (q1 % R) \in Nat
      BY <1>1, <3>1, Monotone
    <3>3. R * (R * (q2 % R)) \in Nat /\ R * q3 \in Nat
      BY <1>1, <1>4, <3>2, Monotone
    <3>4. R * (R * q3) \in Nat
      BY <1>1, <3>3, Monotone
    <3>5. R * (R * (R * q3)) \in Nat
      BY <1>1, <3>4, Monotone
    <3> QED BY <1>9, <3>1, <3>2, <3>3, <3>5
  <2>7. R * (R * (R * R)) \in Nat /\ R * (R * (R * q3)) \in Nat
    BY <1>1, <1>4, <2>2, <2>3, Monotone
  <2> QED BY <1>1, <2>4, <2>5, <2>6, <2>7
<1>10. Digit(i, 4) = q3
  <2>1. Digit(i, 4) = (i \div (R * R * R)) % R
    BY Powers DEF Digit
  <2>2. q3 % R = q3
    BY <1>1, <1>12, Powers, SmallMod
  <2> QED BY <1>8, <2>1, <2>2
<1>11. i = q3 * (R * R * R) + (q2 % R) * (R * R) + (q1 % R) * R + (i % R)
  BY <1>1, <1>2, <1>3, <1>4, <1>9, Powers, SMTT(30)
<1> HIDE DEF R
<1>13. \A b \in Byte : Digit(i, b) \in Slots
  BY <1>2, <1>3, <1>4, <1>5, <1>6, <1>7, <1>10, <1>12 DEF Byte
<1> QED BY <1>5, <1>6, <1>7, <1>10, <1>11, <1>13, Powers DEF R
\* Indices with the same digits are the same.
LEMMA SameDigits ==
  ASSUME NEW i \in InRange, NEW j \in InRange,
         \A b \in Byte : Digit(i, b) = Digit(j, b)
  PROVE  i = j
<1>1. 1 \in Byte /\ 2 \in Byte /\ 3 \in Byte /\ 4 \in Byte
  BY DEF Byte
<1> QED BY <1>1, IndexOfDigits

\* A set of numbers has a least one, and a bounded one a greatest.
LEMMA LeastNatural ==
  ASSUME NEW S \in SUBSET Nat, S # {}
  PROVE  \E x \in S : \A y \in S : x <= y
<1>1. IsWellFoundedOn(OpToRel(<, Nat), Nat)
  BY NatLessThanWellFounded
<1>2. PICK x \in S : \A y \in S : ~(<<y, x>> \in OpToRel(<, Nat))
  BY <1>1, WFMin, Zenon
<1>3. \A y \in S : ~(y < x)
  BY <1>2 DEF OpToRel
<1> QED BY <1>3

LEMMA MinOfNaturals ==
  ASSUME NEW S \in SUBSET Nat, S # {}
  PROVE  Min(S) \in S /\ \A y \in S : Min(S) <= y
<1>1. \E x \in S : \A y \in S : x <= y
  BY LeastNatural
<1> QED BY <1>1 DEF Min

LEMMA MaxOfNaturals ==
  ASSUME NEW S \in SUBSET Nat, S # {}, NEW n \in Nat, \A y \in S : y <= n
  PROVE  Max(S) \in S /\ \A y \in S : y <= Max(S)
<1> DEFINE T == {b \in Nat : \A y \in S : y <= b}
<1>1. PICK b \in T : \A c \in T : b <= c
  <2>1. n \in T
    OBVIOUS
  <2> QED BY <2>1, LeastNatural
<1>2. b \in S
  <2> SUFFICES ASSUME b \notin S PROVE FALSE
    OBVIOUS
  <2>1. PICK y \in S : TRUE
    OBVIOUS
  <2>2. b # 0
    BY <1>1
  <2>3. b - 1 \in T
    BY <2>2, <1>1
  <2> QED BY <2>3, <1>1
<1>3. \E x \in S : \A y \in S : x >= y
  BY <1>1, <1>2
<1> QED BY <1>3 DEF Max

------------------------------------------------------------------------------
(* The inductive invariant.                                                *)

Block == [kind : {"table"}, at : [Slots -> Nat]] \cup [kind : {"record"}, val : Int]

\* The blocks have levels: a pointer leads one level down, a record is on level 0.
\* The first four tables stay linked as vs_def leaves them.
Tree(lev) ==
  /\ blocks \in Seq(Block)
  /\ lev \in [DOMAIN blocks -> 0..4]
  /\ {1, 2, 3, 4} \subseteq Tables
  /\ lev[1] = 4
  /\ At(1)[0] = 2 /\ At(2)[0] = 3 /\ At(3)[0] = 4
  /\ \A a \in DOMAIN blocks : a \in Tables <=> lev[a] # 0
  /\ \A a \in Tables, s \in Slots :
       At(a)[s] # Nil => At(a)[s] \in DOMAIN blocks /\ lev[At(a)[s]] = lev[a] - 1

\* No block has two pointers.
Apart ==
  \A a, b \in Tables : \A s, t \in Slots :
    At(a)[s] # Nil /\ At(a)[s] = At(b)[t] => a = b /\ s = t

\* A block no pointer leads to.
Fresh(a) == a \in DOMAIN blocks /\ \A b \in Tables, s \in Slots : At(b)[s] # a

Stages == {"locate", "recheck", "link", "point", "linkrecord", "write"}

Call == [stage : Stages, todo : SUBSET Indices, all : (SUBSET Indices) \ {{}},
         data : DOMAIN Data, from : Handles, exact : BOOLEAN, update : BOOLEAN,
         bt : 2..4, dest : Nat, last : [Byte -> Slots \cup {None}],
         off : [Byte -> Nat], tab : [Byte -> [Slots -> Nat]]]

Content(a)   == IF a = Nil THEN EmptyTable ELSE At(a)
Copied(c, b) == c.tab[b] = Content(c.off[b])
Dig(c, b)    == Digit(Min(c.todo), b)

\* The addresses and the digits a call keeps belong to its copies.
Keeps(c, lev) ==
  /\ c \in Call
  /\ c.off[4] = 1
  /\ \A b \in Byte : c.off[b] # Nil => c.off[b] \in DOMAIN blocks /\ lev[c.off[b]] = b
  /\ \A b \in 2..4 : c.last[b] # None => c.off[b - 1] = c.tab[b][c.last[b]]

\* The copy of level b has a pointer to a that its table does not have yet.
Pending(c, b, a) ==
  /\ c.off[b] # Nil
  /\ At(c.off[b])[Dig(c, b)] = Nil
  /\ c.tab[b] = [At(c.off[b]) EXCEPT ![Dig(c, b)] = a]
  /\ \A l \in Byte : l # b => Copied(c, l)
  /\ Fresh(a)

CallOK(c, lev) ==
  /\ Keeps(c, lev)
  /\ c.stage # "locate" => c.todo # {} /\ \A b \in 2..4 : c.last[b] = Dig(c, b)
  /\ c.stage \notin {"link", "linkrecord"} => \A b \in Byte : Copied(c, b)
  /\ c.stage \in {"recheck", "link"} => \A b \in c.bt..4 : c.off[b] # Nil
  /\ c.stage \in {"point", "linkrecord"} => c.off[1] # Nil
  /\ c.stage \in {"recheck", "link", "point"} => c.tab[1][Dig(c, 1)] = Nil
  /\ c.stage = "link" => /\ Pending(c, c.bt, c.off[c.bt - 1])
                         /\ blocks[c.off[c.bt - 1]] = Table(EmptyTable)
  /\ c.stage = "linkrecord" => /\ Pending(c, 1, c.dest)
                               /\ blocks[c.dest] = Record(0)
  /\ c.stage = "write" => c.dest = c.tab[1][Dig(c, 1)] /\ c.dest # Nil

\* WrittenIsFound for every index with four digits.
AllFound ==
  /\ written \in [DOMAIN written -> Int]
  /\ DOMAIN written \subseteq Indices
  /\ \A i \in InRange :
       IF i \in DOMAIN written
       THEN RecordOf(i) # Nil /\ blocks[RecordOf(i)] = Record(written[i])
       ELSE RecordOf(i) = Nil

IInv ==
  /\ \E lev : Tree(lev) /\ (~Idle => CallOK(call, lev))
  /\ Apart
  /\ AllFound
  /\ Len(blocks) <= MaxBlocks
  /\ dim \in [Handles -> Nat \cup {Closed}]

------------------------------------------------------------------------------
(* What the writes to the file leave of the tree.                          *)

LEMMA BlockFacts ==
  ASSUME NEW lev, Tree(lev)
  PROVE  /\ Len(blocks) \in Nat /\ DOMAIN blocks = 1..Len(blocks)
         /\ Tables \subseteq DOMAIN blocks
         /\ \A a \in DOMAIN blocks : lev[a] \in 0..4 /\ a # Nil
         /\ \A a \in Tables : At(a) \in [Slots -> Nat] /\ blocks[a] = Table(At(a))
                              /\ lev[a] \in 1..4
         /\ \A a \in DOMAIN blocks : \/ blocks[a].kind = "table"
                                     \/ blocks[a].kind = "record"
         /\ 0 \in Slots
<1>1. blocks \in Seq(Block) /\ lev \in [DOMAIN blocks -> 0..4]
  BY DEF Tree
<1>2. /\ Len(blocks) \in Nat /\ DOMAIN blocks = 1..Len(blocks)
      /\ \A a \in DOMAIN blocks : blocks[a] \in Block
  BY <1>1
<1>3. \A a \in Tables : At(a) \in [Slots -> Nat] /\ blocks[a] = Table(At(a))
  BY <1>2 DEF Tables, At, Table, Block
<1>4. \A a \in DOMAIN blocks : blocks[a].kind = "table" \/ blocks[a].kind = "record"
  BY <1>2 DEF Block
<1>5. \A a \in DOMAIN blocks : lev[a] \in 0..4 /\ a # Nil
  BY <1>1, <1>2 DEF Nil
<1>6. \A a \in Tables : lev[a] \in 1..4
  BY <1>5 DEF Tree, Tables
<1> QED BY <1>2, <1>3, <1>4, <1>5, <1>6, Powers DEF Tables

\* The levels when block n of level l is added.
Raised(lev, n, l) == [a \in DOMAIN lev \cup {n} |-> IF a = n THEN l ELSE lev[a]]

\* A block is added at the end of the file (vs_put.m:832-840 and 862-870).
LEMMA BlockAdded ==
  ASSUME NEW lev, Tree(lev), Apart, NEW l \in 0..3,
         NEW x, x = IF l = 0 THEN Record(0) ELSE Table(EmptyTable),
         NEW n, n = Len(blocks) + 1,
         blocks' = Append(blocks, x)
  PROVE  /\ n \notin DOMAIN blocks /\ n \in Nat \ {0}
         /\ DOMAIN blocks' = DOMAIN blocks \cup {n} /\ Len(blocks') = n
         /\ \A a \in DOMAIN blocks : blocks'[a] = blocks[a] /\ At(a)' = At(a)
         /\ blocks'[n] = x
         /\ Tables' = IF l = 0 THEN Tables ELSE Tables \cup {n}
         /\ l # 0 => At(n)' = EmptyTable
         /\ Tree(Raised(lev, n, l))'
         /\ Apart'
         /\ Fresh(n)'
<1> DEFINE up == Raised(lev, n, l)
<1>1. /\ Len(blocks) \in Nat /\ DOMAIN blocks = 1..Len(blocks) /\ blocks \in Seq(Block)
      /\ lev \in [DOMAIN blocks -> 0..4]
  BY BlockFacts DEF Tree
<1>2. x \in Block /\ 0 \in Slots
  BY Powers DEF Block, Record, Table, EmptyTable, Nil
<1>3. /\ n \notin DOMAIN blocks /\ n \in Nat \ {0}
      /\ DOMAIN blocks' = DOMAIN blocks \cup {n} /\ Len(blocks') = n
      /\ blocks' \in Seq(Block)
      /\ \A a \in DOMAIN blocks : blocks'[a] = blocks[a]
      /\ blocks'[n] = x
  BY <1>1, <1>2
<1>4. \A a \in DOMAIN blocks : At(a)' = At(a)
  BY <1>3 DEF At
<1>5. Tables' = IF l = 0 THEN Tables ELSE Tables \cup {n}
  BY <1>3 DEF Tables, Record, Table
<1>6. l # 0 => At(n)' = EmptyTable
  BY <1>3 DEF At, Table
<1>7. \A b \in Tables', s \in Slots :
        At(b)'[s] # Nil => b \in Tables /\ At(b)'[s] = At(b)[s] /\ At(b)[s] \in DOMAIN blocks
  BY <1>3, <1>4, <1>5, <1>6 DEF EmptyTable, Tables, Tree
<1>8. Tree(up)'
  <2>1. up \in [(DOMAIN blocks)' -> 0..4] /\ \A a \in DOMAIN blocks : up[a] = lev[a]
    BY <1>1, <1>3 DEF Raised
  <2>2. up[n] = l
    BY DEF Raised
  <2>3. ({1, 2, 3, 4} \subseteq Tables)' /\ up[1] = 4
    BY <1>3, <1>5, <2>1 DEF Tree, Tables
  <2>4. (At(1)[0] = 2 /\ At(2)[0] = 3 /\ At(3)[0] = 4)'
    <3>1. {1, 2, 3, 4} \subseteq DOMAIN blocks
      BY DEF Tree, Tables
    <3> QED BY <3>1, <1>4 DEF Tree
  <2>5. \A a \in (DOMAIN blocks)' : a \in Tables' <=> up[a] # 0
    BY <1>3, <1>5, <2>1, <2>2 DEF Tree, Tables
  <2>6. \A a \in Tables', s \in Slots :
          At(a)'[s] # Nil => At(a)'[s] \in (DOMAIN blocks)' /\ up[At(a)'[s]] = up[a] - 1
    <3> SUFFICES ASSUME NEW a \in Tables', NEW s \in Slots, At(a)'[s] # Nil
                 PROVE  At(a)'[s] \in (DOMAIN blocks)' /\ up[At(a)'[s]] = up[a] - 1
      OBVIOUS
    <3>1. a \in Tables /\ At(a)'[s] = At(a)[s] /\ At(a)[s] \in DOMAIN blocks /\ At(a)[s] # Nil
      BY <1>7
    <3>2. lev[At(a)[s]] = lev[a] - 1 /\ a \in DOMAIN blocks
      BY <3>1 DEF Tree, Tables
    <3> HIDE DEF up
    <3> QED BY <1>3, <2>1, <3>1, <3>2
  <2> HIDE DEF up
  <2> QED BY <1>3, <2>1, <2>3, <2>4, <2>5, <2>6 DEF Tree
<1>9. Apart'
  <2> SUFFICES ASSUME NEW a \in Tables', NEW b \in Tables', NEW s \in Slots, NEW t \in Slots,
                      At(a)'[s] # Nil, At(a)'[s] = At(b)'[t]
               PROVE  a = b /\ s = t
    BY DEF Apart
  <2>1. a \in Tables /\ b \in Tables /\ At(a)'[s] = At(a)[s] /\ At(b)'[t] = At(b)[t]
    BY <1>7
  <2>2. At(a)[s] # Nil /\ At(a)[s] = At(b)[t]
    BY <2>1
  <2> QED BY <2>1, <2>2 DEF Apart
<1>10. Fresh(n)'
  <2> SUFFICES ASSUME NEW b \in Tables', NEW s \in Slots PROVE At(b)'[s] # n
    BY <1>3 DEF Fresh
  <2> QED BY <1>3, <1>7 DEF Nil
<1> HIDE DEF up
<1> QED BY <1>3, <1>4, <1>5, <1>6, <1>8, <1>9, <1>10 DEF up

\* A table is written with one more pointer, to a block that had none
\* (vs_put.m:841-843 and 871-874).
LEMMA PointerSet ==
  ASSUME NEW lev, Tree(lev), Apart,
         NEW a \in Tables, NEW d \in Slots, At(a)[d] = Nil,
         NEW n, Fresh(n), lev[n] = lev[a] - 1,
         NEW t, t = [At(a) EXCEPT ![d] = n], blocks' = [blocks EXCEPT ![a] = Table(t)]
  PROVE  /\ Tables' = Tables /\ Len(blocks') = Len(blocks) /\ DOMAIN blocks' = DOMAIN blocks
         /\ \A b \in DOMAIN blocks : b # a => blocks'[b] = blocks[b] /\ At(b)' = At(b)
         /\ At(a)' = [At(a) EXCEPT ![d] = n]
         /\ Tree(lev)' /\ Apart'
<1>1. /\ Len(blocks) \in Nat /\ DOMAIN blocks = 1..Len(blocks) /\ blocks \in Seq(Block)
      /\ a \in DOMAIN blocks /\ At(a) \in [Slots -> Nat]
  BY BlockFacts DEF Tree
<1>0. n \in DOMAIN blocks /\ n \in Nat \ {0}
  BY <1>1 DEF Fresh
<1>2. Table(t) \in Block
  BY <1>0, <1>1 DEF Table, Block
<1>3. /\ Len(blocks') = Len(blocks) /\ DOMAIN blocks' = DOMAIN blocks /\ blocks' \in Seq(Block)
      /\ \A b \in DOMAIN blocks : b # a => blocks'[b] = blocks[b]
      /\ blocks'[a] = Table(t)
  BY <1>0, <1>1, <1>2
<1>4. \A b \in DOMAIN blocks : b # a => At(b)' = At(b)
  BY <1>3 DEF At
<1>5. At(a)' = [At(a) EXCEPT ![d] = n]
  BY <1>3 DEF At, Table
<1>6. Tables' = Tables
  BY <1>0, <1>1, <1>3 DEF Tables, Table
<1>7. \A b \in Tables, s \in Slots :
        At(b)'[s] = IF b = a /\ s = d THEN n ELSE At(b)[s]
  BY <1>0, <1>1, <1>4, <1>5 DEF Tables
<1>8. Tree(lev)'
  <2>1. (At(1)[0] = 2 /\ At(2)[0] = 3 /\ At(3)[0] = 4)'
    <3>1. /\ 1 \in Tables /\ 2 \in Tables /\ 3 \in Tables /\ 0 \in Slots
          /\ At(1)[0] = 2 /\ At(2)[0] = 3 /\ At(3)[0] = 4
      BY Powers DEF Tree
    <3>2. \A b \in Tables : At(b)[0] # Nil => At(b)'[0] = At(b)[0]
      BY <1>7, <3>1
    <3>3. At(1)'[0] = 2 /\ At(2)'[0] = 3 /\ At(3)'[0] = 4
      BY ONLY <3>1, <3>2 DEF Nil
    <3> QED BY <3>3
  <2>2. \A b \in Tables', s \in Slots :
          At(b)'[s] # Nil => At(b)'[s] \in (DOMAIN blocks)' /\ lev[At(b)'[s]] = lev[b] - 1
    BY <1>0, <1>1, <1>3, <1>6, <1>7 DEF Tree
  <2> QED BY <1>3, <1>6, <2>1, <2>2 DEF Tree
<1>9. Apart'
  <2> SUFFICES ASSUME NEW b \in Tables, NEW c \in Tables, NEW s \in Slots, NEW u \in Slots,
                      At(b)'[s] # Nil, At(b)'[s] = At(c)'[u]
               PROVE  b = c /\ s = u
    BY <1>6 DEF Apart
  <2> QED BY <1>0, <1>7 DEF Apart, Fresh
<1> QED BY <1>3, <1>4, <1>5, <1>6, <1>8, <1>9

\* A record is written.
LEMMA RecordWritten ==
  ASSUME NEW lev, Tree(lev), Apart,
         NEW a \in DOMAIN blocks, lev[a] = 0, NEW v \in Int,
         blocks' = [blocks EXCEPT ![a] = Record(v)]
  PROVE  /\ Tables' = Tables /\ Len(blocks') = Len(blocks) /\ DOMAIN blocks' = DOMAIN blocks
         /\ \A b \in DOMAIN blocks : b # a => blocks'[b] = blocks[b]
         /\ \A b \in Tables : At(b)' = At(b)
         /\ Tree(lev)' /\ Apart'
<1>1. /\ Len(blocks) \in Nat /\ DOMAIN blocks = 1..Len(blocks) /\ blocks \in Seq(Block)
      /\ a \notin Tables
  BY BlockFacts DEF Tree
<1>2. Record(v) \in Block
  BY DEF Record, Block
<1>3. /\ Len(blocks') = Len(blocks) /\ DOMAIN blocks' = DOMAIN blocks /\ blocks' \in Seq(Block)
      /\ \A b \in DOMAIN blocks : b # a => blocks'[b] = blocks[b]
      /\ blocks'[a] = Record(v)
  BY <1>1, <1>2
<1>4. \A b \in Tables : At(b)' = At(b)
  BY <1>1, <1>3 DEF At, Tables
<1>5. Tables' = Tables
  BY <1>1, <1>3 DEF Tables, Record
<1>6. Tree(lev)'
  <2>1. (At(1)[0] = 2 /\ At(2)[0] = 3 /\ At(3)[0] = 4)'
    BY <1>4 DEF Tree
  <2>2. \A b \in Tables', s \in Slots :
          At(b)'[s] # Nil => At(b)'[s] \in (DOMAIN blocks)' /\ lev[At(b)'[s]] = lev[b] - 1
    BY <1>3, <1>4, <1>5 DEF Tree
  <2> QED BY <1>3, <1>5, <2>1, <2>2 DEF Tree
<1>7. Apart'
  <2> SUFFICES ASSUME NEW b \in Tables, NEW c \in Tables, NEW s \in Slots, NEW t \in Slots,
                      At(b)'[s] # Nil, At(b)'[s] = At(c)'[t]
               PROVE  b = c /\ s = t
    BY <1>5 DEF Apart
  <2> QED BY <1>4 DEF Apart
<1> QED BY <1>3, <1>4, <1>5, <1>6, <1>7

------------------------------------------------------------------------------
(* The path of an index through the tables.                                *)

\* The table of level b that the digits of i lead to; on level 0, its record.
Node(i, b) ==
  IF b = 4 THEN 1
  ELSE IF b = 3 THEN Below(1, i, 4)
  ELSE IF b = 2 THEN Below(Below(1, i, 4), i, 3)
  ELSE IF b = 1 THEN Below(Below(Below(1, i, 4), i, 3), i, 2)
  ELSE RecordOf(i)

LEMMA NodeStep ==
  ASSUME NEW i
  PROVE  /\ Node(i, 4) = 1 /\ Node(i, 0) = RecordOf(i)
         /\ \A b \in Byte : Node(i, b - 1) = Below(Node(i, b), i, b)
<1>1. /\ Node(i, 3) = Below(Node(i, 4), i, 4) /\ Node(i, 2) = Below(Node(i, 3), i, 3)
      /\ Node(i, 1) = Below(Node(i, 2), i, 2) /\ Node(i, 0) = Below(Node(i, 1), i, 1)
  BY DEF Node, RecordOf
<1>2. Byte = {1, 2, 3, 4} /\ 4 - 1 = 3 /\ 3 - 1 = 2 /\ 2 - 1 = 1 /\ 1 - 1 = 0
  BY DEF Byte
<1>3. Node(i, 4) = 1 /\ Node(i, 0) = RecordOf(i)
  BY DEF Node
<1> QED BY <1>1, <1>2, <1>3

\* The same in the next state.
LEMMA NodeStepNext ==
  ASSUME NEW i
  PROVE  /\ Node(i, 4)' = 1 /\ Node(i, 0)' = RecordOf(i)'
         /\ \A b \in Byte : Node(i, b - 1)' = IF Node(i, b)' = Nil THEN Nil
                                              ELSE blocks'[Node(i, b)'].at[Digit(i, b)]
<1>1. /\ (Node(i, 3) = Below(Node(i, 4), i, 4))'
      /\ (Node(i, 2) = Below(Node(i, 3), i, 3))'
      /\ (Node(i, 1) = Below(Node(i, 2), i, 2))'
      /\ (Node(i, 0) = Below(Node(i, 1), i, 1))'
  BY DEF Node, RecordOf
<1>4. Node(i, 4)' = 1 /\ Node(i, 0)' = RecordOf(i)'
  BY DEF Node
<1>2. Byte = {1, 2, 3, 4} /\ 4 - 1 = 3 /\ 3 - 1 = 2 /\ 2 - 1 = 1 /\ 1 - 1 = 0
  BY DEF Byte
<1>3. /\ Node(i, 3)' = IF Node(i, 4)' = Nil THEN Nil ELSE blocks'[Node(i, 4)'].at[Digit(i, 4)]
      /\ Node(i, 2)' = IF Node(i, 3)' = Nil THEN Nil ELSE blocks'[Node(i, 3)'].at[Digit(i, 3)]
      /\ Node(i, 1)' = IF Node(i, 2)' = Nil THEN Nil ELSE blocks'[Node(i, 2)'].at[Digit(i, 2)]
      /\ Node(i, 0)' = IF Node(i, 1)' = Nil THEN Nil ELSE blocks'[Node(i, 1)'].at[Digit(i, 1)]
  BY <1>1 DEF Below, At
<1> QED BY <1>2, <1>3, <1>4

\* A path goes down level by level until it ends.
LEMMA NodeLevels ==
  ASSUME NEW lev, Tree(lev), NEW i \in InRange
  PROVE  /\ \A b \in 0..4 : Node(i, b) # Nil =>
                              Node(i, b) \in DOMAIN blocks /\ lev[Node(i, b)] = b
         /\ \A b \in Byte : Node(i, b) # Nil => Node(i, b) \in Tables
<1> DEFINE F(b) == Node(i, b) # Nil => Node(i, b) \in DOMAIN blocks /\ lev[Node(i, b)] = b
<1>1. F(4)
  BY NodeStep DEF Tree, Tables
<1>2. ASSUME NEW b \in Byte, F(b) PROVE F(b - 1)
  <2> SUFFICES ASSUME Node(i, b - 1) # Nil
               PROVE  Node(i, b - 1) \in DOMAIN blocks /\ lev[Node(i, b - 1)] = b - 1
    OBVIOUS
  <2>1. Node(i, b) # Nil /\ Node(i, b - 1) = At(Node(i, b))[Digit(i, b)]
    BY NodeStep DEF Below
  <2>2. Node(i, b) \in Tables /\ Digit(i, b) \in Slots
    BY <1>2, <2>1, IndexOfDigits DEF Tree, Byte
  <2> QED BY <1>2, <2>1, <2>2 DEF Tree
<1>3. F(3) /\ F(2) /\ F(1) /\ F(0)
  <2>1. 4 \in Byte /\ 3 \in Byte /\ 2 \in Byte /\ 1 \in Byte
    BY DEF Byte
  <2>2. F(3)
    <3>1. F(4 - 1)
      BY <1>1, <1>2, <2>1
    <3> QED BY <3>1
  <2>3. F(2)
    <3>1. F(3 - 1)
      BY <2>2, <1>2, <2>1
    <3> QED BY <3>1
  <2>4. F(1)
    <3>1. F(2 - 1)
      BY <2>3, <1>2, <2>1
    <3> QED BY <3>1
  <2>5. F(0)
    <3>1. F(1 - 1)
      BY <2>4, <1>2, <2>1
    <3> QED BY <3>1
  <2> QED BY <2>2, <2>3, <2>4, <2>5
<1>4. \A b \in 0..4 : F(b)
  BY <1>1, <1>3
<1>5. \A b \in Byte : Node(i, b) # Nil => Node(i, b) \in Tables
  BY <1>4 DEF Tree, Byte
<1> QED BY <1>4, <1>5

\* Two paths that meet have come the same way.
LEMMA PathsApart ==
  ASSUME NEW lev, Tree(lev), Apart, NEW i \in InRange, NEW j \in InRange,
         NEW m \in 0..3, Node(i, m) # Nil, Node(i, m) = Node(j, m)
  PROVE  \A b \in Byte : b > m => Digit(i, b) = Digit(j, b) /\ Node(i, b) = Node(j, b)
<1> DEFINE Meet(b) == Node(i, b) # Nil /\ Node(i, b) = Node(j, b)
           F(b)    == Digit(i, b) = Digit(j, b) /\ Meet(b)
<1>1. ASSUME NEW b \in Byte, Meet(b - 1) PROVE F(b)
  <2>1. /\ Node(i, b) # Nil /\ Node(i, b - 1) = At(Node(i, b))[Digit(i, b)]
        /\ Node(j, b) # Nil /\ Node(j, b - 1) = At(Node(j, b))[Digit(j, b)]
    BY <1>1, NodeStep DEF Below
  <2>2. /\ Node(i, b) \in Tables /\ Digit(i, b) \in Slots
        /\ Node(j, b) \in Tables /\ Digit(j, b) \in Slots
    BY <2>1, NodeLevels, IndexOfDigits
  <2> QED BY <1>1, <2>1, <2>2 DEF Apart
<1>2. 4 \in Byte /\ 3 \in Byte /\ 2 \in Byte /\ 1 \in Byte
  BY DEF Byte
<1>3. /\ Meet(0) => F(1)
      /\ Meet(1) => F(2)
      /\ Meet(2) => F(3)
      /\ Meet(3) => F(4)
  <2>1. Meet(1 - 1) => F(1)
    BY <1>1, <1>2
  <2>2. Meet(2 - 1) => F(2)
    BY <1>1, <1>2
  <2>3. Meet(3 - 1) => F(3)
    BY <1>1, <1>2
  <2>4. Meet(4 - 1) => F(4)
    BY <1>1, <1>2
  <2> QED BY <2>1, <2>2, <2>3, <2>4
<1>4. Meet(m)
  OBVIOUS
<1>5. (m = 0 => F(1)) /\ (m <= 1 => F(2)) /\ (m <= 2 => F(3)) /\ F(4)
  BY <1>3, <1>4
<1> QED BY <1>5 DEF Byte

LEMMA SameRecord ==
  ASSUME NEW lev, Tree(lev), Apart, NEW i \in InRange, NEW j \in InRange,
         RecordOf(i) # Nil, RecordOf(i) = RecordOf(j)
  PROVE  i = j
<1>1. Node(i, 0) # Nil /\ Node(i, 0) = Node(j, 0)
  BY NodeStep
<1>2. \A b \in Byte : b > 0
  BY DEF Byte
<1>3. \A b \in Byte : Digit(i, b) = Digit(j, b)
  BY <1>1, <1>2, PathsApart
<1> QED BY <1>3, SameDigits

\* Where the tables stay as they are, so do the paths.
LEMMA PathsKept ==
  ASSUME NEW lev, Tree(lev), \A a \in Tables : At(a)' = At(a), NEW i \in InRange
  PROVE  \A b \in 0..4 : Node(i, b)' = Node(i, b)
<1> DEFINE F(b) == Node(i, b)' = Node(i, b)
<1>1. F(4)
  BY NodeStep, NodeStepNext
<1>2. ASSUME NEW b \in Byte, F(b) PROVE F(b - 1)
  <2>1. CASE Node(i, b) = Nil
    BY <1>2, <2>1, NodeStep, NodeStepNext DEF Below
  <2>2. CASE Node(i, b) # Nil
    <3>1. PICK x \in Tables : x = Node(i, b)
      BY <2>2, NodeLevels
    <3>2. blocks'[x].at = At(x)
      BY DEF At
    <3> QED BY <1>2, <2>2, <3>1, <3>2, NodeStep, NodeStepNext DEF Below
  <2> QED BY <2>1, <2>2
<1>3. 4 \in Byte /\ 3 \in Byte /\ 2 \in Byte /\ 1 \in Byte
  BY DEF Byte
<1>4. F(3) /\ F(2) /\ F(1) /\ F(0)
  <2>1. F(4 - 1)
    BY <1>1, <1>2, <1>3
  <2>2. F(3) => F(3 - 1)
    BY <1>2, <1>3
  <2>3. F(2) => F(2 - 1)
    BY <1>2, <1>3
  <2>4. F(1) => F(1 - 1)
    BY <1>2, <1>3
  <2> HIDE DEF F
  <2>5. F(3)
    BY <2>1
  <2>6. F(2)
    BY <2>2, <2>5
  <2>7. F(1)
    BY <2>3, <2>6
  <2>8. F(0)
    BY <2>4, <2>7
  <2> QED BY <2>5, <2>6, <2>7, <2>8
<1> QED BY <1>1, <1>4

\* The table at a, which has nothing under digit d, gets a pointer to block n.
Linking(lev, a, d, n) ==
  /\ a \in Tables /\ d \in Slots /\ At(a)[d] = Nil
  /\ n \in DOMAIN blocks /\ lev[n] = lev[a] - 1
  /\ lev[n] # 0 => At(n) = EmptyTable
  /\ \A b \in Tables : b # a => At(b)' = At(b)
  /\ At(a)' = [At(a) EXCEPT ![d] = n]

\* The path of i then leads to n if it came to that pointer.
Extended(lev, a, d, n, i) ==
  \A b \in 0..4 : Node(i, b)' = IF b = lev[a] - 1 /\ Node(i, lev[a]) = a /\ Digit(i, lev[a]) = d
                                THEN n ELSE Node(i, b)

\* Where a pointer to an empty table or to a record is set, only the paths that
\* pass there go on, by one block.
LEMMA PathsExtended ==
  ASSUME NEW lev, Tree(lev), NEW i \in InRange, NEW a, NEW d, NEW n, Linking(lev, a, d, n)
  PROVE  Extended(lev, a, d, n, i)
<1> SUFFICES ASSUME a \in Tables, d \in Slots, At(a)[d] = Nil,
                    n \in DOMAIN blocks, lev[n] = lev[a] - 1, lev[n] # 0 => At(n) = EmptyTable,
                    \A b \in Tables : b # a => At(b)' = At(b),
                    At(a)' = [At(a) EXCEPT ![d] = n]
             PROVE  Extended(lev, a, d, n, i)
  BY DEF Linking
<1> DEFINE On   == Node(i, lev[a]) = a /\ Digit(i, lev[a]) = d
           F(b) == Node(i, b)' = IF b = lev[a] - 1 /\ On THEN n ELSE Node(i, b)
<1>0. lev[a] \in 1..4 /\ At(a) \in [Slots -> Nat] /\ n # Nil
  BY BlockFacts
<1>1. F(4)
  BY <1>0, NodeStep, NodeStepNext
<1>2. ASSUME NEW b \in Byte, F(b) PROVE F(b - 1)
  <2>0. Digit(i, b) \in Slots /\ b \in Int
    BY IndexOfDigits DEF Byte
  <2>1. CASE b = lev[a] - 1 /\ On
    <3>1. Node(i, b)' = n
      BY <1>2, <2>1
    <3>2. n \in Tables /\ n # a /\ At(n) = EmptyTable
      BY <1>0, <2>0, <2>1 DEF Tree, Byte
    <3>3. blocks'[n].at = EmptyTable
      BY <3>2 DEF At
    <3>4. Node(i, b - 1)' = Nil
      BY <1>0, <2>0, <3>1, <3>3, NodeStepNext DEF EmptyTable
    <3>5. Node(i, b) = Nil
      <4>1. lev[a] \in Byte
        BY <1>0 DEF Byte
      <4>2. Node(i, lev[a] - 1) = Below(Node(i, lev[a]), i, lev[a])
        BY <4>1, NodeStep
      <4>3. Node(i, lev[a] - 1) = Nil
        BY <2>1, <4>2 DEF Below
      <4> QED BY <2>1, <4>3
    <3>6. Node(i, b - 1) = Nil
      BY <3>5, NodeStep DEF Below
    <3> QED BY <1>0, <2>0, <2>1, <3>4, <3>6
  <2>2. CASE ~(b = lev[a] - 1 /\ On)
    <3>1. Node(i, b)' = Node(i, b)
      BY <1>2, <2>2
    <3>2. CASE Node(i, b) = Nil
      <4>1. Node(i, b - 1)' = Nil /\ Node(i, b - 1) = Nil
        BY <3>1, <3>2, NodeStep, NodeStepNext DEF Below
      <4>2. ~(b - 1 = lev[a] - 1 /\ On)
        BY <1>0, <2>0, <3>2, BlockFacts
      <4> QED BY <4>1, <4>2
    <3>3. CASE Node(i, b) # Nil
      <4>1. PICK x \in Tables : x = Node(i, b) /\ lev[x] = b
        BY <3>3, NodeLevels DEF Byte
      <4>2. Node(i, b - 1) = At(x)[Digit(i, b)] /\ Node(i, b - 1)' = blocks'[x].at[Digit(i, b)]
        BY <3>1, <3>3, <4>1, NodeStep, NodeStepNext DEF Below
      <4>3. CASE x = a
        <5>1. blocks'[x].at = [At(a) EXCEPT ![d] = n]
          BY <4>3 DEF At
        <5>2. b - 1 = lev[a] - 1 /\ (On <=> Digit(i, b) = d)
          BY <4>1, <4>3
        <5> QED BY <1>0, <2>0, <4>2, <4>3, <5>1, <5>2
      <4>4. CASE x # a
        <5>1. blocks'[x].at = At(x)
          BY <4>4 DEF At
        <5>2. ~(b - 1 = lev[a] - 1 /\ On)
          BY <1>0, <2>0, <4>1, <4>4
        <5> QED BY <4>2, <5>1, <5>2
      <4> QED BY <4>3, <4>4
    <3> QED BY <3>2, <3>3
  <2> QED BY <2>1, <2>2
<1>3. 4 \in Byte /\ 3 \in Byte /\ 2 \in Byte /\ 1 \in Byte
  BY DEF Byte
<1>4. F(3) /\ F(2) /\ F(1) /\ F(0)
  <2>1. F(4 - 1)
    BY <1>1, <1>2, <1>3
  <2>2. F(3) => F(3 - 1)
    BY <1>2, <1>3
  <2>3. F(2) => F(2 - 1)
    BY <1>2, <1>3
  <2>4. F(1) => F(1 - 1)
    BY <1>2, <1>3
  <2> HIDE DEF F
  <2>5. F(3)
    BY <2>1
  <2>6. F(2)
    BY <2>2, <2>5
  <2>7. F(1)
    BY <2>3, <2>6
  <2>8. F(0)
    BY <2>4, <2>7
  <2> QED BY <2>5, <2>6, <2>7, <2>8
<1>5. \A b \in 0..4 : F(b)
  <2> HIDE DEF F
  <2> QED BY <1>1, <1>4
<1> QED BY <1>5 DEF Extended

------------------------------------------------------------------------------
(* The copies of a call.                                                   *)

LEMMA IndexIn ==
  ASSUME NEW c, c.todo \in SUBSET Indices, c.todo # {}
  PROVE  /\ Min(c.todo) \in c.todo /\ Min(c.todo) \in Indices /\ Min(c.todo) \in InRange
         /\ \A b \in Byte : Dig(c, b) \in Slots
<1>1. Indices \subseteq InRange /\ Indices \subseteq Nat
  BY IndexAssumption, Powers DEF InRange
<1>2. Min(c.todo) \in c.todo
  BY <1>1, MinOfNaturals
<1> QED BY <1>1, <1>2, IndexOfDigits DEF Dig

\* The digits vs_put keeps after a change of one of them.
LEMMA MovedFacts ==
  ASSUME NEW last \in [Byte -> Slots \cup {None}], NEW bt \in 2..4, NEW d \in Slots
  PROVE  /\ Moved(last, bt, d) \in [Byte -> Slots \cup {None}]
         /\ \A b \in Byte : Moved(last, bt, d)[b] = IF b = bt - 1 THEN None
                                                   ELSE IF b = bt THEN d ELSE last[b]
BY DEF Moved, Byte

\* The two cases of Reload (vs_put.m:797-819).
LEMMA ReloadSame ==
  ASSUME NEW c, NEW b, c.last[b] = D(b)
  PROVE  Reload(c, b) = c
BY DEF Reload

LEMMA ReloadOther ==
  ASSUME NEW c, NEW b, c.last[b] # D(b)
  PROVE  Reload(c, b) = [c EXCEPT !.off = [@ EXCEPT ![b - 1] = c.tab[b][D(b)]],
                                  !.tab = [@ EXCEPT ![b - 1] = Content(c.tab[b][D(b)])],
                                  !.last = Moved(@, b, D(b))]
BY DEF Reload, Content

\* Reload (vs_put.m:797-819) keeps the copies true and brings one level up to date.
LEMMA ReloadKeeps ==
  ASSUME NEW lev, Tree(lev), NEW c, Keeps(c, lev), \A b \in Byte : Copied(c, b),
         c.todo # {}, c.todo = call.todo, NEW bt \in 2..4
  PROVE  /\ Keeps(Reload(c, bt), lev) /\ \A b \in Byte : Copied(Reload(c, bt), b)
         /\ Reload(c, bt).todo = c.todo
         /\ Reload(c, bt).last[bt] = Dig(c, bt)
         /\ \A b \in Byte : b > bt => Reload(c, bt).last[b] = c.last[b]
         /\ \A f \in {"all", "data", "from", "exact", "update"} : Reload(c, bt)[f] = c[f]
<1> DEFINE r == Reload(c, bt)
           d == Dig(c, bt)
           a == c.tab[bt][d]
<1>1. c \in Call /\ d \in Slots /\ D(bt) = d /\ bt \in Byte /\ bt - 1 \in Byte
  BY IndexIn DEF Keeps, Call, D, Dig, Index, Byte
<1>2. CASE c.last[bt] = D(bt)
  <2>1. Reload(c, bt) = c
    BY <1>2, ReloadSame
  <2>2. c.last[bt] = Dig(c, bt)
    BY <1>1, <1>2
  <2> QED BY ONLY <2>1, <2>2, Keeps(c, lev), \A b \in Byte : Copied(c, b), c.todo # {}
<1>3. CASE c.last[bt] # D(bt)
  <2>1. r = [c EXCEPT !.off = [@ EXCEPT ![bt - 1] = a],
                      !.tab = [@ EXCEPT ![bt - 1] = Content(a)],
                      !.last = Moved(@, bt, d)]
    <3>1. Reload(c, bt) = [c EXCEPT !.off = [@ EXCEPT ![bt - 1] = c.tab[bt][D(bt)]],
                                    !.tab = [@ EXCEPT ![bt - 1] = Content(c.tab[bt][D(bt)])],
                                    !.last = Moved(@, bt, D(bt))]
      BY ONLY <1>3, ReloadOther
    <3>2. D(bt) = d
      BY <1>1
    <3> QED BY ONLY <3>1, <3>2
  <2>2. a \in Nat
    BY <1>1 DEF Call
  <2>3. a # Nil => a \in DOMAIN blocks /\ lev[a] = bt - 1 /\ a \in Tables
    <3> SUFFICES ASSUME a # Nil PROVE a \in DOMAIN blocks /\ lev[a] = bt - 1 /\ a \in Tables
      OBVIOUS
    <3>1. c.off[bt] # Nil /\ c.tab[bt] = At(c.off[bt])
      BY <1>1 DEF Copied, Content, EmptyTable
    <3>2. c.off[bt] \in Tables /\ lev[c.off[bt]] = bt
      BY <1>1, <3>1 DEF Keeps, Tree
    <3>3. a = At(c.off[bt])[d]
      BY <3>1
    <3>4. a \in DOMAIN blocks /\ lev[a] = bt - 1
      BY <1>1, <3>2, <3>3 DEF Tree
    <3> QED BY <3>4 DEF Tree
  <2>4. Content(a) \in [Slots -> Nat]
    <3>1. EmptyTable \in [Slots -> Nat]
      BY DEF EmptyTable, Nil
    <3> QED BY <2>3, <3>1, BlockFacts DEF Content
  <2> DEFINE o == [c.off EXCEPT ![bt - 1] = a]
             t == [c.tab EXCEPT ![bt - 1] = Content(a)]
             l == Moved(c.last, bt, d)
  <2>0. c.off \in [Byte -> Nat] /\ c.tab \in [Byte -> [Slots -> Nat]]
        /\ c.last \in [Byte -> Slots \cup {None}]
    BY <1>1 DEF Call
  <2>5. o \in [Byte -> Nat] /\ t \in [Byte -> [Slots -> Nat]] /\ l \in [Byte -> Slots \cup {None}]
    BY <2>0, <1>1, <2>2, <2>4, MovedFacts
  <2>6. /\ \A b \in Byte : o[b] = IF b = bt - 1 THEN a ELSE c.off[b]
        /\ \A b \in Byte : t[b] = IF b = bt - 1 THEN Content(a) ELSE c.tab[b]
        /\ \A b \in Byte : l[b] = IF b = bt - 1 THEN None ELSE IF b = bt THEN d ELSE c.last[b]
    <3>1. \A b \in Byte : o[b] = IF b = bt - 1 THEN a ELSE c.off[b]
      BY ONLY <2>0
    <3>2. \A b \in Byte : t[b] = IF b = bt - 1 THEN Content(a) ELSE c.tab[b]
      BY ONLY <2>0
    <3>3. \A b \in Byte : l[b] = IF b = bt - 1 THEN None ELSE IF b = bt THEN d ELSE c.last[b]
      BY ONLY <2>0, <1>1, bt \in 2..4, MovedFacts
    <3> HIDE DEF o, t, l
    <3> QED BY ONLY <3>1, <3>2, <3>3
  <2>7. r.off = o /\ r.tab = t /\ r.last = l
    BY <1>1, <2>1 DEF Call
  <2>8. \A f \in {"all", "data", "from", "exact", "update", "todo", "stage", "bt", "dest"} : r[f] = c[f]
    BY <1>1, <2>1 DEF Call
  <2>9. r \in Call
    <3> HIDE DEF o, t, l
    <3>1. r = [c EXCEPT !.off = o, !.tab = t, !.last = l]
      BY <1>1, <2>1 DEF o, t, l, Call
    <3> HIDE DEF r
    <3> QED BY <1>1, <2>5, <3>1 DEF Call
  <2> HIDE DEF r, o, t, l, a
  <2>10. \A b \in Byte : Copied(r, b)
    BY <2>6, <2>7 DEF Copied
  <2>11. Keeps(r, lev)
    <3>1. r.off[4] = 1
      BY <1>1, <2>6, <2>7 DEF Keeps, Byte
    <3>2. \A b \in Byte : r.off[b] # Nil => r.off[b] \in DOMAIN blocks /\ lev[r.off[b]] = b
      BY <2>3, <2>6, <2>7 DEF Keeps
    <3>3. \A b \in 2..4 : r.last[b] # None => r.off[b - 1] = r.tab[b][r.last[b]]
      <4> SUFFICES ASSUME NEW b \in 2..4, r.last[b] # None PROVE r.off[b - 1] = r.tab[b][r.last[b]]
        OBVIOUS
      <4>1. b \in Byte /\ b - 1 \in Byte /\ b # bt - 1
        BY <2>6, <2>7 DEF Byte
      <4>2. CASE b = bt
        BY <1>1, <2>6, <2>7, <4>1, <4>2 DEF a
      <4>3. CASE b # bt
        <5>1. r.off[b - 1] = c.off[b - 1] /\ r.tab[b] = c.tab[b] /\ r.last[b] = c.last[b]
          BY <1>1, <2>6, <2>7, <4>1, <4>3
        <5> QED BY <5>1 DEF Keeps
      <4> QED BY <4>2, <4>3
    <3> QED BY <2>9, <3>1, <3>2, <3>3 DEF Keeps
  <2>12. r.last[bt] = d /\ \A b \in Byte : b > bt => r.last[b] = c.last[b]
    BY <1>1, <2>6, <2>7 DEF Byte
  <2> QED BY <2>8, <2>10, <2>11, <2>12 DEF r
<1> QED BY <1>2, <1>3

\* The call stands on the path of its index.
LEMMA PathOfCall ==
  ASSUME NEW lev, Tree(lev), NEW c, Keeps(c, lev), c.todo # {},
         \A b \in 2..4 : c.last[b] = Dig(c, b),
         NEW m \in 0..4, \A b \in Byte : b > m => Copied(c, b)
  PROVE  /\ \A b \in Byte : b >= m => Node(Min(c.todo), b) = c.off[b]
         /\ m = 0 => RecordOf(Min(c.todo)) = c.tab[1][Dig(c, 1)]
<1> DEFINE i == Min(c.todo)
           F(b) == Node(i, b) = c.off[b]
<1>1. i \in InRange /\ \A b \in Byte : Dig(c, b) \in Slots /\ Digit(i, b) = Dig(c, b)
  BY IndexIn DEF Keeps, Call, Dig
<1>2. F(4)
  BY NodeStep DEF Keeps
<1>3. ASSUME NEW b \in Byte, F(b), Copied(c, b) PROVE Node(i, b - 1) = c.tab[b][Dig(c, b)]
  BY <1>1, <1>3, NodeStep DEF Below, Copied, Content, EmptyTable
<1>4. ASSUME NEW b \in 2..4, F(b), Copied(c, b) PROVE F(b - 1)
  <2>1. b \in Byte /\ c.last[b] # None
    BY <1>1, Powers, SMTT(30) DEF Byte, None
  <2> QED BY <1>3, <1>4, <2>1 DEF Keeps
<1>5. Byte = {1, 2, 3, 4}
  BY DEF Byte
<1>6. m < 4 => F(3)
  <2>1. m < 4 => F(4 - 1)
    BY <1>2, <1>4, <1>5
  <2> QED BY <2>1
<1>7. m < 3 => F(2)
  <2>1. m < 3 => F(3 - 1)
    BY <1>6, <1>4, <1>5
  <2> QED BY <2>1
<1>8. m < 2 => F(1)
  <2>1. m < 2 => F(2 - 1)
    BY <1>7, <1>4, <1>5
  <2> QED BY <2>1
<1>9. m = 0 => Node(i, 0) = c.tab[1][Dig(c, 1)]
  <2>1. m = 0 => Node(i, 1 - 1) = c.tab[1][Dig(c, 1)]
    BY <1>8, <1>3, <1>5
  <2> QED BY <2>1
<1> QED BY <1>2, <1>5, <1>6, <1>7, <1>8, <1>9, NodeStep

------------------------------------------------------------------------------
(* The dimension is a number.                                              *)

LEMMA MaxOfTwo ==
  ASSUME NEW x \in Int, NEW y \in Int
  PROVE  Max({x, y}) = IF x >= y THEN x ELSE y
<1> DEFINE m == IF x >= y THEN x ELSE y
<1>1. m \in {x, y} /\ \A z \in {x, y} : m >= z
  OBVIOUS
<1>2. Max({x, y}) \in {x, y} /\ \A z \in {x, y} : Max({x, y}) >= z
  BY <1>1 DEF Max
<1> QED BY <1>2

LEMMA GreatestIndex ==
  ASSUME NEW S \in SUBSET Indices, S # {}
  PROVE  Max(S) \in S /\ Max(S) \in Nat /\ \A i \in S : i <= Max(S)
<1>1. S \subseteq Nat /\ Radix * Radix * Radix * Radix \in Nat
      /\ \A i \in S : i <= Radix * Radix * Radix * Radix
  <2>1. Radix * Radix * Radix * Radix \in Nat
    <3>1. Radix * Radix * Radix \in Nat /\ Radix \in Nat
      BY Powers
    <3> QED BY <3>1
  <2> QED BY <2>1, IndexAssumption
<1> QED BY <1>1, MaxOfNaturals

\* The pointer that vs_use follows (vs_use.m:571).
LEMMA LastUsedIn ==
  ASSUME NEW a, Used(a) # {}
  PROVE  /\ LastUsed(a) \in Slots /\ At(a)[LastUsed(a)] # Nil
         /\ \A s \in Slots : At(a)[s] # Nil => s <= LastUsed(a)
<1>1. Used(a) \subseteq Nat /\ Radix \in Nat /\ \A s \in Used(a) : s <= Radix
  BY Powers DEF Used
<1>2. LastUsed(a) \in Used(a) /\ \A s \in Used(a) : s <= LastUsed(a)
  BY <1>1, MaxOfNaturals DEF LastUsed
<1> QED BY <1>2 DEF Used

LEMMA FollowLevels ==
  ASSUME NEW lev, Tree(lev), NEW a, a = Nil \/ a \in Tables
  PROVE  /\ Follow(a) # Nil => /\ a \in Tables /\ Used(a) # {}
                               /\ Follow(a) \in DOMAIN blocks /\ lev[Follow(a)] = lev[a] - 1
         /\ \A n \in 0..3 : Part(a, n) \in Nat
<1>1. CASE Stops(a)
  BY <1>1 DEF Follow, Part
<1>2. CASE ~Stops(a)
  <2>1. a \in Tables /\ Used(a) # {}
    BY <1>2 DEF Stops
  <2>2. LastUsed(a) \in Slots /\ At(a)[LastUsed(a)] # Nil
    BY <2>1, LastUsedIn
  <2>3. Follow(a) = At(a)[LastUsed(a)]
    BY <1>2 DEF Follow
  <2>4. \A n \in 0..3 : Power(n) \in Nat
    BY Powers
  <2>5. \A n \in 0..3 : Part(a, n) \in Nat
    <3> SUFFICES ASSUME NEW n \in 0..3 PROVE Part(a, n) \in Nat
      OBVIOUS
    <3>1. Part(a, n) = LastUsed(a) * Power(n)
      BY <1>2 DEF Part
    <3>2. LastUsed(a) \in Nat
      BY <2>2, Powers
    <3> QED BY <2>4, <3>1, <3>2
  <2> QED BY <2>1, <2>2, <2>3, <2>5 DEF Tree
<1> QED BY <1>1, <1>2

\* The tables of the scan are those of a path.
LEMMA ScanTables ==
  ASSUME NEW lev, Tree(lev)
  PROVE  /\ 1 \in Tables
         /\ LET t == Follow(1) IN t = Nil \/ (t \in Tables /\ lev[t] = 3)
         /\ LET t == Follow(Follow(1)) IN t = Nil \/ (t \in Tables /\ lev[t] = 2)
         /\ LET t == Follow(Follow(Follow(1))) IN t = Nil \/ (t \in Tables /\ lev[t] = 1)
<1>0. /\ \A a \in DOMAIN blocks : lev[a] # 0 => a \in Tables
      /\ Nil \notin Tables
  BY BlockFacts DEF Tree
<1>1. 1 \in Tables /\ lev[1] = 4
  BY DEF Tree
<1>2. Follow(1) = Nil \/ (Follow(1) \in Tables /\ lev[Follow(1)] = 3)
  BY <1>1, <1>0, FollowLevels
<1> DEFINE t3 == Follow(1)
<1> HIDE DEF t3
<1>3. Follow(t3) = Nil \/ (Follow(t3) \in Tables /\ lev[Follow(t3)] = 2)
  <2>1. t3 = Nil \/ (t3 \in Tables /\ lev[t3] = 3)
    BY <1>2 DEF t3
  <2> QED BY <2>1, <1>0, FollowLevels
<1> DEFINE t2 == Follow(t3)
<1> HIDE DEF t2
<1>4. Follow(t2) = Nil \/ (Follow(t2) \in Tables /\ lev[Follow(t2)] = 1)
  <2>1. t2 = Nil \/ (t2 \in Tables /\ lev[t2] = 2)
    BY <1>3 DEF t2
  <2> QED BY <2>1, <1>0, FollowLevels
<1> QED BY <1>1, <1>2, <1>3, <1>4 DEF t2, t3

LEMMA ScanIsNumber ==
  ASSUME NEW lev, Tree(lev)
  PROVE  Scan \in Nat
<1>1. Part(1, 3) \in Nat
  BY ScanTables, FollowLevels
<1>2. Part(Follow(1), 2) \in Nat
  BY ScanTables, FollowLevels
<1>3. Part(Follow(Follow(1)), 1) \in Nat
  BY ScanTables, FollowLevels
<1>4. Part(Follow(Follow(Follow(1))), 0) \in Nat
  BY ScanTables, FollowLevels
<1> QED BY <1>1, <1>2, <1>3, <1>4 DEF Scan

------------------------------------------------------------------------------
(* The invariant is inductive.                                             *)

LEMMA FileKept ==
  ASSUME NEW lev, Tree(lev), Apart, blocks' = blocks
  PROVE  Tree(lev)' /\ Apart' /\ Tables' = Tables /\ \A a : At(a)' = At(a)
<1>1. Tables' = Tables /\ \A a : At(a)' = At(a)
  BY DEF Tables, At
<1>2. Apart'
  BY <1>1 DEF Apart
<1>3. Tree(lev)'
  BY <1>1 DEF Tree
<1> QED BY <1>1, <1>2, <1>3

LEMMA FoundKept ==
  ASSUME NEW lev, Tree(lev), AllFound,
         \A i \in InRange : Node(i, 0)' = Node(i, 0),
         \A a \in DOMAIN blocks : lev[a] = 0 => blocks'[a] = blocks[a],
         written' = written
  PROVE  AllFound'
<1>1. \A i \in InRange : /\ RecordOf(i)' = RecordOf(i)
                         /\ RecordOf(i) # Nil => blocks'[RecordOf(i)] = blocks[RecordOf(i)]
  BY NodeStep, NodeStepNext, NodeLevels
<1>2. \A i \in InRange :
        IF i \in DOMAIN written'
        THEN RecordOf(i)' # Nil /\ blocks'[RecordOf(i)'] = Record(written'[i])
        ELSE RecordOf(i)' = Nil
  BY <1>1 DEF AllFound
<1>3. \A i \in InRange : Record(written[i])' = Record(written'[i])
  BY DEF Record
<1>4. written' \in [DOMAIN written' -> Int] /\ DOMAIN written' \subseteq Indices
  BY DEF AllFound
<1> QED BY <1>2, <1>3, <1>4 DEF AllFound

LEMMA FoundInFile ==
  ASSUME NEW lev, Tree(lev), Apart, AllFound, UNCHANGED <<blocks, written>>
  PROVE  AllFound'
<1>1. \A a \in Tables : At(a)' = At(a)
  BY FileKept
<1>2. \A i \in InRange : Node(i, 0)' = Node(i, 0)
  BY <1>1, PathsKept
<1> QED BY <1>2, FoundKept

\* vs_def leaves a tree without records.
LEMMA InitInv == Init => IInv
<1> SUFFICES ASSUME Init PROVE IInv
  OBVIOUS
<1> DEFINE lev == [a \in 1..4 |-> 5 - a]
           First(k) == Table([EmptyTable EXCEPT ![0] = k])
<1>1. blocks = <<First(2), First(3), First(4), Table(EmptyTable)>>
  BY DEF Init
<1>2. EmptyTable \in [Slots -> Nat] /\ 0 \in Slots /\ \A s \in Slots : EmptyTable[s] = Nil
  BY Powers DEF EmptyTable, Nil
<1>3. /\ First(2) \in Block /\ First(3) \in Block /\ First(4) \in Block
      /\ Table(EmptyTable) \in Block
  BY <1>2 DEF Table, Block
<1>4. /\ blocks \in Seq(Block) /\ DOMAIN blocks = 1..4 /\ Len(blocks) = 4
      /\ blocks[1] = First(2) /\ blocks[2] = First(3) /\ blocks[3] = First(4)
      /\ blocks[4] = Table(EmptyTable)
  <2> HIDE DEF First
  <2> QED BY <1>1, <1>3
<1>5. /\ At(1) = [EmptyTable EXCEPT ![0] = 2] /\ At(2) = [EmptyTable EXCEPT ![0] = 3]
      /\ At(3) = [EmptyTable EXCEPT ![0] = 4] /\ At(4) = EmptyTable
  BY <1>4 DEF At, Table
<1>6. Tables = 1..4
  BY <1>4 DEF Tables, Table
<1>7. /\ \A s \in Slots : /\ At(1)[s] = IF s = 0 THEN 2 ELSE Nil
                          /\ At(2)[s] = IF s = 0 THEN 3 ELSE Nil
                          /\ At(3)[s] = IF s = 0 THEN 4 ELSE Nil
                          /\ At(4)[s] = Nil
  BY <1>2, <1>5
<1>8. \A a \in Tables, s \in Slots :
        At(a)[s] # Nil => a \in 1..3 /\ s = 0 /\ At(a)[s] = a + 1
  BY <1>6, <1>7
<1> HIDE DEF First
<1>9. Tree(lev)
  <2>1. lev \in [DOMAIN blocks -> 0..4] /\ \A a \in 1..4 : lev[a] = 5 - a
    BY <1>4
  <2>2. \A a \in Tables, s \in Slots :
          At(a)[s] # Nil => At(a)[s] \in DOMAIN blocks /\ lev[At(a)[s]] = lev[a] - 1
    <3> HIDE DEF lev
    <3> QED BY <1>4, <1>6, <1>8, <2>1
  <2>3. At(1)[0] = 2 /\ At(2)[0] = 3 /\ At(3)[0] = 4
    BY <1>2, <1>7
  <2> HIDE DEF lev
  <2> QED BY <1>4, <1>6, <2>1, <2>2, <2>3 DEF Tree
<1> HIDE DEF lev
<1>10. Apart
  BY <1>8 DEF Apart
<1>11. AllFound
  <2>1. written = [i \in {} |-> 0]
    BY DEF Init
  <2>2. \A i \in InRange : RecordOf(i) = Nil
    <3> SUFFICES ASSUME NEW i \in InRange, RecordOf(i) # Nil PROVE FALSE
      OBVIOUS
    <3>1. 1 \in Byte /\ Node(i, 0) # Nil
      BY NodeStep DEF Byte
    <3>2. Node(i, 1) # Nil /\ Node(i, 0) = At(Node(i, 1))[Digit(i, 1)]
      <4>1. Node(i, 1 - 1) = Below(Node(i, 1), i, 1)
        BY <3>1, NodeStep
      <4> QED BY <3>1, <4>1 DEF Below
    <3>3. Node(i, 1) \in Tables /\ Digit(i, 1) \in Slots /\ lev[Node(i, 1)] = 1
      BY <1>9, <3>1, <3>2, NodeLevels, IndexOfDigits
    <3>4. lev[Node(i, 0)] = lev[Node(i, 1)] - 1 /\ Node(i, 0) = Node(i, 1) + 1 /\ Node(i, 1) \in 1..3
      BY <1>8, <1>9, <3>1, <3>2, <3>3 DEF Tree
    <3> QED BY <3>3, <3>4 DEF lev
  <2> QED BY <2>1, <2>2 DEF AllFound
<1> QED BY <1>4, <1>9, <1>10, <1>11, BoundAssumption DEF Init, IInv, Idle, Closed

LEMMA OpenInv == ASSUME IInv, NEW h \in Handles, Open(h) PROVE IInv'
<1> PICK lev : Tree(lev) /\ (~Idle => CallOK(call, lev))
  BY DEF IInv
<1>1. Scan \in Nat
  BY ScanIsNumber
<1>2. Tree(lev)' /\ Apart' /\ AllFound'
  BY FileKept, FoundInFile DEF IInv, Open
<1>3. Idle' /\ Len(blocks') <= MaxBlocks
  BY DEF Open, Idle, IInv
<1>4. dim' \in [Handles -> Nat \cup {Closed}]
  BY <1>1 DEF Open, IInv
<1> QED BY <1>2, <1>3, <1>4 DEF IInv

LEMMA BeginInv ==
  ASSUME IInv, NEW h \in Handles, NEW B \in Batches, NEW d \in DOMAIN Data, Begin(h, B, d)
  PROVE  IInv'
<1> PICK lev : Tree(lev) /\ (~Idle => CallOK(call, lev))
  BY DEF IInv
<1>1. Tree(lev)' /\ Apart' /\ AllFound' /\ Tables' = Tables /\ \A a : At(a)' = At(a)
  BY FileKept, FoundInFile DEF IInv, Begin
<1>2. /\ call'.stage = "locate" /\ call'.todo = B /\ call'.all = B /\ call'.data = d
      /\ call'.from = h /\ call'.update = FALSE /\ call'.bt = 4 /\ call'.dest = Nil
      /\ call'.last = [b \in Byte |-> None]
      /\ call'.off = [b \in Byte |-> IF b = 4 THEN 1 ELSE Nil]
      /\ call'.tab = [b \in Byte |-> IF b = 4 THEN At(1) ELSE EmptyTable]
  BY DEF Begin
<1>3. call' \in Call
  <2>1. B \in SUBSET Indices /\ B # {} /\ (dim[h] = Scan) \in BOOLEAN
    BY IndexAssumption
  <2>2. [b \in Byte |-> None] \in [Byte -> Slots \cup {None}]
    OBVIOUS
  <2>3. [b \in Byte |-> IF b = 4 THEN 1 ELSE Nil] \in [Byte -> Nat]
    BY DEF Nil
  <2>4. At(1) \in [Slots -> Nat] /\ EmptyTable \in [Slots -> Nat]
    BY BlockFacts DEF Tree, EmptyTable, Nil
  <2>5. [b \in Byte |-> IF b = 4 THEN At(1) ELSE EmptyTable] \in [Byte -> [Slots -> Nat]]
    BY <2>4
  <2> DEFINE o == [b \in Byte |-> IF b = 4 THEN 1 ELSE Nil]
             t == [b \in Byte |-> IF b = 4 THEN At(1) ELSE EmptyTable]
             l == [b \in Byte |-> None]
             x == dim[h] = Scan
  <2>6. call' = [stage |-> "locate", todo |-> B, all |-> B, data |-> d,
                 from |-> h, exact |-> x, update |-> FALSE, bt |-> 4, dest |-> Nil,
                 last |-> l, off |-> o, tab |-> t]
    BY DEF Begin
  <2>7. l \in [Byte -> Slots \cup {None}] /\ o \in [Byte -> Nat] /\ t \in [Byte -> [Slots -> Nat]]
        /\ x \in BOOLEAN
    BY <2>1, <2>2, <2>3, <2>5
  <2> HIDE DEF o, t, l, x
  <2> QED BY <2>1, <2>6, <2>7 DEF Call, Stages, Nil
<1>4. Keeps(call, lev)'
  <2>1. (DOMAIN blocks)' = DOMAIN blocks /\ 1 \in DOMAIN blocks /\ lev[1] = 4
    BY DEF Begin, Tree, Tables
  <2>2. \A b \in Byte : call'.last[b] = None /\ (call'.off[b] # Nil => b = 4 /\ call'.off[b] = 1)
    BY <1>2
  <2>3. call'.off[4] = 1 /\ \A b \in 2..4 : b \in Byte
    BY <1>2 DEF Byte
  <2> QED BY <1>3, <2>1, <2>2, <2>3 DEF Keeps
<1>5. \A b \in Byte : Copied(call, b)'
  BY <1>1, <1>2 DEF Copied, Content, Nil
<1>6. CallOK(call, lev)'
  BY <1>2, <1>4, <1>5 DEF CallOK
<1> QED BY <1>1, <1>6 DEF IInv, Begin

LEMMA LocateInv == ASSUME IInv, Locate PROVE IInv'
<1> PICK lev : Tree(lev) /\ (~Idle => CallOK(call, lev))
  BY DEF IInv
<1>1. call.stage = "locate" /\ ~Idle /\ CallOK(call, lev)
  BY DEF Locate, Idle, NoCall
<1>2. Keeps(call, lev) /\ (\A b \in Byte : Copied(call, b)) /\ call.todo # {} /\ call \in Call
  BY <1>1 DEF CallOK, Locate, Keeps
<1> DEFINE c4 == Reload(call, 4)
           c3 == Reload(c4, 3)
           c  == Reload(c3, 2)
           a  == c.tab[1][D(1)]
<1>3. /\ Keeps(c4, lev) /\ (\A b \in Byte : Copied(c4, b)) /\ c4.todo = call.todo
      /\ c4.last[4] = Dig(call, 4)
  BY <1>2, ReloadKeeps
<1> HIDE DEF c4
<1>4. /\ Keeps(c3, lev) /\ (\A b \in Byte : Copied(c3, b)) /\ c3.todo = call.todo
      /\ c3.last[3] = Dig(c4, 3) /\ c3.last[4] = c4.last[4]
  <2>1. \A b \in Byte : b > 3 => c3.last[b] = c4.last[b]
    BY <1>2, <1>3, ReloadKeeps
  <2>2. 4 \in Byte
    BY DEF Byte
  <2> QED BY <1>2, <1>3, <2>1, <2>2, ReloadKeeps
<1> HIDE DEF c3
<1>5. /\ Keeps(c, lev) /\ (\A b \in Byte : Copied(c, b)) /\ c.todo = call.todo
      /\ c.last[2] = Dig(c3, 2) /\ c.last[3] = c3.last[3] /\ c.last[4] = c3.last[4]
  <2>1. \A b \in Byte : b > 2 => c.last[b] = c3.last[b]
    BY <1>2, <1>4, ReloadKeeps
  <2>2. 4 \in Byte /\ 3 \in Byte
    BY DEF Byte
  <2> QED BY <1>2, <1>4, <2>1, <2>2, ReloadKeeps
<1>6. \A b \in 2..4 : c.last[b] = Dig(c, b)
  <2>1. c.last[4] = Dig(c, 4) /\ c.last[3] = Dig(c, 3) /\ c.last[2] = Dig(c, 2)
    BY <1>3, <1>4, <1>5 DEF Dig
  <2>2. \A b \in 2..4 : b = 2 \/ b = 3 \/ b = 4
    OBVIOUS
  <2> QED BY <2>1, <2>2
<1>7. D(1) = Dig(c, 1) /\ Dig(c, 1) \in Slots /\ 1 \in Byte
  BY <1>2, <1>5, IndexIn DEF D, Dig, Index, Byte, Call
<1> HIDE DEF c
<1>8. c \in Call /\ a \in Nat
  BY <1>5, <1>7 DEF Keeps, Call
<1>9. call' = IF a = Nil THEN [c EXCEPT !.stage = "recheck", !.bt = 4]
              ELSE [c EXCEPT !.stage = "write", !.dest = a]
  BY DEF Locate, c, c3, c4
<1> HIDE DEF a
<1>10. /\ call' \in Call
       /\ call'.todo = c.todo /\ call'.off = c.off /\ call'.tab = c.tab /\ call'.last = c.last
       /\ a = Nil => call'.stage = "recheck" /\ call'.bt = 4
       /\ a # Nil => call'.stage = "write" /\ call'.dest = a
  <2>1. ASSUME a = Nil
        PROVE  /\ call' \in Call /\ call'.stage = "recheck" /\ call'.bt = 4
               /\ call'.todo = c.todo /\ call'.off = c.off /\ call'.tab = c.tab /\ call'.last = c.last
    <3>1. call' = [c EXCEPT !.stage = "recheck", !.bt = 4]
      BY <1>9, <2>1
    <3>2. c = [f \in DOMAIN c |-> c[f]] /\ "recheck" \in Stages /\ 4 \in 2..4
      BY <1>8 DEF Call, Stages
    <3> QED BY <1>8, <3>1, <3>2 DEF Call
  <2>2. ASSUME a # Nil
        PROVE  /\ call' \in Call /\ call'.stage = "write" /\ call'.dest = a
               /\ call'.todo = c.todo /\ call'.off = c.off /\ call'.tab = c.tab /\ call'.last = c.last
    <3>1. call' = [c EXCEPT !.stage = "write", !.dest = a]
      BY <1>9, <2>2
    <3> QED BY <1>8, <3>1 DEF Call, Stages
  <2> QED BY <2>1, <2>2
<1>11. Tree(lev)' /\ Apart' /\ AllFound' /\ \A x : At(x)' = At(x)
  BY FileKept, FoundInFile DEF IInv, Locate
<1>12. Keeps(call, lev)'
  <2>1. (DOMAIN blocks)' = DOMAIN blocks
    BY DEF Locate
  <2> QED BY <1>5, <1>10, <2>1 DEF Keeps
<1>13. \A b \in Byte : Copied(call, b)'
  <2> SUFFICES ASSUME NEW b \in Byte PROVE Copied(call, b)'
    OBVIOUS
  <2>1. c.tab[b] = Content(c.off[b])
    BY <1>5 DEF Copied
  <2>2. PICK x : x = c.off[b]
    OBVIOUS
  <2>3. Content(x)' = Content(x)
    BY <1>11 DEF Content
  <2> QED BY <1>10, <2>1, <2>2, <2>3 DEF Copied
<1>14. \A b : Dig(call, b)' = Dig(c, b)
  BY <1>10 DEF Dig
<1>15. CallOK(call, lev)'
  <2>1. call'.todo # {} /\ \A b \in 2..4 : call'.last[b] = Dig(call, b)'
    BY <1>2, <1>5, <1>6, <1>10, <1>14
  <2>2. CASE a = Nil
    <3>1. call'.stage = "recheck" /\ call'.bt = 4 /\ call'.off[4] # Nil /\ call'.tab[1][Dig(call, 1)'] = Nil
      BY <1>5, <1>7, <1>10, <1>14, <2>2 DEF Keeps, Nil, a
    <3>2. \A b \in 4..4 : b = 4
      OBVIOUS
    <3> QED BY <1>12, <1>13, <2>1, <3>1, <3>2 DEF CallOK
  <2>3. CASE a # Nil
    <3>1. call'.stage = "write" /\ call'.dest = call'.tab[1][Dig(call, 1)'] /\ call'.dest # Nil
      BY <1>7, <1>10, <1>14, <2>3 DEF a
    <3> QED BY <1>12, <1>13, <2>1, <3>1 DEF CallOK
  <2> QED BY <2>2, <2>3
<1> QED BY <1>11, <1>15 DEF IInv, Locate

\* What a step at level bt of rechecking finds.
LEMMA Rechecking ==
  ASSUME NEW lev, Tree(lev), CallOK(call, lev), call.stage \in {"recheck", "link"}
  PROVE  LET bt == call.bt IN
         /\ call \in Call /\ bt \in 2..4 /\ bt \in Byte /\ bt - 1 \in Byte
         /\ \A b : D(b) = Dig(call, b)
         /\ D(bt) \in Slots /\ D(1) \in Slots
         /\ call.off[bt] # Nil /\ call.off[bt] \in Tables /\ lev[call.off[bt]] = bt
         /\ call.off[bt - 1] = call.tab[bt][D(bt)]
<1>1. call \in Call /\ call.bt \in 2..4 /\ call.bt \in Byte /\ call.bt - 1 \in Byte
  BY DEF CallOK, Keeps, Call, Byte
<1>2. \A b : D(b) = Dig(call, b)
  BY DEF D, Dig, Index
<1>3. call.todo # {} /\ call.todo \in SUBSET Indices /\ 1 \in Byte
  BY <1>1 DEF CallOK, Call, Byte
<1>4. D(call.bt) \in Slots /\ D(1) \in Slots
  BY <1>1, <1>2, <1>3, IndexIn
<1>5. call.off[call.bt] # Nil
  BY <1>1 DEF CallOK
<1>6. call.off[call.bt] \in Tables /\ lev[call.off[call.bt]] = call.bt
  BY <1>1, <1>5 DEF CallOK, Keeps, Tree
<1>7. call.last[call.bt] = D(call.bt)
  BY <1>1, <1>2 DEF CallOK
<1>8. D(call.bt) # None
  BY <1>4, Powers DEF None
<1>9. call.off[call.bt - 1] = call.tab[call.bt][D(call.bt)]
  BY <1>1, <1>7, <1>8 DEF CallOK, Keeps
<1> QED BY <1>1, <1>2, <1>4, <1>5, <1>6, <1>9

LEMMA DownFields ==
  ASSUME NEW c \in Call
  PROVE  /\ Down(c) \in Call
         /\ \A f \in {"todo", "all", "data", "from", "exact", "update", "dest", "last", "off", "tab"} :
              Down(c)[f] = c[f]
         /\ IF c.bt = 2 THEN Down(c).stage = "point"
            ELSE Down(c).stage = "recheck" /\ Down(c).bt = c.bt - 1
<1>1. CASE c.bt = 2
  BY <1>1 DEF Down, Call, Stages
<1>2. CASE c.bt # 2
  <2>1. c.bt - 1 \in 2..4
    BY <1>2 DEF Call
  <2>2. Down(c) = [c EXCEPT !.stage = "recheck", !.bt = c.bt - 1]
    BY <1>2 DEF Down, Call
  <2> DEFINE k == c.bt - 1
  <2> HIDE DEF k
  <2>3. Down(c) = [c EXCEPT !.stage = "recheck", !.bt = k] /\ k \in 2..4
    BY <2>1, <2>2 DEF k
  <2> QED BY <1>2, <2>3 DEF Call, Stages, k
<1> QED BY <1>1, <1>2

LEMMA RecheckTableInv == ASSUME IInv, RecheckTable PROVE IInv'
<1> PICK lev : Tree(lev) /\ (~Idle => CallOK(call, lev))
  BY DEF IInv
<1>1. call.stage = "recheck" /\ ~Idle /\ CallOK(call, lev)
  BY DEF RecheckTable, Idle, NoCall
<1> DEFINE bt == call.bt
           a  == call.tab[bt][D(bt)]
           c  == [call EXCEPT !.off[bt - 1] = a, !.tab[bt - 1] = At(a)]
<1>2. /\ call \in Call /\ bt \in 2..4 /\ bt \in Byte /\ bt - 1 \in Byte
      /\ \A b : D(b) = Dig(call, b)
      /\ call.off[bt - 1] = a
  BY <1>1, Rechecking
<1>3. a # Nil /\ call' = Down(c)
  BY DEF RecheckTable
<1>4. call.tab[bt - 1] = At(a)
  BY <1>1, <1>2, <1>3 DEF CallOK, Copied, Content
<1>5. c = call
  <2>1. [call.off EXCEPT ![bt - 1] = a] = call.off /\ [call.tab EXCEPT ![bt - 1] = At(a)] = call.tab
    BY <1>2, <1>4 DEF Call
  <2>2. c = [call EXCEPT !.off = [call.off EXCEPT ![bt - 1] = a],
                         !.tab = [call.tab EXCEPT ![bt - 1] = At(a)]]
    BY <1>2 DEF Call
  <2>3. c = [call EXCEPT !.off = call.off, !.tab = call.tab]
    BY <2>1, <2>2
  <2> HIDE DEF c
  <2> QED BY <1>2, <2>3 DEF Call
<1> HIDE DEF c
<1>6. /\ call' \in Call
      /\ call'.todo = call.todo /\ call'.last = call.last
      /\ call'.off = call.off /\ call'.tab = call.tab
      /\ IF bt = 2 THEN call'.stage = "point" ELSE call'.stage = "recheck" /\ call'.bt = bt - 1
  BY <1>2, <1>3, <1>5, DownFields
<1>7. Tree(lev)' /\ Apart' /\ AllFound' /\ \A x : At(x)' = At(x)
  BY FileKept, FoundInFile DEF IInv, RecheckTable
<1>8. Keeps(call, lev)'
  <2>1. (DOMAIN blocks)' = DOMAIN blocks
    BY DEF RecheckTable
  <2> QED BY <1>1, <1>6, <2>1 DEF Keeps, CallOK
<1>9. \A b \in Byte : Copied(call, b)'
  <2> SUFFICES ASSUME NEW b \in Byte PROVE Copied(call, b)'
    OBVIOUS
  <2>1. call.tab[b] = Content(call.off[b])
    BY <1>1 DEF Copied, CallOK
  <2>2. PICK x : x = call.off[b]
    OBVIOUS
  <2>3. Content(x)' = Content(x)
    BY <1>7 DEF Content
  <2> QED BY <1>6, <2>1, <2>2, <2>3 DEF Copied
<1>10. \A b : Dig(call, b)' = Dig(call, b)
  BY <1>6 DEF Dig
<1>11. /\ call'.todo # {} /\ \A b \in 2..4 : call'.last[b] = Dig(call, b)'
       /\ call'.tab[1][Dig(call, 1)'] = Nil
  BY <1>1, <1>6, <1>10 DEF CallOK
<1>12. call.off[bt - 1] # Nil /\ \A b \in (bt - 1)..4 : call.off[b] # Nil
  <2>1. \A b \in (bt - 1)..4 : b = bt - 1 \/ b \in bt..4
    BY <1>2
  <2> QED BY <1>1, <1>2, <1>3, <2>1 DEF CallOK
<1>13. CallOK(call, lev)'
  <2>1. CASE bt = 2
    <3>1. call'.stage = "point" /\ call'.off[1] # Nil
      BY <1>6, <1>12, <2>1
    <3> QED BY <1>8, <1>9, <1>11, <3>1 DEF CallOK
  <2>2. CASE bt # 2
    <3>1. call'.stage = "recheck" /\ \A b \in call'.bt..4 : call'.off[b] # Nil
      BY <1>6, <1>12, <2>2
    <3> QED BY <1>8, <1>9, <1>11, <3>1 DEF CallOK
  <2> QED BY <2>1, <2>2
<1> QED BY <1>7, <1>13 DEF IInv, RecheckTable

\* A pointer that is not set is put in a copy.
LEMMA CopyExtended ==
  ASSUME NEW c \in Call, NEW b \in Byte, NEW d \in Slots, NEW n \in Nat
  PROVE  LET t == [c.tab EXCEPT ![b] = [c.tab[b] EXCEPT ![d] = n]] IN
         /\ t \in [Byte -> [Slots -> Nat]]
         /\ t[b] = [c.tab[b] EXCEPT ![d] = n] /\ t[b][d] = n
         /\ \A l \in Byte : l # b => t[l] = c.tab[l]
<1>1. c.tab \in [Byte -> [Slots -> Nat]]
  BY DEF Call
<1> QED BY <1>1

LEMMA AppendTableInv == ASSUME IInv, AppendTable PROVE IInv'
<1> PICK lev : Tree(lev) /\ (~Idle => CallOK(call, lev))
  BY DEF IInv
<1>1. call.stage = "recheck" /\ ~Idle /\ CallOK(call, lev)
  BY DEF AppendTable, Idle, NoCall
<1> DEFINE bt == call.bt
           a  == call.off[bt]
<1>2. /\ call \in Call /\ bt \in 2..4 /\ bt \in Byte /\ bt - 1 \in Byte
      /\ (\A b : D(b) = Dig(call, b)) /\ D(bt) \in Slots /\ D(1) \in Slots
      /\ a # Nil /\ a \in Tables /\ lev[a] = bt
      /\ call.off[bt - 1] = call.tab[bt][D(bt)]
  BY <1>1, Rechecking
<1>3. call.tab[bt][D(bt)] = Nil /\ Len(blocks) + 1 <= MaxBlocks
  BY BlockFacts, BoundAssumption DEF AppendTable
<1>4. PICK n : n = Len(blocks) + 1
  OBVIOUS
<1>5. PICK l \in 1..3 : l = bt - 1
  BY <1>2
<1> DEFINE up == Raised(lev, n, l)
<1>6. /\ n \notin DOMAIN blocks /\ n \in Nat \ {0}
      /\ DOMAIN blocks' = DOMAIN blocks \cup {n} /\ Len(blocks') = n
      /\ \A x \in DOMAIN blocks : blocks'[x] = blocks[x] /\ At(x)' = At(x)
      /\ blocks'[n] = Table(EmptyTable)
      /\ At(n)' = EmptyTable
      /\ Tree(up)' /\ Apart' /\ Fresh(n)'
  <2>1. blocks' = Append(blocks, Table(EmptyTable)) /\ Apart
    BY DEF AppendTable, IInv
  <2>2. Table(EmptyTable) = IF l = 0 THEN Record(0) ELSE Table(EmptyTable)
    OBVIOUS
  <2> QED BY <1>4, <1>5, <2>1, <2>2, BlockAdded
<1>7. \A x \in DOMAIN blocks : up[x] = lev[x]
  BY <1>6 DEF Tree, Raised
<1>8. up[n] = l
  BY DEF Raised
<1> PICK o : o = [call.off EXCEPT ![bt - 1] = n]
  OBVIOUS
<1> PICK t : t = [call.tab EXCEPT ![bt] = [call.tab[bt] EXCEPT ![D(bt)] = n]]
  OBVIOUS
<1>9. call' = [call EXCEPT !.stage = "link", !.off = o, !.tab = t]
  BY <1>2, <1>4 DEF AppendTable, EndOfFile, Call
<1>10. /\ o \in [Byte -> Nat] /\ \A b \in Byte : o[b] = IF b = bt - 1 THEN n ELSE call.off[b]
       /\ t \in [Byte -> [Slots -> Nat]] /\ t[bt] = [call.tab[bt] EXCEPT ![D(bt)] = n]
       /\ t[bt][D(bt)] = n /\ \A b \in Byte : b # bt => t[b] = call.tab[b]
  <2>1. o \in [Byte -> Nat] /\ \A b \in Byte : o[b] = IF b = bt - 1 THEN n ELSE call.off[b]
    BY <1>2, <1>6 DEF Call
  <2> QED BY <1>2, <1>6, <2>1, CopyExtended
<1> HIDE DEF up
<1>11. /\ call' \in Call /\ call'.stage = "link" /\ call'.bt = bt /\ call'.todo = call.todo
       /\ call'.last = call.last /\ call'.off = o /\ call'.tab = t
  BY <1>2, <1>9, <1>10 DEF Call, Stages
<1>12. \A b : Dig(call, b)' = D(b)
  BY <1>2, <1>11 DEF Dig
<1>13. \A b \in 2..4 : call.last[b] = D(b) /\ D(b) # None
  <2>1. \A b \in 2..4 : b \in Byte
    BY DEF Byte
  <2>2. \A b \in Byte : Dig(call, b) \in Slots
    BY <1>1, <1>2, IndexIn DEF CallOK, Call
  <2>3. \A d \in Slots : d # None
    BY Powers DEF None
  <2>4. \A b \in 2..4 : call.last[b] = Dig(call, b)
    BY <1>1 DEF CallOK
  <2> QED BY <1>2, <2>1, <2>2, <2>3, <2>4
<1>14. Keeps(call, up)'
  <2>1. o[4] = 1
    BY <1>1, <1>2, <1>10 DEF CallOK, Keeps, Byte
  <2>2. \A b \in Byte : o[b] # Nil => o[b] \in (DOMAIN blocks)' /\ up[o[b]] = b
    <3> SUFFICES ASSUME NEW b \in Byte, o[b] # Nil PROVE o[b] \in (DOMAIN blocks)' /\ up[o[b]] = b
      OBVIOUS
    <3>1. CASE b = bt - 1
      BY <1>2, <1>5, <1>6, <1>8, <1>10, <3>1
    <3>2. CASE b # bt - 1
      <4>1. o[b] = call.off[b]
        BY <1>10, <3>2
      <4>2. o[b] \in DOMAIN blocks /\ lev[o[b]] = b
        BY <1>1, <4>1 DEF CallOK, Keeps
      <4> QED BY <1>6, <1>7, <4>2
    <3> QED BY <3>1, <3>2
  <2>3. \A b \in 2..4 : o[b - 1] = t[b][call.last[b]]
    <3> SUFFICES ASSUME NEW b \in 2..4 PROVE o[b - 1] = t[b][call.last[b]]
      OBVIOUS
    <3>1. CASE b = bt
      BY <1>2, <1>10, <1>13, <3>1
    <3>2. CASE b # bt
      <4>1. b \in Byte /\ b - 1 \in Byte /\ b - 1 # bt - 1
        BY <1>2, <3>2 DEF Byte
      <4>2. call.off[b - 1] = call.tab[b][call.last[b]]
        BY <1>1, <1>13 DEF CallOK, Keeps
      <4> QED BY <1>10, <3>2, <4>1, <4>2
    <3> QED BY <3>1, <3>2
  <2> QED BY <1>11, <2>1, <2>2, <2>3 DEF Keeps
<1>15. \A b \in Byte : b # bt => Copied(call, b)'
  <2> SUFFICES ASSUME NEW b \in Byte, b # bt PROVE t[b] = Content(o[b])'
    BY <1>11 DEF Copied
  <2>1. t[b] = Content(call.off[b])
    BY <1>1, <1>10 DEF CallOK, Copied
  <2>2. CASE b = bt - 1
    BY <1>2, <1>3, <1>6, <1>10, <2>1, <2>2 DEF Content, Nil
  <2>3. CASE b # bt - 1
    <3>1. PICK x : x = call.off[b]
      OBVIOUS
    <3>2. x # Nil => x \in DOMAIN blocks
      BY <1>1, <3>1 DEF CallOK, Keeps
    <3>3. Content(x)' = Content(x)
      BY <1>6, <3>2 DEF Content
    <3>4. o[b] = x
      BY <1>10, <2>3, <3>1
    <3> QED BY <2>1, <3>1, <3>3, <3>4
  <2> QED BY <2>2, <2>3
<1>16. Pending(call, call.bt, call.off[call.bt - 1])'
  <2>1. PICK x \in DOMAIN blocks : x = a
    BY <1>2 DEF Tables
  <2>2. call.tab[bt] = At(x)
    BY <1>1, <1>2, <2>1 DEF CallOK, Copied, Content
  <2>3. At(x)' = At(x) /\ o[bt] = x
    BY <1>2, <1>6, <1>10, <2>1
  <2>4. At(x)'[D(bt)] = Nil /\ t[bt] = [At(x)' EXCEPT ![D(bt)] = n]
    BY <1>3, <1>10, <2>2, <2>3
  <2>5. o[bt - 1] = n
    BY <1>2, <1>10
  <2>6. call'.off[call'.bt] = x /\ call'.off[call'.bt - 1] = n /\ call'.tab[call'.bt] = t[bt]
    BY <1>11, <2>3, <2>5
  <2>7. call'.off[call'.bt] # Nil
    BY ONLY <2>1, <2>6, <1>2
  <2>8. /\ blocks'[call'.off[call'.bt]].at[Dig(call, call.bt)'] = Nil
        /\ call'.tab[call'.bt] = [blocks'[call'.off[call'.bt]].at EXCEPT ![Dig(call, call.bt)'] = n]
    <3>1. Dig(call, call.bt)' = D(bt)
      BY ONLY <1>11, <1>12
    <3>2. At(x)' = blocks'[x].at
      BY DEF At
    <3> QED BY ONLY <3>1, <3>2, <2>4, <2>6
  <2>9. \A b \in Byte : b # call'.bt => Copied(call, b)'
    BY ONLY <1>11, <1>15
  <2>10. Fresh(call.off[call.bt - 1])'
    <3>1. (call.off[call.bt - 1])' = n
      BY <2>6
    <3> QED BY ONLY <3>1, <1>6 DEF Fresh
  <2> QED BY ONLY <2>6, <2>7, <2>8, <2>9, <2>10 DEF Pending, At
<1>17. CallOK(call, up)'
  <2>1. call'.todo # {} /\ \A b \in 2..4 : call'.last[b] = Dig(call, b)'
    BY <1>1, <1>11, <1>12, <1>13 DEF CallOK
  <2>2. \A b \in bt..4 : o[b] # Nil
    <3>1. \A b \in bt..4 : b \in Byte /\ b # bt - 1
      BY <1>2 DEF Byte
    <3> QED BY <1>1, <1>10, <3>1 DEF CallOK
  <2>3. call'.tab[1][Dig(call, 1)'] = Nil
    <3>1. 1 \in Byte /\ 1 # bt
      BY <1>2 DEF Byte
    <3> QED BY <1>1, <1>2, <1>10, <1>11, <1>12, <3>1 DEF CallOK
  <2>4. blocks'[call'.off[call'.bt - 1]] = Table(EmptyTable)
    BY <1>2, <1>6, <1>10, <1>11
  <2>5. (Table(EmptyTable))' = Table(EmptyTable)
    BY DEF Table, EmptyTable
  <2> QED BY <1>11, <1>14, <1>16, <2>1, <2>2, <2>3, <2>4, <2>5 DEF CallOK
<1>18. AllFound'
  <2>1. \A x \in Tables : At(x)' = At(x)
    BY <1>6 DEF Tables
  <2>2. \A i \in InRange : Node(i, 0)' = Node(i, 0)
    BY <2>1, PathsKept
  <2> QED BY <1>6, <2>2, FoundKept DEF IInv, AppendTable
<1> QED BY <1>3, <1>4, <1>6, <1>17, <1>18 DEF IInv, AppendTable

\* What of the copies a write leaves true.
LEMMA CopyKept ==
  ASSUME NEW lev, NEW c, Keeps(c, lev), NEW b \in Byte, Copied(c, b),
         \A x \in DOMAIN blocks : x = c.off[b] => At(x)' = At(x)
  PROVE  c.tab[b] = IF c.off[b] = Nil THEN EmptyTable ELSE blocks'[c.off[b]].at
<1>1. CASE c.off[b] = Nil
  BY <1>1 DEF Copied, Content
<1>2. CASE c.off[b] # Nil
  <2>1. PICK x \in DOMAIN blocks : x = c.off[b]
    BY <1>2 DEF Keeps
  <2>2. At(x)' = At(x)
    BY <2>1
  <2> QED BY <1>2, <2>1, <2>2 DEF Copied, Content, At
<1> QED BY <1>1, <1>2

LEMMA LinkTableInv == ASSUME IInv, LinkTable PROVE IInv'
<1> PICK lev : Tree(lev) /\ (~Idle => CallOK(call, lev))
  BY DEF IInv
<1>1. call.stage = "link" /\ ~Idle /\ CallOK(call, lev)
  BY DEF LinkTable, Idle, NoCall
<1> PICK c : c = call
  OBVIOUS
<1> PICK bt : bt = c.bt
  OBVIOUS
<1> PICK a : a = c.off[bt]
  OBVIOUS
<1> PICK n : n = c.off[bt - 1]
  OBVIOUS
<1> PICK d : d = Dig(c, bt)
  OBVIOUS
<1>2. /\ c \in Call /\ bt \in 2..4 /\ bt \in Byte /\ bt - 1 \in Byte
      /\ d \in Slots
      /\ a # Nil /\ a \in Tables /\ lev[a] = bt
      /\ n = c.tab[bt][d]
  BY <1>1, Rechecking
<1>3. /\ At(a)[d] = Nil /\ c.tab[bt] = [At(a) EXCEPT ![d] = n]
      /\ (\A l \in Byte : l # bt => Copied(c, l))
      /\ Fresh(n) /\ blocks[n] = Table(EmptyTable)
  BY <1>1 DEF CallOK, Pending
<1>4. n \in DOMAIN blocks /\ n # Nil /\ lev[n] = lev[a] - 1 /\ At(n) = EmptyTable
  <2>1. n \in DOMAIN blocks /\ n # Nil
    BY <1>3, BlockFacts DEF Fresh
  <2>2. lev[n] = bt - 1
    BY <1>1, <1>2, <2>1 DEF CallOK, Keeps
  <2>3. At(n) = EmptyTable
    BY <1>3 DEF At, Table
  <2> QED BY <1>2, <2>1, <2>2, <2>3
<1> PICK t : t = [At(a) EXCEPT ![d] = n]
  OBVIOUS
<1>5. blocks' = [blocks EXCEPT ![a] = Table(t)] /\ call' = Down(c)
  BY <1>3 DEF LinkTable, WriteBack
<1>6. /\ Tables' = Tables /\ Len(blocks') = Len(blocks) /\ DOMAIN blocks' = DOMAIN blocks
      /\ \A b \in DOMAIN blocks : b # a => blocks'[b] = blocks[b] /\ At(b)' = At(b)
      /\ At(a)' = [At(a) EXCEPT ![d] = n]
      /\ Tree(lev)' /\ Apart'
  <2>1. Apart
    BY DEF IInv
  <2>2. lev[n] = lev[a] - 1 /\ At(a)[d] = Nil
    BY <1>3, <1>4
  <2>3. /\ Tree(lev) /\ Apart /\ a \in Tables /\ d \in Slots /\ At(a)[d] = Nil
        /\ Fresh(n) /\ lev[n] = lev[a] - 1
        /\ t = [At(a) EXCEPT ![d] = n] /\ blocks' = [blocks EXCEPT ![a] = Table(t)]
    BY <1>2, <1>3, <1>5, <2>1, <2>2
  <2> QED BY ONLY <2>3, PointerSet
<1>7. AllFound'
  <2>1. \A b \in Tables : b # a => At(b)' = At(b)
    BY <1>6, BlockFacts
  <2>2. \A i \in InRange : Node(i, 0)' = Node(i, 0)
    <3> SUFFICES ASSUME NEW i \in InRange PROVE Node(i, 0)' = Node(i, 0)
      OBVIOUS
    <3>1. \A b \in 0..4 :
            Node(i, b)' = IF b = lev[a] - 1 /\ Node(i, lev[a]) = a /\ Digit(i, lev[a]) = d
                          THEN n ELSE Node(i, b)
      <4>1. Linking(lev, a, d, n)
        BY ONLY <1>2, <1>3, <1>4, <1>6, <2>1 DEF Linking
      <4>2. Extended(lev, a, d, n, i)
        BY ONLY <4>1, Tree(lev), i \in InRange, PathsExtended
      <4> QED BY ONLY <4>2 DEF Extended
    <3>2. 0 # lev[a] - 1
      BY <1>2
    <3> QED BY <3>1, <3>2
  <2>3. \A x \in DOMAIN blocks : lev[x] = 0 => blocks'[x] = blocks[x]
    BY <1>2, <1>6
  <2> QED BY <2>2, <2>3, FoundKept DEF IInv, LinkTable
<1>8. /\ call' \in Call
      /\ call'.todo = c.todo /\ call'.last = c.last /\ call'.off = c.off /\ call'.tab = c.tab
      /\ IF bt = 2 THEN call'.stage = "point" ELSE call'.stage = "recheck" /\ call'.bt = bt - 1
  BY <1>2, <1>5, DownFields
<1>9. Keeps(call, lev)'
  BY <1>1, <1>6, <1>8 DEF CallOK, Keeps
<1>10. \A b \in Byte : Copied(call, b)'
  <2> SUFFICES ASSUME NEW b \in Byte
               PROVE  c.tab[b] = IF c.off[b] = Nil THEN EmptyTable ELSE blocks'[c.off[b]].at
    BY <1>8 DEF Copied, Content, At, EmptyTable
  <2>1. CASE b = bt
    <3>1. blocks'[a].at = c.tab[bt]
      BY <1>3, <1>6 DEF At
    <3> QED BY <1>2, <2>1, <3>1
  <2>2. CASE b # bt
    <3>1. \A x \in DOMAIN blocks : x = c.off[b] => At(x)' = At(x)
      <4> SUFFICES ASSUME NEW x \in DOMAIN blocks, x = c.off[b] PROVE x # a
        BY <1>6
      <4>1. lev[x] = b
        BY <1>1, BlockFacts DEF CallOK, Keeps
      <4> QED BY <1>2, <2>2, <4>1
    <3>2. Keeps(c, lev) /\ Copied(c, b)
      BY <1>1, <1>3, <2>2 DEF CallOK
    <3> QED BY <3>1, <3>2, CopyKept
  <2> QED BY <2>1, <2>2
<1>11. \A b : Dig(call, b)' = Dig(c, b)
  BY <1>8 DEF Dig
<1>12. /\ call'.todo # {} /\ \A b \in 2..4 : call'.last[b] = Dig(call, b)'
       /\ call'.tab[1][Dig(call, 1)'] = Nil
  BY <1>1, <1>8, <1>11 DEF CallOK
<1>13. \A b \in (bt - 1)..4 : c.off[b] # Nil
  <2>1. \A b \in (bt - 1)..4 : b = bt - 1 \/ b \in bt..4
    BY <1>2
  <2> QED BY <1>1, <1>4, <2>1 DEF CallOK
<1>14. CallOK(call, lev)'
  <2>1. CASE bt = 2
    <3>1. call'.stage = "point" /\ call'.off[1] # Nil
      BY <1>8, <1>13, <2>1
    <3> QED BY <1>9, <1>10, <1>12, <3>1 DEF CallOK
  <2>2. CASE bt # 2
    <3>1. call'.stage = "recheck" /\ \A b \in call'.bt..4 : call'.off[b] # Nil
      BY <1>8, <1>13, <2>2
    <3> QED BY <1>9, <1>10, <1>12, <3>1 DEF CallOK
  <2> QED BY <2>1, <2>2
<1> QED BY <1>6, <1>7, <1>14 DEF IInv, LinkTable

LEMMA AppendRecordInv == ASSUME IInv, AppendRecord PROVE IInv'
<1> PICK lev : Tree(lev) /\ (~Idle => CallOK(call, lev))
  BY DEF IInv
<1>1. call.stage = "point" /\ ~Idle /\ CallOK(call, lev)
  BY DEF AppendRecord, Idle, NoCall
<1> PICK c : c = call
  OBVIOUS
<1> PICK a : a = c.off[1]
  OBVIOUS
<1> PICK d : d = Dig(c, 1)
  OBVIOUS
<1> PICK n : n = Len(blocks) + 1
  OBVIOUS
<1>2. c \in Call /\ 1 \in Byte /\ d \in Slots /\ D(1) = d
  <2>1. c \in Call /\ c.todo # {} /\ c.todo \in SUBSET Indices /\ 1 \in Byte
    <3>1. c \in Call /\ c.todo # {}
      BY <1>1 DEF CallOK, Keeps
    <3>2. c.todo \in SUBSET Indices
      BY <3>1 DEF Call
    <3> QED BY <3>1, <3>2 DEF Byte
  <2>2. D(1) = d
    BY DEF D, Dig, Index
  <2> QED BY <2>1, <2>2, IndexIn
<1>3. /\ a # Nil /\ a \in DOMAIN blocks /\ c.tab[1] = At(a) /\ At(a)[d] = Nil
      /\ Len(blocks) + 1 <= MaxBlocks
  BY <1>1, <1>2, BlockFacts, BoundAssumption DEF AppendRecord, CallOK, Keeps, Copied, Content
<1> DEFINE up == Raised(lev, n, 0)
<1>4. /\ n \notin DOMAIN blocks /\ n \in Nat \ {0}
      /\ DOMAIN blocks' = DOMAIN blocks \cup {n} /\ Len(blocks') = n
      /\ \A x \in DOMAIN blocks : blocks'[x] = blocks[x] /\ At(x)' = At(x)
      /\ blocks'[n] = Record(0)
      /\ Tree(up)' /\ Apart' /\ Fresh(n)'
  <2>1. blocks' = Append(blocks, Record(0)) /\ Apart
    BY DEF AppendRecord, IInv
  <2>2. Record(0) = IF 0 = 0 THEN Record(0) ELSE Table(EmptyTable)
    OBVIOUS
  <2> QED BY <2>1, <2>2, BlockAdded
<1>5. \A x \in DOMAIN blocks : up[x] = lev[x]
  BY <1>4 DEF Tree, Raised
<1> HIDE DEF up
<1> PICK t : t = [c.tab EXCEPT ![1] = [c.tab[1] EXCEPT ![d] = n]]
  OBVIOUS
<1>6. call' = [c EXCEPT !.stage = "linkrecord", !.dest = n, !.tab = t]
  BY <1>2 DEF AppendRecord, EndOfFile, Call
<1>7. /\ t \in [Byte -> [Slots -> Nat]] /\ t[1] = [At(a) EXCEPT ![d] = n]
      /\ \A b \in Byte : b # 1 => t[b] = c.tab[b]
  BY <1>2, <1>3, <1>4, CopyExtended
<1>8. /\ call' \in Call /\ call'.stage = "linkrecord" /\ call'.dest = n /\ call'.todo = c.todo
      /\ call'.last = c.last /\ call'.off = c.off /\ call'.tab = t
  BY <1>2, <1>4, <1>6, <1>7 DEF Call, Stages
<1>9. \A b : Dig(call, b)' = Dig(c, b)
  BY <1>8 DEF Dig
<1>10. Keeps(call, up)'
  <2>1. \A b \in Byte : c.off[b] # Nil => c.off[b] \in (DOMAIN blocks)' /\ up[c.off[b]] = b
    BY <1>1, <1>4, <1>5 DEF CallOK, Keeps
  <2>2. \A b \in 2..4 : t[b] = c.tab[b]
    BY <1>7 DEF Byte
  <2> QED BY <1>1, <1>8, <2>1, <2>2 DEF CallOK, Keeps
<1>11. \A b \in Byte : b # 1 => Copied(call, b)'
  <2> SUFFICES ASSUME NEW b \in Byte, b # 1
               PROVE  c.tab[b] = IF c.off[b] = Nil THEN EmptyTable ELSE blocks'[c.off[b]].at
    BY <1>7, <1>8 DEF Copied, Content, At, EmptyTable
  <2>1. Keeps(c, lev) /\ Copied(c, b)
    BY <1>1 DEF CallOK
  <2> QED BY <1>4, <2>1, CopyKept
<1>12. Pending(call, 1, call.dest)'
  <2>1. At(a)' = At(a) /\ call'.off[1] = a /\ call'.dest = n /\ call'.tab[1] = t[1]
    BY <1>3, <1>4, <1>8
  <2> QED BY <1>3, <1>4, <1>7, <1>9, <1>11, <2>1 DEF Pending, At
<1>13. CallOK(call, up)'
  <2>1. call'.todo # {} /\ (\A b \in 2..4 : call'.last[b] = Dig(call, b)') /\ call'.off[1] # Nil
    BY <1>1, <1>3, <1>8, <1>9 DEF CallOK
  <2>2. (Record(0))' = Record(0) /\ blocks'[call'.dest] = Record(0)
    BY <1>4, <1>8 DEF Record
  <2> QED BY <1>8, <1>10, <1>12, <2>1, <2>2 DEF CallOK
<1>14. AllFound'
  <2>1. \A x \in Tables : At(x)' = At(x)
    BY <1>4 DEF Tables
  <2>2. \A i \in InRange : Node(i, 0)' = Node(i, 0)
    BY <2>1, PathsKept
  <2> QED BY <1>4, <2>2, FoundKept DEF IInv, AppendRecord
<1> QED BY <1>3, <1>4, <1>13, <1>14 DEF IInv, AppendRecord

LEMMA LinkRecordInv == ASSUME IInv, LinkRecord PROVE IInv'
<1> PICK lev : Tree(lev) /\ (~Idle => CallOK(call, lev))
  BY DEF IInv
<1>1. call.stage = "linkrecord" /\ ~Idle /\ CallOK(call, lev)
  BY DEF LinkRecord, Idle, NoCall
<1> PICK c : c = call
  OBVIOUS
<1> PICK a : a = c.off[1]
  OBVIOUS
<1> PICK n : n = c.dest
  OBVIOUS
<1> PICK d : d = Dig(c, 1)
  OBVIOUS
<1> PICK j : j = Min(c.todo)
  OBVIOUS
<1> PICK t : t = [At(a) EXCEPT ![d] = n]
  OBVIOUS
<1>2. /\ c \in Call /\ c.todo # {} /\ 1 \in Byte
      /\ j \in Indices /\ j \in InRange /\ d \in Slots /\ d = Digit(j, 1) /\ j = Index
  <2>1. c \in Call /\ c.todo # {}
    BY <1>1 DEF CallOK, Keeps
  <2>2. c.todo \in SUBSET Indices
    BY <2>1 DEF Call
  <2>3. 1 \in Byte /\ d = Digit(j, 1) /\ j = Index
    BY DEF Byte, Dig, Index
  <2> QED BY <2>1, <2>2, <2>3, IndexIn
<1>3. /\ a # Nil /\ At(a)[d] = Nil /\ c.tab[1] = t
      /\ (\A l \in Byte : l # 1 => Copied(c, l))
      /\ Fresh(n) /\ blocks[n] = Record(0)
  BY <1>1 DEF CallOK, Pending
<1>4. /\ a \in DOMAIN blocks /\ lev[a] = 1 /\ a \in Tables
      /\ n \in DOMAIN blocks /\ n # Nil /\ lev[n] = 0
  <2>1. n \in DOMAIN blocks /\ n # Nil
    BY <1>3, BlockFacts DEF Fresh
  <2>2. a \in DOMAIN blocks /\ lev[a] = 1
    BY <1>1, <1>2, <1>3 DEF CallOK, Keeps
  <2>3. n \notin Tables
    BY <1>3 DEF Tables, Record
  <2> QED BY <2>1, <2>2, <2>3 DEF Tree
<1>5. /\ blocks' = [blocks EXCEPT ![a] = Table(t)]
      /\ call' = [c EXCEPT !.stage = "write", !.update = TRUE]
  BY <1>3 DEF LinkRecord, WriteBack, VarDimUpdate
<1>6. /\ Tables' = Tables /\ Len(blocks') = Len(blocks) /\ DOMAIN blocks' = DOMAIN blocks
      /\ \A b \in DOMAIN blocks : b # a => blocks'[b] = blocks[b] /\ At(b)' = At(b)
      /\ At(a)' = [At(a) EXCEPT ![d] = n]
      /\ Tree(lev)' /\ Apart'
  <2>1. Apart
    BY DEF IInv
  <2>2. /\ Tree(lev) /\ Apart /\ a \in Tables /\ d \in Slots /\ At(a)[d] = Nil
        /\ Fresh(n) /\ lev[n] = lev[a] - 1
        /\ t = [At(a) EXCEPT ![d] = n] /\ blocks' = [blocks EXCEPT ![a] = Table(t)]
    BY <1>2, <1>3, <1>4, <1>5, <2>1
  <2> QED BY ONLY <2>2, PointerSet
<1>7. \A i \in InRange : Node(i, 0)' = IF i = j THEN n ELSE Node(i, 0)
  <2> SUFFICES ASSUME NEW i \in InRange PROVE Node(i, 0)' = IF i = j THEN n ELSE Node(i, 0)
    OBVIOUS
  <2>1. \A b \in Tables : b # a => At(b)' = At(b)
    BY <1>6, BlockFacts
  <2>2. Node(i, 0)' = IF Node(i, 1) = a /\ Digit(i, 1) = d THEN n ELSE Node(i, 0)
    <3>1. \A b \in 0..4 :
            Node(i, b)' = IF b = lev[a] - 1 /\ Node(i, lev[a]) = a /\ Digit(i, lev[a]) = d
                          THEN n ELSE Node(i, b)
      <4>1. lev[n] = lev[a] - 1 /\ (lev[n] # 0 => At(n) = EmptyTable)
        BY <1>4
      <4>2. Linking(lev, a, d, n)
        BY ONLY <1>2, <1>3, <1>4, <1>6, <2>1, <4>1 DEF Linking
      <4>3. Extended(lev, a, d, n, i)
        BY ONLY <4>2, Tree(lev), i \in InRange, PathsExtended
      <4> QED BY ONLY <4>3 DEF Extended
    <3>2. 0 \in 0..4 /\ lev[a] = 1 /\ 0 = lev[a] - 1
      BY <1>4
    <3> QED BY <3>1, <3>2
  <2>3. Node(j, 1) = a
    <3>1. \A b \in Byte : b > 1 => Copied(c, b)
      BY <1>3
    <3>2. /\ Keeps(c, lev) /\ c.todo # {} /\ \A b \in 2..4 : c.last[b] = Dig(c, b)
      BY <1>1 DEF CallOK
    <3>3. \A b \in Byte : b >= 1 => Node(Min(c.todo), b) = c.off[b]
      BY <3>1, <3>2, PathOfCall
    <3> QED BY <1>2, <3>3
  <2>4. Node(i, 1) = a /\ Digit(i, 1) = d => i = j
    <3> SUFFICES ASSUME Node(i, 1) = a, Digit(i, 1) = d PROVE i = j
      OBVIOUS
    <3>1. Apart
      BY DEF IInv
    <3>2. \A b \in Byte : b > 1 => Digit(i, b) = Digit(j, b)
      BY <1>2, <1>3, <2>3, <3>1, PathsApart
    <3>3. \A b \in Byte : b > 1 \/ b = 1
      BY DEF Byte
    <3>4. \A b \in Byte : Digit(i, b) = Digit(j, b)
      BY <1>2, <3>2, <3>3
    <3> QED BY <1>2, <3>4, SameDigits
  <2> QED BY <1>2, <2>2, <2>3, <2>4
<1>8. AllFound'
  <2>1. /\ written' = [i \in DOMAIN written \cup {j} |-> IF i = j THEN 0 ELSE written[i]]
        /\ AllFound
    BY <1>2 DEF LinkRecord, IInv
  <2>2. written' \in [DOMAIN written' -> Int] /\ DOMAIN written' \subseteq Indices
    BY <1>2, <2>1 DEF AllFound
  <2>3. ASSUME NEW i \in InRange
        PROVE  IF i \in DOMAIN written'
               THEN RecordOf(i)' # Nil /\ blocks'[RecordOf(i)'] = Record(written'[i])
               ELSE RecordOf(i)' = Nil
    <3>1. RecordOf(i)' = IF i = j THEN n ELSE RecordOf(i)
      BY <1>7, NodeStep, NodeStepNext
    <3>2. CASE i = j
      <4>1. blocks'[n] = Record(0)
        BY <1>3, <1>4, <1>6
      <4> QED BY <1>4, <2>1, <3>1, <3>2, <4>1
    <3>3. CASE i # j
      <4>1. RecordOf(i) # Nil => RecordOf(i) \in DOMAIN blocks /\ RecordOf(i) # a
        BY <1>4, NodeLevels, NodeStep
      <4>2. RecordOf(i) # Nil => blocks'[RecordOf(i)] = blocks[RecordOf(i)]
        BY <1>6, <4>1
      <4>3. IF i \in DOMAIN written
            THEN RecordOf(i) # Nil /\ blocks[RecordOf(i)] = Record(written[i])
            ELSE RecordOf(i) = Nil
        BY <2>1 DEF AllFound
      <4>4. (i \in DOMAIN written' <=> i \in DOMAIN written)
            /\ (i \in DOMAIN written => written'[i] = written[i])
        BY <2>1, <3>3
      <4> QED BY <3>1, <3>3, <4>2, <4>3, <4>4
    <3> QED BY <3>2, <3>3
  <2>4. \A v : (Record(v))' = Record(v')
    BY DEF Record
  <2> QED BY <2>2, <2>3 DEF AllFound, Record
<1>9. /\ call' \in Call /\ call'.stage = "write" /\ call'.todo = c.todo /\ call'.dest = n
      /\ call'.last = c.last /\ call'.off = c.off /\ call'.tab = c.tab
  BY <1>2, <1>5 DEF Call, Stages
<1>10. Keeps(call, lev)'
  BY <1>1, <1>6, <1>9 DEF CallOK, Keeps
<1>11. \A b \in Byte : Copied(call, b)'
  <2> SUFFICES ASSUME NEW b \in Byte
               PROVE  c.tab[b] = IF c.off[b] = Nil THEN EmptyTable ELSE blocks'[c.off[b]].at
    BY <1>9 DEF Copied, Content, At, EmptyTable
  <2>1. CASE b = 1
    <3>1. blocks'[a].at = c.tab[1]
      BY <1>3, <1>6 DEF At
    <3> QED BY <1>3, <2>1, <3>1
  <2>2. CASE b # 1
    <3>1. \A x \in DOMAIN blocks : x = c.off[b] => At(x)' = At(x)
      <4> SUFFICES ASSUME NEW x \in DOMAIN blocks, x = c.off[b] PROVE x # a
        BY <1>6
      <4>1. lev[x] = b
        BY <1>1, BlockFacts DEF CallOK, Keeps
      <4> QED BY <1>4, <2>2, <4>1
    <3>2. Keeps(c, lev) /\ Copied(c, b)
      BY <1>1, <1>3, <2>2 DEF CallOK
    <3> QED BY <3>1, <3>2, CopyKept
  <2> QED BY <2>1, <2>2
<1>12. CallOK(call, lev)'
  <2>1. \A b : Dig(call, b)' = Dig(c, b)
    BY <1>9 DEF Dig
  <2>2. call'.todo # {} /\ \A b \in 2..4 : call'.last[b] = Dig(call, b)'
    BY <1>1, <1>9, <2>1 DEF CallOK
  <2>3. c.tab[1][d] = n
    BY <1>2, <1>3, <1>4, BlockFacts
  <2>4. call'.dest = call'.tab[1][Dig(call, 1)'] /\ call'.dest # Nil
    BY <1>4, <1>9, <2>1, <2>3
  <2> QED BY <1>9, <1>10, <1>11, <2>2, <2>4 DEF CallOK
<1> QED BY <1>6, <1>8, <1>12 DEF IInv, LinkRecord

LEMMA WriteDataInv == ASSUME IInv, WriteData PROVE IInv'
<1> PICK lev : Tree(lev) /\ (~Idle => CallOK(call, lev))
  BY DEF IInv
<1>1. call.stage = "write" /\ ~Idle /\ CallOK(call, lev)
  BY DEF WriteData, Idle, NoCall
<1> PICK c : c = call
  OBVIOUS
<1> PICK n : n = c.dest
  OBVIOUS
<1> PICK j : j = Min(c.todo)
  OBVIOUS
<1> PICK v : v = Data[c.data][j]
  OBVIOUS
<1>2. c \in Call /\ c.todo # {} /\ j \in Indices /\ j \in InRange /\ j = Index /\ v \in Int
  <2>1. c \in Call /\ c.todo # {}
    BY <1>1 DEF CallOK, Keeps
  <2>2. c.todo \in SUBSET Indices /\ c.data \in DOMAIN Data
    BY <2>1 DEF Call
  <2>3. j = Index
    BY DEF Index
  <2>4. j \in Indices /\ j \in InRange
    BY <2>1, <2>2, IndexIn
  <2> QED BY <2>1, <2>2, <2>3, <2>4, DataAssumption
<1>3. RecordOf(j) = n /\ n # Nil /\ n \in DOMAIN blocks /\ lev[n] = 0
  <2>1. /\ Keeps(c, lev) /\ (\A b \in 2..4 : c.last[b] = Dig(c, b))
        /\ (\A b \in Byte : b > 0 => Copied(c, b)) /\ n = c.tab[1][Dig(c, 1)] /\ n # Nil
    BY <1>1 DEF CallOK
  <2>2. RecordOf(Min(c.todo)) = c.tab[1][Dig(c, 1)]
    <3>1. PICK m \in 0..4 : m = 0
      OBVIOUS
    <3>2. \A b \in Byte : b > m => Copied(c, b)
      BY <2>1, <3>1
    <3> QED BY <1>2, <2>1, <3>1, <3>2, PathOfCall
  <2>3. Node(j, 0) = n
    BY <2>1, <2>2, NodeStep
  <2> QED BY <1>2, <2>1, <2>2, <2>3, NodeLevels
<1>4. /\ blocks' = [blocks EXCEPT ![n] = Record(v)]
      /\ written' = [written EXCEPT ![j] = v]
      /\ call' = [c EXCEPT !.stage = "locate", !.todo = c.todo \ {j}]
  BY <1>2 DEF WriteData
<1>5. /\ Tables' = Tables /\ Len(blocks') = Len(blocks) /\ DOMAIN blocks' = DOMAIN blocks
      /\ \A b \in DOMAIN blocks : b # n => blocks'[b] = blocks[b]
      /\ \A b \in Tables : At(b)' = At(b)
      /\ Tree(lev)' /\ Apart'
  <2>1. Tree(lev) /\ Apart /\ n \in DOMAIN blocks /\ lev[n] = 0 /\ v \in Int
        /\ blocks' = [blocks EXCEPT ![n] = Record(v)]
    BY <1>2, <1>3, <1>4 DEF IInv
  <2> QED BY ONLY <2>1, RecordWritten
<1>6. AllFound'
  <2>1. AllFound /\ Apart
    BY DEF IInv
  <2>2. j \in DOMAIN written
    BY <1>2, <1>3, <2>1 DEF AllFound
  <2>3. /\ written' \in [DOMAIN written' -> Int] /\ DOMAIN written' = DOMAIN written
        /\ \A i \in DOMAIN written : written'[i] = IF i = j THEN v ELSE written[i]
    BY <1>2, <1>4, <2>1, <2>2 DEF AllFound
  <2>4. ASSUME NEW i \in InRange
        PROVE  IF i \in DOMAIN written'
               THEN RecordOf(i)' # Nil /\ blocks'[RecordOf(i)'] = Record(written'[i])
               ELSE RecordOf(i)' = Nil
    <3>1. RecordOf(i)' = RecordOf(i)
      <4>1. \A b \in 0..4 : Node(i, b)' = Node(i, b)
        BY <1>5, PathsKept
      <4> QED BY <4>1, NodeStep, NodeStepNext
    <3>2. CASE i = j
      <4>1. blocks'[n] = Record(v)
        BY <1>3, <1>4, BlockFacts
      <4> QED BY <1>3, <2>2, <2>3, <3>1, <3>2, <4>1
    <3>3. CASE i # j
      <4>1. RecordOf(i) # Nil => RecordOf(i) \in DOMAIN blocks /\ RecordOf(i) # n
        BY <1>2, <1>3, <2>1, <3>3, NodeLevels, NodeStep, SameRecord
      <4>2. RecordOf(i) # Nil => blocks'[RecordOf(i)] = blocks[RecordOf(i)]
        BY <1>5, <4>1
      <4>3. IF i \in DOMAIN written
            THEN RecordOf(i) # Nil /\ blocks[RecordOf(i)] = Record(written[i])
            ELSE RecordOf(i) = Nil
        BY <2>1 DEF AllFound
      <4> QED BY <2>3, <3>1, <3>3, <4>2, <4>3
    <3> QED BY <3>2, <3>3
  <2>5. DOMAIN written' \subseteq Indices
    BY <2>1, <2>3 DEF AllFound
  <2> QED BY <2>3, <2>4, <2>5 DEF AllFound, Record
<1>7. /\ call' \in Call /\ call'.stage = "locate"
      /\ call'.last = c.last /\ call'.off = c.off /\ call'.tab = c.tab
  BY <1>2, <1>4 DEF Call, Stages
<1>8. Keeps(call, lev)'
  BY <1>1, <1>5, <1>7 DEF CallOK, Keeps
<1>9. \A b \in Byte : Copied(call, b)'
  <2> SUFFICES ASSUME NEW b \in Byte
               PROVE  c.tab[b] = IF c.off[b] = Nil THEN EmptyTable ELSE blocks'[c.off[b]].at
    BY <1>7 DEF Copied, Content, At, EmptyTable
  <2>1. Keeps(c, lev) /\ Copied(c, b)
    BY <1>1 DEF CallOK
  <2>2. \A x \in DOMAIN blocks : x = c.off[b] => At(x)' = At(x)
    <3> SUFFICES ASSUME NEW x \in DOMAIN blocks, x = c.off[b] PROVE x \in Tables
      BY <1>5
    <3>1. lev[x] = b
      BY <2>1, BlockFacts DEF Keeps
    <3> QED BY <3>1, BlockFacts DEF Tree, Byte
  <2> QED BY <2>1, <2>2, CopyKept
<1>10. CallOK(call, lev)'
  BY <1>7, <1>8, <1>9 DEF CallOK
<1> QED BY <1>5, <1>6, <1>10 DEF IInv, WriteData

LEMMA EndInv == ASSUME IInv, NEW g \in Handles \cup {Nowhere}, End(g) PROVE IInv'
<1> PICK lev : Tree(lev) /\ (~Idle => CallOK(call, lev))
  BY DEF IInv
<1>1. call.stage = "locate" /\ ~Idle /\ CallOK(call, lev)
  BY DEF End, AllWritten, Idle, NoCall
<1>2. Tree(lev)' /\ Apart' /\ AllFound'
  BY FileKept, FoundInFile DEF IInv, End
<1>3. NewDim \in Nat \cup {Closed}
  <2>1. call \in Call
    BY <1>1 DEF CallOK, Keeps
  <2>2. call.from \in Handles /\ call.all \in SUBSET Indices /\ call.all # {}
    BY <2>1 DEF Call
  <2>3. dim[call.from] \in Nat \cup {Closed}
    BY <2>2 DEF IInv
  <2>4. Max(call.all) \in Nat /\ Closed \in Int
    BY <2>2, GreatestIndex DEF Closed
  <2>5. Max({Max(call.all), dim[call.from]}) \in Nat \cup {Closed}
    BY <2>3, <2>4, MaxOfTwo
  <2> QED BY <2>3, <2>5 DEF NewDim
<1>4. Idle' /\ Len(blocks') <= MaxBlocks
  BY DEF End, Idle, IInv
<1>5. dim' \in [Handles -> Nat \cup {Closed}]
  BY <1>3 DEF End, IInv
<1> QED BY <1>2, <1>4, <1>5 DEF IInv

\* Calls that are cut short, and steps in which nothing happens, leave the file.
LEMMA CutInv == ASSUME IInv, Fail \/ Crash \/ UNCHANGED vars PROVE IInv'
<1> PICK lev : Tree(lev) /\ (~Idle => CallOK(call, lev))
  BY DEF IInv
<1>1. blocks' = blocks /\ written' = written
  BY DEF Fail, Crash, vars
<1>2. Tree(lev)' /\ Apart' /\ AllFound' /\ Len(blocks') <= MaxBlocks
  BY <1>1, FileKept, FoundInFile DEF IInv
<1>3. dim' \in [Handles -> Nat \cup {Closed}]
  BY DEF Fail, Crash, vars, IInv
<1>4. CASE Fail \/ Crash
  BY <1>2, <1>3, <1>4 DEF IInv, Fail, Crash, Idle
<1>5. CASE UNCHANGED vars
  <2>1. ~Idle' => CallOK(call, lev)'
    <3> SUFFICES ASSUME ~Idle' PROVE CallOK(call, lev)'
      OBVIOUS
    <3>1. call' = call /\ CallOK(call, lev) /\ (DOMAIN blocks)' = DOMAIN blocks
      BY <1>1, <1>5 DEF vars, Idle
    <3>2. \A x : At(x)' = At(x) /\ Content(x)' = Content(x)
      BY <1>1 DEF At, Content
    <3>3. Keeps(call, lev)'
      BY <3>1 DEF CallOK, Keeps
    <3>4. \A b : Copied(call, b)' <=> Copied(call, b)
      BY <1>1, <3>1 DEF Copied, Content, At
    <3>5. \A b : Dig(call, b)' = Dig(call, b)
      BY <3>1 DEF Dig
    <3>6. \A x : Fresh(x)' <=> Fresh(x)
      BY <1>1 DEF Fresh, Tables, At
    <3>7. \A b, x : Pending(call, b, x)' <=> Pending(call, b, x)
      BY <1>1, <3>1, <3>4, <3>5, <3>6 DEF Pending, At
    <3> QED BY <1>1, <3>1, <3>3, <3>4, <3>5, <3>7 DEF CallOK
  <2> QED BY <1>2, <1>3, <2>1 DEF IInv
<1> QED BY <1>4, <1>5

LEMMA NextInv == IInv /\ [Next]_vars => IInv'
<1> SUFFICES ASSUME IInv, [Next]_vars PROVE IInv'
  OBVIOUS
<1>1. ASSUME NEW h \in Handles, Open(h) PROVE IInv'
  BY <1>1, OpenInv
<1>2. ASSUME NEW h \in Handles, NEW B \in Batches, NEW d \in DOMAIN Data, Begin(h, B, d)
      PROVE  IInv'
  BY <1>2, BeginInv
<1>3. CASE Locate
  BY <1>3, LocateInv
<1>4. CASE RecheckTable
  BY <1>4, RecheckTableInv
<1>5. CASE AppendTable
  BY <1>5, AppendTableInv
<1>6. CASE LinkTable
  BY <1>6, LinkTableInv
<1>7. CASE AppendRecord
  BY <1>7, AppendRecordInv
<1>8. CASE LinkRecord
  BY <1>8, LinkRecordInv
<1>9. CASE WriteData
  BY <1>9, WriteDataInv
<1>10. ASSUME NEW g \in Handles \cup {Nowhere}, End(g) PROVE IInv'
  BY <1>10, EndInv
<1>11. CASE Fail \/ Crash \/ UNCHANGED vars
  BY <1>11, CutInv
<1> QED BY <1>1, <1>2, <1>3, <1>4, <1>5, <1>6, <1>7, <1>8, <1>9, <1>10, <1>11
        DEF Next, PutStep

THEOREM Inductive == Spec => []IInv
<1>1. Init => IInv
  BY InitInv
<1>2. IInv /\ [Next]_vars => IInv'
  BY NextInv
<1> QED BY <1>1, <1>2, PTL DEF Spec

------------------------------------------------------------------------------
(* What follows for the file.                                              *)

LEMMA ImpliesTypeOK == IInv => TypeOK
<1> SUFFICES ASSUME IInv PROVE TypeOK
  OBVIOUS
<1> PICK lev : Tree(lev) /\ (~Idle => CallOK(call, lev))
  BY DEF IInv
<1>1. \A p \in Pointers : At(p[1])[p[2]] \in 2..Len(blocks)
  <2> SUFFICES ASSUME NEW p \in Pointers PROVE At(p[1])[p[2]] \in 2..Len(blocks)
    OBVIOUS
  <2>1. p[1] \in Tables /\ p[2] \in Slots /\ At(p[1])[p[2]] # Nil
    BY DEF Pointers
  <2>2. /\ At(p[1])[p[2]] \in DOMAIN blocks
        /\ lev[At(p[1])[p[2]]] = lev[p[1]] - 1 /\ lev[p[1]] \in 1..4 /\ lev[1] = 4
    BY <2>1, BlockFacts DEF Tree
  <2>3. At(p[1])[p[2]] # 1
    BY <2>2
  <2> QED BY <2>2, <2>3, BlockFacts
<1>2. ~Idle => call.stage \in Stages
  <2> SUFFICES ASSUME ~Idle PROVE call.stage \in Stages
    OBVIOUS
  <2>1. call \in Call
    BY DEF CallOK, Keeps
  <2> QED BY <2>1 DEF Call
<1>3. call # NoCall /\ call.stage = "point" => call.tab[1][D(1)] = Nil
  BY DEF CallOK, Idle, D, Dig, Index
<1> QED BY <1>1, <1>2, <1>3 DEF IInv, AllFound, TypeOK, Stages, Idle

\* Pointers stay within the file, the cached state of a call keeps its form, and the
\* pointer vs_put looks for again is never there already (vs_put.m:880-886).
THEOREM TypeCorrect == Spec => []TypeOK
  BY Inductive, ImpliesTypeOK, PTL

LEMMA ImpliesPointersApart == IInv => PointersApart
<1> SUFFICES ASSUME IInv, NEW p \in Pointers, NEW q \in Pointers,
                    At(p[1])[p[2]] = At(q[1])[q[2]]
             PROVE  p = q
  BY DEF PointersApart
<1>1. /\ p \in Tables \X Slots /\ At(p[1])[p[2]] # Nil
      /\ q \in Tables \X Slots
  BY DEF Pointers
<1>2. p[1] = q[1] /\ p[2] = q[2]
  BY <1>1 DEF IInv, Apart
<1> QED BY <1>1, <1>2

\* However calls of vs_put are cut short, no table and no record is pointed to twice.
THEOREM TreeOfPointers == Spec => []PointersApart
  BY Inductive, ImpliesPointersApart, PTL

LEMMA ImpliesWrittenIsFound == IInv => WrittenIsFound
<1> SUFFICES ASSUME IInv, NEW i \in Indices
             PROVE  IF i \in DOMAIN written
                    THEN RecordOf(i) # Nil /\ blocks[RecordOf(i)] = Record(written[i])
                    ELSE RecordOf(i) = Nil
  BY DEF WrittenIsFound
<1>1. i \in InRange
  BY IndexAssumption, Powers DEF InRange
<1> QED BY <1>1 DEF IInv, AllFound

\* The pointers of an index lead to what was last written under it, and to nothing
\* where nothing was.
THEOREM FindsWhatWasWritten == Spec => []WrittenIsFound
  BY Inductive, ImpliesWrittenIsFound, PTL

------------------------------------------------------------------------------
(* Reading.                                                                *)

\* What vs_let holds while it reads.
Reader == [last : [Byte -> Slots \cup {None}], pos : Int, got : Seq(Int),
           tab : [Byte -> [Slots -> Int]]]

\* The digit last looked up in a table is the one by which the table below it was
\* found, and the root table is held throughout.
Holds(c) ==
  /\ c \in Reader
  /\ c.tab[4] = At(1)
  /\ \A b \in 2..4 : c.last[b] # None => c.tab[b - 1] = At(c.tab[b][c.last[b]])

\* A look-up under another digit than the last.
LEMMA FetchFields ==
  ASSUME NEW c \in Reader, NEW i, NEW b \in 2..4, NEW d \in Slots, d = Digit(i, b),
         c.last[b] # d, NEW p \in Tables, p # Nil, c.tab[b][d] = p,
         NEW t \in [Slots -> Int], t = At(p), NEW f, f = Fetch(c, i, b), p \in Nat
  PROVE  /\ f \in Reader /\ f.got = c.got
         /\ f.tab = [c.tab EXCEPT ![b - 1] = t]
         /\ f.last = Moved(c.last, b, d)
<1>1. TableAt(p) = t /\ After(p) = p + 1
  BY DEF TableAt, After
<1> PICK n : n = p + 1
  OBVIOUS
<1>2. f = [c EXCEPT !.tab = [@ EXCEPT ![b - 1] = t], !.pos = n,
                    !.last = Moved(@, b, d)]
  <2>1. f = [c EXCEPT !.tab = [@ EXCEPT ![b - 1] = TableAt(c.tab[b][Digit(i, b)])],
                      !.pos = After(c.tab[b][Digit(i, b)]), !.last = Moved(@, b, Digit(i, b))]
    <3>1. c.last[b] # Digit(i, b) /\ c.tab[b][Digit(i, b)] # Nil
      OBVIOUS
    <3> QED BY ONLY <3>1, f = Fetch(c, i, b) DEF Fetch
  <2>2. Digit(i, b) = d /\ TableAt(c.tab[b][d]) = t /\ After(c.tab[b][d]) = n
    BY <1>1
  <2> QED BY ONLY <2>1, <2>2
<1> PICK u : u = [c.tab EXCEPT ![b - 1] = t]
  OBVIOUS
<1> PICK l : l = Moved(c.last, b, d)
  OBVIOUS
<1>3. u \in [Byte -> [Slots -> Int]] /\ l \in [Byte -> Slots \cup {None}] /\ n \in Int
  <2>1. c.tab \in [Byte -> [Slots -> Int]] /\ c.last \in [Byte -> Slots \cup {None}]
    BY DEF Reader
  <2>2. u \in [Byte -> [Slots -> Int]]
    BY ONLY <2>1, t \in [Slots -> Int], u = [c.tab EXCEPT ![b - 1] = t]
  <2>3. l \in [Byte -> Slots \cup {None}]
    BY ONLY <2>1, d \in Slots, b \in 2..4, l = Moved(c.last, b, d), MovedFacts
  <2> QED BY <2>2, <2>3
<1>4. f = [c EXCEPT !.tab = u, !.pos = n, !.last = l]
  BY ONLY <1>2, u = [c.tab EXCEPT ![b - 1] = t],
          l = Moved(c.last, b, d)
<1> QED BY ONLY <1>3, <1>4, c \in Reader, u = [c.tab EXCEPT ![b - 1] = t],
                l = Moved(c.last, b, d) DEF Reader

\* A look-up on the path of an index brings the next table of the path.
LEMMA FetchFollows ==
  ASSUME NEW lev, Tree(lev), NEW i \in InRange, NEW b \in 2..4, NEW c, Holds(c),
         Node(i, b - 1) # Nil, c.tab[b] = At(Node(i, b))
  PROVE  /\ Holds(Fetch(c, i, b)) /\ Fetch(c, i, b).got = c.got
         /\ Fetch(c, i, b).tab[b - 1] = At(Node(i, b - 1))
<1>1. b \in Byte /\ b - 1 \in Byte /\ 4 \in Byte /\ b # b - 1 /\ b - 1 # 4
  BY DEF Byte
<1> PICK d : d = Digit(i, b)
  OBVIOUS
<1> PICK p : p = Node(i, b - 1)
  OBVIOUS
<1>2. d \in Slots /\ d # None
  BY <1>1, IndexOfDigits, Powers DEF None
<1>3. c.tab[b][d] = p /\ p # Nil
  BY <1>1, NodeStep DEF Below
<1>4. p \in Tables
  BY <1>1, <1>3, NodeLevels
<1>5. CASE c.last[b] = d
  <2>1. Fetch(c, i, b) = c
    BY <1>5 DEF Fetch
  <2>2. c.tab[b - 1] = At(c.tab[b][d])
    BY <1>2, <1>5 DEF Holds
  <2> QED BY <2>1, <2>2, <1>3
<1>6. CASE c.last[b] # d
  <2> PICK t : t = At(p)
    OBVIOUS
  <2> PICK f : f = Fetch(c, i, b)
    OBVIOUS
  <2>1. c \in Reader
    BY DEF Holds
  <2>2. t \in [Slots -> Int] /\ p \in Nat
    BY <1>4, BlockFacts
  <2>3. /\ f \in Reader /\ f.got = c.got
        /\ f.tab = [c.tab EXCEPT ![b - 1] = t]
        /\ f.last = Moved(c.last, b, d)
    BY <2>1, <2>2, <1>2, <1>3, <1>4, <1>6, FetchFields
  <2>4. f \in Reader
    BY <2>3
  <2>5. /\ f.got = c.got /\ f.tab[b - 1] = t
        /\ \A x \in Byte : x # b - 1 => f.tab[x] = c.tab[x]
        /\ f.last[b] = d /\ f.last[b - 1] = None
        /\ \A x \in Byte : x # b /\ x # b - 1 => f.last[x] = c.last[x]
    <3>1. c.tab \in [Byte -> [Slots -> Int]] /\ c.last \in [Byte -> Slots \cup {None}]
      BY ONLY <2>1 DEF Reader
    <3>2. \A x \in Byte : f.last[x] = IF x = b - 1 THEN None ELSE IF x = b THEN d ELSE c.last[x]
      BY ONLY <3>1, <2>3, <1>2, b \in 2..4, MovedFacts
    <3> QED BY ONLY <3>1, <3>2, <2>3, <1>1
  <2>6. f.tab[4] = At(1)
    BY <2>5, <1>1 DEF Holds
  <2>7. ASSUME NEW x \in 2..4, f.last[x] # None
        PROVE  f.tab[x - 1] = At(f.tab[x][f.last[x]])
    <3>1. x \in Byte /\ x - 1 \in Byte /\ x # b - 1
      BY <2>5, <2>7 DEF Byte
    <3>2. CASE x = b
      BY <3>1, <3>2, <2>5, <1>3
    <3>3. CASE x # b
      <4>1. x - 1 # b - 1
        BY <3>3
      <4>2. f.last[x] = c.last[x] /\ f.tab[x] = c.tab[x] /\ f.tab[x - 1] = c.tab[x - 1]
        BY <2>5, <3>1, <3>3, <4>1
      <4> QED BY <4>2, <2>7 DEF Holds
    <3> QED BY <3>2, <3>3
  <2>8. Holds(f)
    BY <2>4, <2>6, <2>7 DEF Holds
  <2> QED BY <2>5, <2>8
<1> QED BY <1>5, <1>6

\* Whatever was read before, the record of an index is read next.
LEMMA RecordRead ==
  ASSUME NEW lev, Tree(lev), AllFound, NEW i \in DOMAIN written, NEW c, Holds(c)
  PROVE  /\ ReadNext(c, i).got = Append(c.got, written[i])
         /\ Holds(ReadNext(c, i))
<1>1. /\ i \in InRange /\ Node(i, 0) = RecordOf(i) /\ RecordOf(i) # Nil
      /\ blocks[RecordOf(i)] = Record(written[i]) /\ written[i] \in Int
  <2>1. i \in InRange
    BY IndexAssumption, Powers DEF InRange, AllFound
  <2> QED BY <2>1, NodeStep DEF AllFound
<1>2. Node(i, 3) # Nil /\ Node(i, 2) # Nil /\ Node(i, 1) # Nil
  <2>1. /\ Node(i, 2) = Below(Node(i, 3), i, 3) /\ Node(i, 1) = Below(Node(i, 2), i, 2)
        /\ Node(i, 0) = Below(Node(i, 1), i, 1)
    BY DEF Node, RecordOf
  <2> QED BY <1>1, <2>1 DEF Below
<1>3. 2 \in 2..4 /\ 3 \in 2..4 /\ 4 \in 2..4 /\ 4 - 1 = 3 /\ 3 - 1 = 2 /\ 2 - 1 = 1
  OBVIOUS
<1> PICK f4 : f4 = Fetch(c, i, 4)
  OBVIOUS
<1> PICK f3 : f3 = Fetch(f4, i, 3)
  OBVIOUS
<1> PICK f : f = Fetch(f3, i, 2)
  OBVIOUS
<1>4. Holds(f4) /\ f4.got = c.got /\ f4.tab[3] = At(Node(i, 3))
  <2>1. c.tab[4] = At(Node(i, 4))
    BY NodeStep DEF Holds
  <2>2. Node(i, 4 - 1) # Nil
    BY <1>2, <1>3
  <2>3. Holds(f4) /\ f4.got = c.got /\ f4.tab[4 - 1] = At(Node(i, 4 - 1))
    BY <2>1, <2>2, <1>1, <1>3, FetchFollows
  <2> QED BY <2>3, <1>3
<1>5. Holds(f3) /\ f3.got = c.got /\ f3.tab[2] = At(Node(i, 2))
  <2>1. Node(i, 3 - 1) # Nil
    BY <1>2, <1>3
  <2>2. Holds(f3) /\ f3.got = f4.got /\ f3.tab[3 - 1] = At(Node(i, 3 - 1))
    BY <2>1, <1>1, <1>3, <1>4, FetchFollows
  <2> QED BY <2>2, <1>3, <1>4
<1>6. Holds(f) /\ f.got = c.got /\ f.tab[1] = At(Node(i, 1))
  <2>1. Node(i, 2 - 1) # Nil
    BY <1>2, <1>3
  <2>2. Holds(f) /\ f.got = f3.got /\ f.tab[2 - 1] = At(Node(i, 2 - 1))
    BY <2>1, <1>1, <1>3, <1>5, FetchFollows
  <2> QED BY <2>2, <1>3, <1>5
<1> PICK p : p = RecordOf(i)
  OBVIOUS
<1>7. f.tab[1][Digit(i, 1)] = p
  <2>1. Node(i, 0) = Below(Node(i, 1), i, 1)
    BY DEF Node, RecordOf
  <2> QED BY <2>1, <1>1, <1>2, <1>6 DEF Below
<1>8. p \in DOMAIN blocks \ Tables /\ p # Nil /\ blocks[p].val = written[i]
  <2>1. p \in DOMAIN blocks /\ lev[p] = 0
    BY <1>1, NodeLevels
  <2>2. p \notin Tables
    BY <2>1 DEF Tree
  <2> QED BY <1>1, <2>1, <2>2 DEF Record
<1>9. ReadNext(c, i) = [f EXCEPT !.got = Append(@, written[i]), !.pos = Unknown]
  BY <1>7, <1>8 DEF ReadNext
<1>10. f \in Reader
  BY <1>6 DEF Holds
<1> PICK n : n = ReadNext(c, i)
  OBVIOUS
<1>11. /\ n \in Reader /\ n.got = Append(f.got, written[i])
       /\ n.tab = f.tab /\ n.last = f.last
  <2>1. n = [f EXCEPT !.got = Append(f.got, written[i]), !.pos = Unknown]
    BY <1>9
  <2>2. Append(f.got, written[i]) \in Seq(Int) /\ Unknown \in Int
    BY <1>1, <1>10 DEF Reader, Unknown
  <2> QED BY ONLY <2>1, <2>2, <1>10 DEF Reader
<1>12. Holds(n)
  BY <1>6, <1>11 DEF Holds
<1> QED BY <1>6, <1>11, <1>12

\* Before the first record vs_let holds the root table and nothing else.
LEMMA StartHolds == ASSUME NEW lev, Tree(lev) PROVE Holds(Start) /\ Start.got = <<>>
<1>1. At(1) \in [Slots -> Int] /\ Junk \in [Slots -> Int]
  <2>1. 1 \in Tables
    BY DEF Tree
  <2>2. At(1) \in [Slots -> Nat]
    BY <2>1, BlockFacts
  <2> QED BY <2>2 DEF Junk
<1>2. /\ Start.last = [b \in Byte |-> None] /\ Start.pos = 2 /\ Start.got = <<>>
      /\ Start.tab = [b \in Byte |-> IF b = 4 THEN At(1) ELSE Junk]
      /\ Start = [last |-> Start.last, pos |-> Start.pos, got |-> Start.got, tab |-> Start.tab]
  BY DEF Start
<1>3. Start.tab \in [Byte -> [Slots -> Int]] /\ Start.last \in [Byte -> Slots \cup {None}]
  BY ONLY <1>1, <1>2
<1>4. Start \in Reader
  <2> PICK l, t : l = Start.last /\ t = Start.tab
    OBVIOUS
  <2>1. Start = [last |-> l, pos |-> 2, got |-> <<>>, tab |-> t]
    BY <1>2
  <2>2. l \in [Byte -> Slots \cup {None}] /\ t \in [Byte -> [Slots -> Int]]
    BY <1>3
  <2>3. <<>> \in Seq(Int) /\ 2 \in Int
    OBVIOUS
  <2> QED BY ONLY <2>1, <2>2, <2>3 DEF Reader
<1>5. Start.tab[4] = At(1) /\ \A b \in 2..4 : Start.last[b] = None
  BY ONLY <1>2 DEF Byte
<1> QED BY <1>2, <1>4, <1>5 DEF Holds

\* What is read of two records.
LEMMA TwoAppended ==
  ASSUME NEW v \in Int, NEW w \in Int
  PROVE  Append(Append(<<>>, v), w) = <<v, w>>
<1>1. <<>> \in Seq(Int) /\ Len(<<>>) = 0
  OBVIOUS
<1> PICK s : s = Append(<<>>, v)
  OBVIOUS
<1>2. s \in Seq(Int) /\ Len(s) = 1 /\ s[1] = v
  BY <1>1
<1> PICK t : t = Append(s, w)
  OBVIOUS
<1>3. t \in Seq(Int) /\ Len(t) = 2 /\ t[1] = v /\ t[2] = w
  BY <1>2
<1>4. \A n \in 1..2 : n = 1 \/ n = 2
  OBVIOUS
<1> PICK u : u = <<v, w>>
  OBVIOUS
<1>5. u \in Seq(Int) /\ Len(u) = 2 /\ u[1] = v /\ u[2] = w
  OBVIOUS
<1>6. \A n \in 1..2 : t[n] = u[n]
  BY ONLY <1>3, <1>4, <1>5
<1>7. t = u
  BY ONLY <1>3, <1>5, <1>6, SeqEqual
<1> QED BY <1>7

\* The invariant of the tree is enough for vs_let.
LEMMA ImpliesReadsBack == IInv => ReadsBack
<1> SUFFICES ASSUME IInv, NEW i \in DOMAIN written, NEW j \in DOMAIN written
             PROVE  ReadNext(ReadNext(Start, i), j).got = <<written[i], written[j]>>
  BY DEF ReadsBack
<1> PICK lev : Tree(lev)
  BY DEF IInv
<1>1. AllFound
  BY DEF IInv
<1> PICK c : c = ReadNext(Start, i)
  OBVIOUS
<1>2. c.got = Append(<<>>, written[i]) /\ Holds(c)
  BY <1>1, StartHolds, RecordRead
<1>3. ReadNext(c, j).got = Append(c.got, written[j])
  BY <1>1, <1>2, RecordRead
<1>4. written[i] \in Int /\ written[j] \in Int
  BY <1>1 DEF AllFound
<1> QED BY <1>2, <1>3, <1>4, TwoAppended

\* vs_let returns, for any two indices that were written, the data last written under
\* each: the tables it keeps from the first do not spoil the second (vs_let.m:1200-1249).
THEOREM ReadsWhatWasWritten == Spec => []ReadsBack
  BY Inductive, ImpliesReadsBack, PTL
==============================================================================
