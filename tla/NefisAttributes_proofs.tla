------------------------ MODULE NefisAttributes_proofs ------------------------
(* That vs_put sets the attributes it is asked to and nothing else, as long as *)
(* the numbers of a kind fit the row in which they are kept.                   *)
EXTENDS NefisAttributes, SequenceTheorems, WellFoundedInduction, NaturalsInduction, TLAPS

Numbers == {"int", "real"}
Words   == Ints \cup Reals \cup Strings \cup {Blank, Zero} \cup Names \cup Range(Behind)

\* The hypothesis of the theorems: no call gives an integer or a real a slot other than
\* the first, where SetRow would make the row of values a matrix (AttrTwo).
RowsOnly ==
  \A g \in Vars \cup {Nowhere}, h \in Holders, list \in Lists :
    Put(h, g, list) => \A k \in Numbers : Len(Changed(mem[h], list).vs.val[k]) = Slots

------------------------------------------------------------------------------
(* Lists, name by name.                                                      *)

\* Every set of natural numbers that is not empty has a least element.
LEMMA LeastNatural ==
  ASSUME NEW S \in SUBSET Nat, S # {}
  PROVE  \E x \in S : \A y \in S : x <= y
<1>1. IsWellFoundedOn(OpToRel(<, Nat), Nat)
  BY NatLessThanWellFounded
<1>2. PICK x \in S : \A y \in S : ~(<<y, x>> \in OpToRel(<, Nat))
  BY <1>1, WFMin, Zenon
<1>3. \A y \in S : ~(y < x)
  BY <1>2 DEF OpToRel
<1> QED BY <1>3

\* What Changed has come to after n pairs of a list.
ChangedUpTo(vs, list) ==
  CHOOSE f : f = [n \in 0..Len(list) |-> IF n = 0 THEN Done(vs) ELSE Change(f[n - 1], list[n])]

\* Changed makes the changes one after the other: the function it takes exists, or there
\* were a least number of pairs for which it does not.
LEMMA ChangedSteps ==
  ASSUME NEW S, NEW list \in Seq(S), NEW vs
  PROVE  /\ ChangedUpTo(vs, list)[0] = Done(vs)
         /\ \A n \in 1..Len(list) :
              ChangedUpTo(vs, list)[n] = Change(ChangedUpTo(vs, list)[n - 1], list[n])
         /\ Changed(vs, list) = ChangedUpTo(vs, list)[Len(list)]
<1> DEFINE Is(f, n) == f = [m \in 0..n |-> IF m = 0 THEN Done(vs) ELSE Change(f[m - 1], list[m])]
           Bad == {n \in Nat : ~\E f : Is(f, n)}
<1>0. Len(list) \in Nat
  OBVIOUS
<1>1. ASSUME Bad # {} PROVE FALSE
  <2>1. PICK n \in Bad : \A k \in Bad : n <= k
    BY <1>1, LeastNatural
  <2>2. CASE n = 0
    <3> DEFINE f == [m \in 0..0 |-> Done(vs)]
    <3>2. \A m \in 0..0 : m = 0
      OBVIOUS
    <3>3. \A m \in 0..0 : f[m] = IF m = 0 THEN Done(vs) ELSE Change(f[m - 1], list[m])
      BY <3>2
    <3> HIDE DEF f
    <3>4. f = [m \in 0..0 |-> f[m]]
      BY DEF f
    <3>5. [m \in 0..0 |-> f[m]] = [m \in 0..0 |-> IF m = 0 THEN Done(vs) ELSE Change(f[m - 1], list[m])]
      BY ONLY <3>3
    <3>1. Is(f, 0)
      BY ONLY <3>4, <3>5
    <3> QED BY <3>1, <2>1, <2>2
  <2>3. CASE n # 0
    <3> HIDE DEF Bad
    <3>0. n \in Nat
      BY DEF Bad
    <3>1. n - 1 \in Nat /\ n - 1 \notin Bad
      BY ONLY <3>0, <2>1, <2>3
    <3> USE DEF Bad
    <3>2. PICK f : Is(f, n - 1)
      BY <3>1
    <3> DEFINE g == [m \in 0..n |-> IF m < n THEN f[m] ELSE Change(f[n - 1], list[n])]
    <3>3. n \in Nat /\ n > 0
      BY <2>3
    <3>4. \A m \in 0..n : g[m] = IF m = 0 THEN Done(vs) ELSE Change(g[m - 1], list[m])
      BY <3>2, <3>3
    <3>5. Is(g, n)
      BY <3>4
    <3> QED BY <3>5, <2>1
  <2> QED BY <2>2, <2>3
<1>2. \E f : Is(f, Len(list))
  BY <1>0, <1>1
<1>3. Is(ChangedUpTo(vs, list), Len(list))
  BY <1>2 DEF ChangedUpTo
<1> DEFINE c == ChangedUpTo(vs, list)
<1>4. Changed(vs, list) = c[Len(list)]
  BY DEF Changed, ChangedUpTo
<1> HIDE DEF c
<1>5. \A m \in 0..Len(list) : c[m] = IF m = 0 THEN Done(vs) ELSE Change(c[m - 1], list[m])
  BY <1>3 DEF c
<1>6. c[0] = Done(vs)
  BY <1>0, <1>5
<1>7. \A m \in 1..Len(list) : c[m] = Change(c[m - 1], list[m])
  BY <1>0, <1>5
<1> QED BY <1>4, <1>6, <1>7 DEF c

AskedUpTo(attrs, list) ==
  CHOOSE f : f = [n \in 0..Len(list) |-> IF n = 0 THEN attrs ELSE Applied(f[n - 1], list[n])]

\* The same of what was asked for.
LEMMA AskedSteps ==
  ASSUME NEW S, NEW list \in Seq(S), NEW attrs
  PROVE  /\ AskedUpTo(attrs, list)[0] = attrs
         /\ \A n \in 1..Len(list) :
              AskedUpTo(attrs, list)[n] = Applied(AskedUpTo(attrs, list)[n - 1], list[n])
         /\ Asked(attrs, list) = AskedUpTo(attrs, list)[Len(list)]
<1> DEFINE Is(f, n) == f = [m \in 0..n |-> IF m = 0 THEN attrs ELSE Applied(f[m - 1], list[m])]
           Bad == {n \in Nat : ~\E f : Is(f, n)}
<1>0. Len(list) \in Nat
  OBVIOUS
<1>1. ASSUME Bad # {} PROVE FALSE
  <2>1. PICK n \in Bad : \A k \in Bad : n <= k
    BY <1>1, LeastNatural
  <2>2. CASE n = 0
    <3> DEFINE f == [m \in 0..0 |-> attrs]
    <3>2. \A m \in 0..0 : m = 0
      OBVIOUS
    <3>3. \A m \in 0..0 : f[m] = IF m = 0 THEN attrs ELSE Applied(f[m - 1], list[m])
      BY <3>2
    <3> HIDE DEF f
    <3>4. f = [m \in 0..0 |-> f[m]]
      BY DEF f
    <3>5. [m \in 0..0 |-> f[m]] = [m \in 0..0 |-> IF m = 0 THEN attrs ELSE Applied(f[m - 1], list[m])]
      BY ONLY <3>3
    <3>1. Is(f, 0)
      BY ONLY <3>4, <3>5
    <3> QED BY <3>1, <2>1, <2>2
  <2>3. CASE n # 0
    <3> HIDE DEF Bad
    <3>0. n \in Nat
      BY DEF Bad
    <3>1. n - 1 \in Nat /\ n - 1 \notin Bad
      BY ONLY <3>0, <2>1, <2>3
    <3> USE DEF Bad
    <3>2. PICK f : Is(f, n - 1)
      BY <3>1
    <3> DEFINE g == [m \in 0..n |-> IF m < n THEN f[m] ELSE Applied(f[n - 1], list[n])]
    <3>3. n \in Nat /\ n > 0
      BY <2>3
    <3>4. \A m \in 0..n : g[m] = IF m = 0 THEN attrs ELSE Applied(g[m - 1], list[m])
      BY <3>2, <3>3
    <3>5. Is(g, n)
      BY <3>4
    <3> QED BY <3>5, <2>1
  <2> QED BY <2>2, <2>3
<1>2. \E f : Is(f, Len(list))
  BY <1>0, <1>1
<1>3. Is(AskedUpTo(attrs, list), Len(list))
  BY <1>2 DEF AskedUpTo
<1> DEFINE c == AskedUpTo(attrs, list)
<1>4. Asked(attrs, list) = c[Len(list)]
  BY DEF Asked, AskedUpTo
<1> HIDE DEF c
<1>5. \A m \in 0..Len(list) : c[m] = IF m = 0 THEN attrs ELSE Applied(c[m - 1], list[m])
  BY <1>3 DEF c
<1>6. c[0] = attrs
  BY <1>0, <1>5
<1>7. \A m \in 1..Len(list) : c[m] = Applied(c[m - 1], list[m])
  BY <1>0, <1>5
<1> QED BY <1>4, <1>6, <1>7 DEF c

------------------------------------------------------------------------------
(* Structures.                                                               *)

Structures == [name : [Kinds -> [1..Slots -> Words]], val : [Kinds -> Seq(Words)]]

\* The values of a kind of numbers are a matrix of one row or more.
Matrices(vs) ==
  /\ vs \in Structures
  /\ Len(vs.val["str"]) = Slots
  /\ \A k \in Numbers : \E q \in Nat \ {0} : Len(vs.val[k]) = q * Slots

Rows(vs) == \A k \in Numbers : Len(vs.val[k]) = Slots

\* Only the first slot of a kind of numbers is in use, and no name stands twice.
FirstOnly(vs) == \A k \in Numbers, i \in 1..Slots : vs.name[k][i] # Blank => i = 1
Apart(vs) == \A s, t \in InUse(vs) : vs.name[s[1]][s[2]] = vs.name[t[1]][t[2]] => s = t

Good(vs) == Matrices(vs) /\ Rows(vs) /\ FirstOnly(vs) /\ Apart(vs)

\* The kinds are those of numbers and that of strings.
LEMMA KindsAre == Kinds = Numbers \cup {"str"} /\ "str" \notin Numbers
BY DEF Kinds, Numbers

WithName(vs, k, i, w)  == [vs EXCEPT !.name[k][i] = w]
WithValue(vs, k, i, w) == [vs EXCEPT !.val[k][i] = w]

\* A name is set in one slot.
LEMMA NameSet ==
  ASSUME NEW vs \in Structures, NEW k \in Kinds, NEW i \in 1..Slots, NEW w \in Words,
         NEW u, u = WithName(vs, k, i, w)
  PROVE  /\ u \in Structures
         /\ u.val = vs.val
         /\ \A x \in Kinds, y \in 1..Slots :
              u.name[x][y] = IF x = k /\ y = i THEN w ELSE vs.name[x][y]
BY DEF Structures, WithName

\* A value is set in place.
LEMMA ValueSet ==
  ASSUME NEW vs \in Structures, NEW k \in Kinds, NEW i \in 1..Len(vs.val[k]), NEW w \in Words,
         NEW u, u = WithValue(vs, k, i, w)
  PROVE  /\ u \in Structures
         /\ u.name = vs.name
         /\ \A x \in Kinds : Len(u.val[x]) = Len(vs.val[x])
         /\ \A x \in Kinds : x # k => u.val[x] = vs.val[x]
         /\ \A y \in 1..Len(vs.val[k]) : u.val[k][y] = IF y = i THEN w ELSE vs.val[k][y]
<1>1. /\ vs.name \in [Kinds -> [1..Slots -> Words]]
      /\ vs.val \in [Kinds -> Seq(Words)]
      /\ vs = [name |-> vs.name, val |-> vs.val]
  BY DEF Structures
<1> DEFINE e == [vs.val[k] EXCEPT ![i] = w]
<1>2. u = [name |-> vs.name, val |-> [vs.val EXCEPT ![k] = e]]
  BY <1>1 DEF WithValue
<1>3. /\ e \in Seq(Words) /\ Len(e) = Len(vs.val[k])
      /\ \A y \in 1..Len(vs.val[k]) : e[y] = IF y = i THEN w ELSE vs.val[k][y]
  <2>1. vs.val[k] \in Seq(Words)
    BY <1>1
  <2> QED BY <2>1, ExceptSeq
<1> HIDE DEF e
<1>4. u.name = vs.name /\ u.val = [vs.val EXCEPT ![k] = e]
  BY <1>2
<1>5. u.val[k] = e /\ \A x \in Kinds : x # k => u.val[x] = vs.val[x]
  BY <1>1, <1>4
<1>6. u \in Structures
  BY <1>1, <1>2, <1>3 DEF Structures
<1> QED BY <1>3, <1>4, <1>5, <1>6

\* u is what a matrix m of q rows becomes when its row r is set to v.
RowGrown(m, q, r, v, u) ==
  /\ u \in Seq(Words)
  /\ \E p \in Nat \ {0} : p >= q /\ Len(u) = p * Slots
  /\ Len(u) >= Len(m)
  /\ Len(u) = Slots => Len(m) = Slots /\ r = 1 /\ \A i \in 1..Slots : u[i] = v

\* SetRow gives a matrix that is a row only if it was one and its first row was set;
\* then all of it has the value.
LEMMA RowSet ==
  ASSUME NEW m \in Seq(Words), NEW q \in Nat \ {0}, Len(m) = q * Slots,
         NEW r \in 1..Slots, NEW v \in Words
  PROVE  RowGrown(m, q, r, v, SetRow(m, r, v))
<1>1. Slots \in Nat /\ Slots > 0
  BY SlotsAssumption
<1>2. (q * Slots) \div Slots = q
  <2> PICK a \in Nat : a = q * Slots
    BY <1>1
  <2>1. /\ a \div Slots \in Int
        /\ Slots * (a \div Slots) <= a /\ a < Slots * (a \div Slots) + Slots
    BY <1>1
  <2> PICK b \in Int : b = a \div Slots
    BY <2>1
  <2>2. Slots * b <= q * Slots /\ q * Slots < Slots * b + Slots
    BY <2>1
  <2>3. ~(b <= q - 1)
    <3> SUFFICES ASSUME b <= q - 1 PROVE FALSE
      OBVIOUS
    <3>1. Slots * b <= Slots * (q - 1)
      BY <1>1
    <3>2. Slots * (q - 1) = q * Slots - Slots
      BY <1>1
    <3> QED BY <3>1, <3>2, <2>2, <1>1
  <2>4. ~(b >= q + 1)
    <3> SUFFICES ASSUME b >= q + 1 PROVE FALSE
      OBVIOUS
    <3>1. Slots * b >= Slots * (q + 1)
      BY <1>1
    <3>2. Slots * (q + 1) = q * Slots + Slots
      BY <1>1
    <3> QED BY <3>1, <3>2, <2>2, <1>1
  <2> QED BY <2>3, <2>4
<1> DEFINE rows == Max({q, r})
           e(i) == LET row == ((i - 1) % rows) + 1
                       col == (i - 1) \div rows
                   IN  IF row = r THEN v ELSE IF row <= q THEN m[col * q + row] ELSE Zero
<1>3. rows = IF q >= r THEN q ELSE r
  <2> DEFINE x == IF q >= r THEN q ELSE r
  <2>1. x \in {q, r} /\ \A y \in {q, r} : x >= y
    OBVIOUS
  <2>2. rows \in {q, r} /\ \A y \in {q, r} : rows >= y
    BY <2>1 DEF Max
  <2> QED BY <2>1, <2>2
<1>4. SetRow(m, r, v) = [i \in 1..(rows * Slots) |-> e(i)]
  BY <1>2 DEF SetRow
<1> HIDE DEF rows
<1>5. rows \in Nat /\ rows > 0 /\ rows * Slots \in Nat /\ rows >= q /\ rows >= r
  BY <1>1, <1>3
<1>6. ASSUME NEW i \in 1..(rows * Slots) PROVE e(i) \in Words
  <2> DEFINE row == ((i - 1) % rows) + 1
             col == (i - 1) \div rows
  <2>1. /\ row \in 1..rows /\ col \in Nat
        /\ rows * col <= i - 1
    BY <1>5
  <2>2. col <= Slots - 1
    <3> SUFFICES ASSUME col >= Slots PROVE FALSE
      BY <1>1, <2>1
    <3> HIDE DEF col
    <3>1. rows * col >= rows * Slots
      BY <1>1, <1>5, <2>1
    <3> QED BY <3>1, <2>1, <1>5
  <2>3. e(i) = IF row = r THEN v ELSE IF row <= q THEN m[col * q + row] ELSE Zero
    OBVIOUS
  <2> HIDE DEF row, col, e
  <2>4. ASSUME row <= q PROVE m[col * q + row] \in Words
    <3>1. col * q <= (Slots - 1) * q /\ col * q \in Nat
      BY <1>1, <2>1, <2>2
    <3>2. (Slots - 1) * q = q * Slots - q
      BY <1>1
    <3>3. col * q + row \in 1..Len(m)
      BY <3>1, <3>2, <2>1, <2>4, <1>1
    <3> QED BY <3>3
  <2>5. Zero \in Words
    BY DEF Words
  <2> QED BY <2>3, <2>4, <2>5
<1> HIDE DEF e
<1>7. SetRow(m, r, v) \in Seq(Words) /\ Len(SetRow(m, r, v)) = rows * Slots
  BY <1>4, <1>5, <1>6
<1>8. rows * Slots >= q * Slots
  BY <1>1, <1>5
<1>9. ASSUME rows * Slots = Slots
      PROVE  q = 1 /\ r = 1 /\ \A i \in 1..Slots : SetRow(m, r, v)[i] = v
  <2>1. rows = 1
    <3>1. CASE rows >= 2
      <4>1. rows * Slots >= 2 * Slots
        BY <3>1, <1>1, <1>5
      <4> QED BY <4>1, <1>9, <1>1
    <3> QED BY <3>1, <1>5
  <2>2. q = 1 /\ r = 1
    BY <2>1, <1>5
  <2>3. ASSUME NEW i \in 1..Slots PROVE e(i) = v
    <3>1. (i - 1) % 1 = 0
      BY <1>1
    <3> QED BY <3>1, <2>1, <2>2 DEF e
  <2>4. \A i \in 1..Slots : SetRow(m, r, v)[i] = e(i)
    BY <1>4, <1>9
  <2> QED BY <2>2, <2>3, <2>4
<1> QED BY <1>1, <1>5, <1>7, <1>8, <1>9 DEF RowGrown

\* The value of one slot is set; where the values stay a row, it was the first slot or
\* one of a string.
LEMMA ValuePut ==
  ASSUME NEW vs, Matrices(vs), NEW k \in Kinds, NEW i \in 1..Slots, NEW v \in Words,
         NEW u, u = Set(vs, k, i, v)
  PROVE  /\ Matrices(u)
         /\ u.name = vs.name
         /\ \A x \in Kinds : x # k => u.val[x] = vs.val[x]
         /\ Rows(u) => Rows(vs) /\ u.val[k][i] = v /\ (k \in Numbers => i = 1)
         /\ k = "str" => \A y \in 1..Slots : y # i => u.val[k][y] = vs.val[k][y]
<1>0. /\ vs \in Structures /\ Len(vs.val["str"]) = Slots
      /\ \A x \in Numbers : \E q \in Nat \ {0} : Len(vs.val[x]) = q * Slots
  BY DEF Matrices
<1>1. CASE k = "str"
  <2>1. u = WithValue(vs, k, i, v)
    BY <1>1 DEF Set, WithValue
  <2>2. i \in 1..Len(vs.val[k])
    BY <1>0, <1>1
  <2>3. /\ u \in Structures
        /\ u.name = vs.name
        /\ \A x \in Kinds : Len(u.val[x]) = Len(vs.val[x])
        /\ \A x \in Kinds : x # k => u.val[x] = vs.val[x]
        /\ \A y \in 1..Len(vs.val[k]) : u.val[k][y] = IF y = i THEN v ELSE vs.val[k][y]
    <3>1. vs \in Structures /\ k \in Kinds /\ v \in Words
      BY <1>0
    <3> QED BY ONLY <3>1, <2>1, <2>2, ValueSet
  <2>4. Matrices(u)
    BY <1>0, <2>3, KindsAre DEF Matrices
  <2>5. Rows(u) => Rows(vs)
    BY <2>3, KindsAre DEF Rows
  <2>7. k \notin Numbers
    BY <1>1, KindsAre
  <2>8. \A y \in 1..Slots : u.val[k][y] = IF y = i THEN v ELSE vs.val[k][y]
    BY <2>3, <1>0, <1>1
  <2> QED BY <2>3, <2>4, <2>5, <2>7, <2>8
<1>2. CASE k # "str"
  <2>0. k \in Numbers
    BY <1>2, KindsAre
  <2> DEFINE row == SetRow(vs.val[k], i, v)
  <2>1. u = [vs EXCEPT !.val[k] = row]
    BY <1>2 DEF Set
  <2>2. PICK q \in Nat \ {0} : Len(vs.val[k]) = q * Slots
    BY <1>0, <2>0
  <2>3. vs.val[k] \in Seq(Words)
    BY <1>0 DEF Structures
  <2>4. /\ row \in Seq(Words)
        /\ \E p \in Nat \ {0} : p >= q /\ Len(row) = p * Slots
        /\ Len(row) >= Len(vs.val[k])
        /\ Len(row) = Slots => Len(vs.val[k]) = Slots /\ i = 1 /\ \A y \in 1..Slots : row[y] = v
    <3> PICK m : m = vs.val[k]
      OBVIOUS
    <3>1. m \in Seq(Words) /\ Len(m) = q * Slots /\ row = SetRow(m, i, v)
      BY <2>2, <2>3
    <3>0. q \in Nat \ {0} /\ i \in 1..Slots /\ v \in Words
      OBVIOUS
    <3> HIDE DEF row
    <3>2. RowGrown(m, q, i, v, SetRow(m, i, v))
      BY <3>0, <3>1, RowSet, Zenon
    <3> QED BY ONLY <3>1, <3>2, m = vs.val[k] DEF RowGrown
  <2> HIDE DEF row
  <2>5. /\ u \in Structures /\ u.name = vs.name /\ u.val[k] = row
        /\ \A x \in Kinds : x # k => u.val[x] = vs.val[x]
    <3>1. vs \in Structures
      BY <1>0
    <3>2. k \in Kinds
      OBVIOUS
    <3> QED BY ONLY <2>1, <2>4, <3>1, <3>2 DEF Structures
  <2>6. Matrices(u)
    <3>1. ASSUME NEW x \in Numbers PROVE \E p \in Nat \ {0} : Len(u.val[x]) = p * Slots
      BY <1>0, <2>4, <2>5, KindsAre
    <3>2. u.val["str"] = vs.val["str"]
      BY <2>5, <1>2, KindsAre
    <3> QED BY <2>5, <3>1, <3>2, <1>0 DEF Matrices
  <2>8. ASSUME Rows(u) PROVE Rows(vs) /\ u.val[k][i] = v /\ i = 1
    <3>1. Len(row) = Slots
      BY <2>8, <2>5, <2>0 DEF Rows
    <3>2. \A x \in Numbers : Len(vs.val[x]) = Slots
      BY <2>4, <2>5, <2>8, <3>1, KindsAre DEF Rows
    <3> QED BY <3>1, <3>2, <2>4, <2>5 DEF Rows
  <2> QED BY <2>5, <2>6, <2>8, <1>2
<1> QED BY <1>1, <1>2

\* A slot is emptied.
LEMMA SlotErased ==
  ASSUME NEW vs, Matrices(vs), NEW k \in Kinds, NEW i \in 1..Slots
  PROVE  LET u == Erase(vs, k, i)
         IN  /\ Matrices(u)
             /\ \A x \in Kinds, y \in 1..Slots :
                  u.name[x][y] = IF x = k /\ y = i THEN Blank ELSE vs.name[x][y]
             /\ \A x \in Kinds : Len(u.val[x]) = Len(vs.val[x])
             /\ \A x \in Kinds, y \in 1..Slots :
                  ~(x = k /\ y = i) => u.val[x][y] = vs.val[x][y]
<1> DEFINE u == Erase(vs, k, i)
           w == IF k = "str" THEN Blank ELSE Zero
<1> PICK t : t = WithName(vs, k, i, Blank)
  OBVIOUS
<1>0. /\ vs \in Structures /\ Len(vs.val["str"]) = Slots
      /\ \A x \in Numbers : \E q \in Nat \ {0} : Len(vs.val[x]) = q * Slots
  BY DEF Matrices
<1>1. Blank \in Words /\ w \in Words
  BY DEF Words
<1>2. /\ t \in Structures
      /\ t.val = vs.val
      /\ \A x \in Kinds, y \in 1..Slots :
           t.name[x][y] = IF x = k /\ y = i THEN Blank ELSE vs.name[x][y]
  <2>1. vs \in Structures /\ Blank \in Words /\ k \in Kinds /\ i \in 1..Slots
    BY <1>0, <1>1
  <2>2. t = WithName(vs, k, i, Blank)
    OBVIOUS
  <2> QED BY ONLY <2>1, <2>2, NameSet
<1>3. u = WithValue(t, k, i, w)
  BY t = WithName(vs, k, i, Blank) DEF Erase, WithName, WithValue
<1>4. i \in 1..Len(vs.val[k])
  <2>1. \A q \in Nat \ {0} : q * Slots >= Slots
    BY SlotsAssumption
  <2>2. k \in Numbers \/ k = "str"
    BY KindsAre
  <2>3. \A x \in Kinds : Len(vs.val[x]) \in Nat
    BY <1>0 DEF Structures
  <2> QED BY <1>0, <2>1, <2>2, <2>3, SlotsAssumption
<1> HIDE DEF u, w
<1>5. /\ u \in Structures
      /\ u.name = t.name
      /\ \A x \in Kinds : Len(u.val[x]) = Len(t.val[x])
      /\ \A x \in Kinds : x # k => u.val[x] = t.val[x]
      /\ \A y \in 1..Len(t.val[k]) : u.val[k][y] = IF y = i THEN w ELSE t.val[k][y]
  <2>1. t \in Structures /\ w \in Words /\ k \in Kinds /\ i \in 1..Len(t.val[k])
    BY <1>1, <1>2, <1>4
  <2> QED BY ONLY <2>1, <1>3, ValueSet
<1>6. \A x \in Kinds : Len(u.val[x]) = Len(vs.val[x])
  BY <1>2, <1>5
<1>7. Matrices(u)
  BY <1>0, <1>5, <1>6, KindsAre DEF Matrices
<1>8. ASSUME NEW x \in Kinds, NEW y \in 1..Slots, ~(x = k /\ y = i)
      PROVE  u.val[x][y] = vs.val[x][y]
  <2>1. CASE x # k
    BY <2>1, <1>2, <1>5
  <2>2. CASE x = k
    <3>1. Slots <= Len(vs.val[k])
      <4>1. \A q \in Nat \ {0} : q * Slots >= Slots
        BY SlotsAssumption
      <4>2. k \in Numbers \/ k = "str"
        BY KindsAre
      <4> QED BY <1>0, <4>1, <4>2, SlotsAssumption
    <3>2. y \in 1..Len(t.val[k])
      <4>1. Len(vs.val[k]) \in Nat
        BY <1>0 DEF Structures
      <4> QED BY <3>1, <4>1, <1>2, SlotsAssumption
    <3> QED BY <3>2, <2>2, <1>8, <1>5, <1>2
  <2> QED BY <2>1, <2>2
<1> QED BY <1>2, <1>5, <1>6, <1>7, <1>8 DEF u

------------------------------------------------------------------------------
(* What a structure means after one of its slots has changed.                *)

\* Nothing but slot s has changed in what vs has in use.
Beside(vs, u, s) ==
  \A x \in Kinds, y \in 1..Slots : <<x, y>> # s =>
     /\ u.name[x][y] = vs.name[x][y]
     /\ u.name[x][y] # Blank => u.val[x][y] = vs.val[x][y]

\* No slot but s has name n.
Alone(vs, n, s) == \A x \in Kinds, y \in 1..Slots : <<x, y>> # s => vs.name[x][y] # n

Named(attrs, n) == {a \in attrs : a[1] = n}

\* What is meant, slot by slot.
LEMMA MeaningIs ==
  ASSUME NEW vs, NEW a
  PROVE  a \in Meaning(vs) <=> \E x \in Kinds, y \in 1..Slots :
           vs.name[x][y] # Blank /\ a = <<vs.name[x][y], x, vs.val[x][y]>>
<1>1. ASSUME NEW x \in Kinds, NEW y \in 1..Slots, vs.name[x][y] # Blank,
             a = <<vs.name[x][y], x, vs.val[x][y]>>
      PROVE  a \in Meaning(vs)
  <2>1. <<x, y>> \in InUse(vs)
    BY <1>1 DEF InUse
  <2> QED BY <1>1, <2>1 DEF Meaning
<1>2. ASSUME a \in Meaning(vs)
      PROVE  \E x \in Kinds, y \in 1..Slots :
               vs.name[x][y] # Blank /\ a = <<vs.name[x][y], x, vs.val[x][y]>>
  <2>1. PICK s \in InUse(vs) : a = <<vs.name[s[1]][s[2]], s[1], vs.val[s[1]][s[2]]>>
    BY <1>2 DEF Meaning
  <2>2. s[1] \in Kinds /\ s[2] \in 1..Slots /\ vs.name[s[1]][s[2]] # Blank
    BY DEF InUse
  <2> QED BY <2>1, <2>2
<1> QED BY <1>1, <1>2

\* A slot that has the name or is free gets the name and a value.
LEMMA MeaningPut ==
  ASSUME NEW vs, NEW u, NEW k \in Kinds, NEW i \in 1..Slots, NEW n, NEW v,
         n # Blank, Beside(vs, u, <<k, i>>), Alone(vs, n, <<k, i>>),
         vs.name[k][i] \in {Blank, n}, u.name[k][i] = n, u.val[k][i] = v
  PROVE  Meaning(u) = (Meaning(vs) \ Named(Meaning(vs), n)) \cup {<<n, k, v>>}
<1>1. ASSUME NEW a \in Meaning(u)
      PROVE  a \in (Meaning(vs) \ Named(Meaning(vs), n)) \cup {<<n, k, v>>}
  <2>1. PICK x \in Kinds, y \in 1..Slots :
          u.name[x][y] # Blank /\ a = <<u.name[x][y], x, u.val[x][y]>>
    BY MeaningIs
  <2>2. CASE <<x, y>> = <<k, i>>
    BY <2>1, <2>2
  <2>3. CASE <<x, y>> # <<k, i>>
    <3>1. vs.name[x][y] # Blank /\ a = <<vs.name[x][y], x, vs.val[x][y]>>
      BY <2>1, <2>3 DEF Beside
    <3>2. a \in Meaning(vs)
      BY <3>1, MeaningIs
    <3>3. a[1] # n
      BY <3>1, <2>3 DEF Alone
    <3> QED BY <3>2, <3>3 DEF Named
  <2> QED BY <2>2, <2>3
<1>2. ASSUME NEW a \in Meaning(vs), a[1] # n
      PROVE  a \in Meaning(u)
  <2>1. PICK x \in Kinds, y \in 1..Slots :
          vs.name[x][y] # Blank /\ a = <<vs.name[x][y], x, vs.val[x][y]>>
    BY MeaningIs
  <2>2. <<x, y>> # <<k, i>>
    BY <1>2, <2>1
  <2>3. u.name[x][y] # Blank /\ a = <<u.name[x][y], x, u.val[x][y]>>
    BY <2>1, <2>2 DEF Beside
  <2> QED BY <2>3, MeaningIs
<1>3. <<n, k, v>> \in Meaning(u)
  BY MeaningIs
<1> QED BY <1>1, <1>2, <1>3 DEF Named

\* The slot that has the name is freed.
LEMMA MeaningErased ==
  ASSUME NEW vs, NEW u, NEW k \in Kinds, NEW i \in 1..Slots, NEW n,
         n # Blank, Beside(vs, u, <<k, i>>), Alone(vs, n, <<k, i>>),
         vs.name[k][i] = n, u.name[k][i] = Blank
  PROVE  Meaning(u) = Meaning(vs) \ Named(Meaning(vs), n)
<1>1. ASSUME NEW a \in Meaning(u)
      PROVE  a \in Meaning(vs) \ Named(Meaning(vs), n)
  <2>1. PICK x \in Kinds, y \in 1..Slots :
          u.name[x][y] # Blank /\ a = <<u.name[x][y], x, u.val[x][y]>>
    BY MeaningIs
  <2>2. <<x, y>> # <<k, i>>
    BY <2>1
  <2>3. vs.name[x][y] # Blank /\ a = <<vs.name[x][y], x, vs.val[x][y]>>
    BY <2>1, <2>2 DEF Beside
  <2>4. a \in Meaning(vs)
    BY <2>3, MeaningIs
  <2>5. a[1] # n
    BY <2>3, <2>2 DEF Alone
  <2> QED BY <2>4, <2>5 DEF Named
<1>2. ASSUME NEW a \in Meaning(vs), a[1] # n
      PROVE  a \in Meaning(u)
  <2>1. PICK x \in Kinds, y \in 1..Slots :
          vs.name[x][y] # Blank /\ a = <<vs.name[x][y], x, vs.val[x][y]>>
    BY MeaningIs
  <2>2. <<x, y>> # <<k, i>>
    BY <1>2, <2>1
  <2>3. u.name[x][y] # Blank /\ a = <<u.name[x][y], x, u.val[x][y]>>
    BY <2>1, <2>2 DEF Beside
  <2> QED BY <2>3, MeaningIs
<1> QED BY <1>1, <1>2 DEF Named

\* The attribute that has the name keeps its kind; a new one has that of the value.
LEMMA AppliedOld ==
  ASSUME NEW vs, NEW k \in Kinds, NEW i \in 1..Slots, NEW n, NEW v,
         n # Blank, Alone(vs, n, <<k, i>>), vs.name[k][i] = n
  PROVE  Applied(Meaning(vs), <<n, v>>) =
           (Meaning(vs) \ Named(Meaning(vs), n)) \cup IF v = Empty THEN {} ELSE {<<n, k, v>>}
<1> DEFINE old == Named(Meaning(vs), n)
<1>1. ASSUME NEW a \in old PROVE a[2] = k
  <2>1. PICK x \in Kinds, y \in 1..Slots :
          vs.name[x][y] # Blank /\ a = <<vs.name[x][y], x, vs.val[x][y]>>
    BY MeaningIs DEF Named
  <2>2. <<x, y>> = <<k, i>>
    BY <2>1 DEF Named, Alone
  <2> QED BY <2>1, <2>2
<1>2. <<n, k, vs.val[k][i]>> \in Meaning(vs)
  BY MeaningIs
<1>3. <<n, k, vs.val[k][i]>> \in old
  BY <1>2 DEF Named
<1>4. (CHOOSE a \in old : TRUE)[2] = k
  BY <1>1, <1>3
<1> HIDE DEF old
<1>5. old = {a \in Meaning(vs) : a[1] = n}
  BY DEF old, Named
<1>6. Applied(Meaning(vs), <<n, v>>) =
        LET kind == IF old = {} THEN KindOf(v) ELSE (CHOOSE a \in old : TRUE)[2]
        IN  (Meaning(vs) \ old) \cup IF v = Empty THEN {} ELSE {<<n, kind, v>>}
  BY <1>5 DEF Applied
<1> QED BY <1>3, <1>4, <1>6 DEF old

\* No attribute has the name.
LEMMA AppliedNew ==
  ASSUME NEW vs, NEW n, NEW v, n # Blank,
         \A x \in Kinds, y \in 1..Slots : vs.name[x][y] # n
  PROVE  /\ Named(Meaning(vs), n) = {}
         /\ Applied(Meaning(vs), <<n, v>>) =
              Meaning(vs) \cup IF v = Empty THEN {} ELSE {<<n, KindOf(v), v>>}
<1>1. ASSUME NEW a \in Meaning(vs) PROVE a[1] # n
  <2>1. PICK x \in Kinds, y \in 1..Slots :
          vs.name[x][y] # Blank /\ a = <<vs.name[x][y], x, vs.val[x][y]>>
    BY MeaningIs
  <2> QED BY <2>1
<1>2. Named(Meaning(vs), n) = {}
  BY <1>1 DEF Named
<1>3. {a \in Meaning(vs) : a[1] = n} = {}
  BY <1>1
<1> QED BY <1>2, <1>3 DEF Applied

------------------------------------------------------------------------------
(* One change.                                                               *)

\* A structure u that a change of vs gives.
Stepped(vs, u, n, v) ==
  /\ Matrices(u)
  /\ Rows(u) => Rows(vs)
  /\ Rows(u) /\ Good(vs) => Good(u) /\ Meaning(u) = Applied(Meaning(vs), <<n, v>>)

\* Apart, slot by slot.
LEMMA ApartIs ==
  ASSUME NEW vs
  PROVE  Apart(vs) <=> \A x \in Kinds, y \in 1..Slots, p \in Kinds, q \in 1..Slots :
           vs.name[x][y] # Blank /\ vs.name[x][y] = vs.name[p][q] => x = p /\ y = q
<1>1. ASSUME Apart(vs), NEW x \in Kinds, NEW y \in 1..Slots, NEW p \in Kinds, NEW q \in 1..Slots,
             vs.name[x][y] # Blank, vs.name[x][y] = vs.name[p][q]
      PROVE  x = p /\ y = q
  <2>1. <<x, y>> \in InUse(vs) /\ <<p, q>> \in InUse(vs)
    BY <1>1 DEF InUse
  <2>2. <<x, y>> = <<p, q>>
    BY <1>1, <2>1 DEF Apart
  <2> QED BY <2>2
<1>2. ASSUME \A x \in Kinds, y \in 1..Slots, p \in Kinds, q \in 1..Slots :
               vs.name[x][y] # Blank /\ vs.name[x][y] = vs.name[p][q] => x = p /\ y = q,
             NEW s \in InUse(vs), NEW t \in InUse(vs),
             vs.name[s[1]][s[2]] = vs.name[t[1]][t[2]]
      PROVE  s = t
  <2>1. /\ s \in Kinds \X (1..Slots) /\ t \in Kinds \X (1..Slots)
        /\ vs.name[s[1]][s[2]] # Blank
    BY DEF InUse
  <2>2. s[1] = t[1] /\ s[2] = t[2]
    BY <1>2, <2>1
  <2> QED BY <2>1, <2>2
<1> QED BY <1>1, <1>2 DEF Apart

\* A value for an attribute that exists.
LEMMA Assigned ==
  ASSUME NEW vs, Matrices(vs), NEW k \in Kinds, NEW i \in 1..Slots, NEW n, NEW v \in Words,
         n # Blank, vs.name[k][i] = n, v # Empty, NEW u, u = Set(vs, k, i, v)
  PROVE  Stepped(vs, u, n, v)
<1>1. /\ Matrices(u) /\ u.name = vs.name
      /\ \A x \in Kinds : x # k => u.val[x] = vs.val[x]
      /\ Rows(u) => Rows(vs) /\ u.val[k][i] = v /\ (k \in Numbers => i = 1)
      /\ k = "str" => \A y \in 1..Slots : y # i => u.val[k][y] = vs.val[k][y]
  BY ValuePut
<1>2. ASSUME Rows(u), Good(vs)
      PROVE  Good(u) /\ Meaning(u) = Applied(Meaning(vs), <<n, v>>)
  <2>1. FirstOnly(vs) /\ Apart(vs)
    BY <1>2 DEF Good
  <2>2. FirstOnly(u) /\ Apart(u)
    BY <1>1, <2>1 DEF FirstOnly, Apart, InUse
  <2>3. Beside(vs, u, <<k, i>>)
    <3> SUFFICES ASSUME NEW x \in Kinds, NEW y \in 1..Slots, <<x, y>> # <<k, i>>, u.name[x][y] # Blank
                 PROVE  u.val[x][y] = vs.val[x][y]
      BY <1>1 DEF Beside
    <3>1. CASE x # k
      BY <3>1, <1>1
    <3>2. CASE x = k /\ k = "str"
      BY <3>2, <1>1
    <3>3. CASE x = k /\ k \in Numbers
      <4>1. i = 1 /\ y = 1
        BY <3>3, <1>1, <1>2, <2>1 DEF FirstOnly
      <4> QED BY <4>1, <3>3
    <3> QED BY <3>1, <3>2, <3>3, KindsAre
  <2>4. Alone(vs, n, <<k, i>>)
    BY <2>1, ApartIs DEF Alone
  <2>5. Meaning(u) = (Meaning(vs) \ Named(Meaning(vs), n)) \cup {<<n, k, v>>}
    <3>1. u.name[k][i] = n /\ u.val[k][i] = v
      BY <1>1, <1>2
    <3> QED BY <2>3, <2>4, <3>1, MeaningPut
  <2>6. Applied(Meaning(vs), <<n, v>>) = (Meaning(vs) \ Named(Meaning(vs), n)) \cup {<<n, k, v>>}
    BY <2>4, AppliedOld
  <2> QED BY <1>1, <1>2, <2>2, <2>5, <2>6 DEF Good
<1> QED BY <1>1, <1>2 DEF Stepped

\* An attribute that is deleted.
LEMMA Deleted ==
  ASSUME NEW vs, Matrices(vs), NEW k \in Kinds, NEW i \in 1..Slots, NEW n,
         n # Blank, vs.name[k][i] = n, NEW u, u = Erase(vs, k, i)
  PROVE  Stepped(vs, u, n, Empty)
<1>1. /\ Matrices(u)
      /\ \A x \in Kinds, y \in 1..Slots :
           u.name[x][y] = IF x = k /\ y = i THEN Blank ELSE vs.name[x][y]
      /\ \A x \in Kinds : Len(u.val[x]) = Len(vs.val[x])
      /\ \A x \in Kinds, y \in 1..Slots :
           ~(x = k /\ y = i) => u.val[x][y] = vs.val[x][y]
  BY SlotErased
<1>2. Rows(u) => Rows(vs)
  BY <1>1, KindsAre DEF Rows
<1>3. ASSUME Rows(u), Good(vs)
      PROVE  Good(u) /\ Meaning(u) = Applied(Meaning(vs), <<n, Empty>>)
  <2>1. FirstOnly(vs) /\ Apart(vs)
    BY <1>3 DEF Good
  <2>2. FirstOnly(u)
    BY <1>1, <2>1, KindsAre DEF FirstOnly
  <2>3. Apart(u)
    <3> SUFFICES ASSUME NEW x \in Kinds, NEW y \in 1..Slots, NEW p \in Kinds, NEW q \in 1..Slots,
                        u.name[x][y] # Blank, u.name[x][y] = u.name[p][q]
                 PROVE  x = p /\ y = q
      BY ApartIs
    <3>1. /\ vs.name[x][y] = u.name[x][y] /\ vs.name[p][q] = u.name[p][q]
      BY <1>1
    <3> QED BY <3>1, <2>1, ApartIs
  <2>4. Beside(vs, u, <<k, i>>)
    BY <1>1 DEF Beside
  <2>5. Alone(vs, n, <<k, i>>)
    BY <2>1, ApartIs DEF Alone
  <2>6. Meaning(u) = Meaning(vs) \ Named(Meaning(vs), n)
    <3>1. u.name[k][i] = Blank
      BY <1>1
    <3> QED BY <2>4, <2>5, <3>1, MeaningErased
  <2>7. Applied(Meaning(vs), <<n, Empty>>) = Meaning(vs) \ Named(Meaning(vs), n)
    BY <2>5, AppliedOld
  <2> QED BY <1>1, <1>3, <2>2, <2>3, <2>6, <2>7 DEF Good
<1> QED BY <1>1, <1>2, <1>3 DEF Stepped

\* A new attribute.
LEMMA Created ==
  ASSUME NEW vs, Matrices(vs), NEW k \in Kinds, NEW i \in 1..Slots, NEW n \in Words, NEW v \in Words,
         n # Blank, vs.name[k][i] = Blank, v # Empty, k = KindOf(v),
         \A x \in Kinds, y \in 1..Slots : vs.name[x][y] # n,
         NEW u, u = Set(WithName(vs, k, i, n), k, i, v)
  PROVE  Stepped(vs, u, n, v)
<1> PICK t : t = WithName(vs, k, i, n)
  OBVIOUS
<1>0. vs \in Structures
  BY DEF Matrices
<1>1. /\ t \in Structures
      /\ t.val = vs.val
      /\ \A x \in Kinds, y \in 1..Slots :
           t.name[x][y] = IF x = k /\ y = i THEN n ELSE vs.name[x][y]
  <2>1. k \in Kinds /\ i \in 1..Slots /\ n \in Words /\ t = WithName(vs, k, i, n)
    OBVIOUS
  <2> QED BY ONLY <1>0, <2>1, NameSet
<1>2. Matrices(t)
  BY <1>1 DEF Matrices
<1>3. u = Set(t, k, i, v)
  OBVIOUS
<1>4. /\ Matrices(u) /\ u.name = t.name
      /\ \A x \in Kinds : x # k => u.val[x] = t.val[x]
      /\ Rows(u) => Rows(t) /\ u.val[k][i] = v /\ (k \in Numbers => i = 1)
      /\ k = "str" => \A y \in 1..Slots : y # i => u.val[k][y] = t.val[k][y]
  <2>1. k \in Kinds /\ i \in 1..Slots /\ v \in Words
    OBVIOUS
  <2> QED BY ONLY <1>2, <1>3, <2>1, ValuePut
<1>5. Rows(t) => Rows(vs)
  BY <1>1 DEF Rows
<1>6. ASSUME Rows(u), Good(vs)
      PROVE  Good(u) /\ Meaning(u) = Applied(Meaning(vs), <<n, v>>)
  <2>1. FirstOnly(vs) /\ Apart(vs)
    BY <1>6 DEF Good
  <2>2. FirstOnly(u)
    BY <1>1, <1>4, <1>6, <2>1, KindsAre DEF FirstOnly
  <2>3. Apart(u)
    <3> SUFFICES ASSUME NEW x \in Kinds, NEW y \in 1..Slots, NEW p \in Kinds, NEW q \in 1..Slots,
                        u.name[x][y] # Blank, u.name[x][y] = u.name[p][q]
                 PROVE  x = p /\ y = q
      BY ApartIs
    <3>0. \A a \in Kinds, b \in 1..Slots : u.name[a][b] = n => a = k /\ b = i
      BY <1>1, <1>4
    <3>1. CASE u.name[x][y] = n
      <4>1. x = k /\ y = i
        BY <3>0, <3>1
      <4>2. p = k /\ q = i
        BY <3>0, <3>1
      <4> QED BY <4>1, <4>2
    <3>2. CASE u.name[x][y] # n
      <4>1. vs.name[x][y] = u.name[x][y] /\ vs.name[p][q] = u.name[p][q]
        BY <3>2, <1>1, <1>4
      <4> QED BY <4>1, <2>1, ApartIs
    <3> QED BY <3>1, <3>2
  <2>4. Beside(vs, u, <<k, i>>)
    <3> SUFFICES ASSUME NEW x \in Kinds, NEW y \in 1..Slots, <<x, y>> # <<k, i>>
                 PROVE  /\ u.name[x][y] = vs.name[x][y]
                        /\ u.name[x][y] # Blank => u.val[x][y] = vs.val[x][y]
      BY DEF Beside
    <3>1. u.name[x][y] = vs.name[x][y]
      BY <1>1, <1>4
    <3>2. ASSUME u.name[x][y] # Blank PROVE u.val[x][y] = vs.val[x][y]
      <4>1. CASE x # k
        BY <4>1, <1>1, <1>4
      <4>2. CASE x = k /\ k = "str"
        BY <4>2, <1>1, <1>4
      <4>3. CASE x = k /\ k \in Numbers
        <5>1. i = 1 /\ y = 1
          BY <4>3, <3>1, <3>2, <1>4, <1>6, <2>1 DEF FirstOnly
        <5> QED BY <5>1, <4>3
      <4> QED BY <4>1, <4>2, <4>3, KindsAre
    <3> QED BY <3>1, <3>2
  <2>5. Alone(vs, n, <<k, i>>)
    BY DEF Alone
  <2>6. Meaning(u) = (Meaning(vs) \ Named(Meaning(vs), n)) \cup {<<n, k, v>>}
    <3>1. u.name[k][i] = n /\ u.val[k][i] = v
      BY <1>1, <1>4, <1>6
    <3>2. k \in Kinds /\ i \in 1..Slots /\ n # Blank /\ vs.name[k][i] \in {Blank, n}
      OBVIOUS
    <3> QED BY ONLY <2>4, <2>5, <3>1, <3>2, MeaningPut
  <2>7. /\ Named(Meaning(vs), n) = {}
        /\ Applied(Meaning(vs), <<n, v>>) = Meaning(vs) \cup {<<n, k, v>>}
    BY AppliedNew
  <2> QED BY <1>4, <1>6, <2>2, <2>3, <2>6, <2>7 DEF Good
<1> QED BY <1>4, <1>5, <1>6 DEF Stepped

\* A change that is not refused.
LEMMA Changes ==
  ASSUME NEW vs, Matrices(vs), NEW pair \in Names \X Values,
         Change(Done(vs), pair) # Refusal
  PROVE  \E u : Change(Done(vs), pair) = Done(u) /\ Stepped(vs, u, pair[1], pair[2])
<1> PICK n \in Names, v \in Values : pair = <<n, v>>
  OBVIOUS
<1>0. /\ n # Blank /\ n \in Words /\ pair[1] = n /\ pair[2] = v
      /\ v \notin {Empty, Invalid} => v \in Words
  BY ListsAssumption DEF Words, Values
<1> DEFINE w == Where(vs, n, v)
<1>1. Change(Done(vs), pair) =
        IF w = {} THEN Create(vs, n, v)
        ELSE IF Cardinality(w) > 1 THEN Refusal
        ELSE LET s == CHOOSE x \in w : TRUE IN Assign(vs, s[1], s[2], v)
  BY <1>0 DEF Change, Done
<1>2. CASE w = {}
  <2>1. Create(vs, n, v) # Refusal /\ Change(Done(vs), pair) = Create(vs, n, v)
    BY <1>1, <1>2
  <2> DEFINE k == KindOf(v)
             i == Min(Unused(vs, k))
  <2>2. /\ v \notin {Empty, Invalid} /\ Unused(vs, k) # {}
        /\ Create(vs, n, v) = Done(Set(WithName(vs, k, i, n), k, i, v))
    BY <2>1 DEF Create, WithName
  <2>3. k \in Kinds
    BY DEF KindOf, Kinds
  <2>4. i \in Unused(vs, k)
    <3> HIDE DEF k
    <3>1. Unused(vs, k) \in SUBSET Nat
      BY SlotsAssumption DEF Unused
    <3>2. \E x \in Unused(vs, k) : \A y \in Unused(vs, k) : x <= y
      BY <2>2, <3>1, LeastNatural
    <3> QED BY <3>2 DEF Min
  <2> HIDE DEF i
  <2>5. i \in 1..Slots /\ vs.name[k][i] = Blank
    BY <2>4 DEF Unused
  <2>6. \A x \in Kinds, y \in 1..Slots : vs.name[x][y] # n
    <3> SUFFICES ASSUME NEW x \in Kinds, NEW y \in 1..Slots, vs.name[x][y] = n PROVE FALSE
      OBVIOUS
    <3>1. <<x, y>> \in Where(vs, n, v)
      BY DEF Where
    <3> QED BY <3>1, <1>2
  <2> PICK u : u = Set(WithName(vs, k, i, n), k, i, v)
    OBVIOUS
  <2>7. k = KindOf(v)
    OBVIOUS
  <2> HIDE DEF k
  <2>8. v \in Words /\ v # Empty
    BY <1>0, <2>2
  <2>9. u = Set(WithName(vs, k, i, n), k, i, v)
    OBVIOUS
  <2>10. Stepped(vs, u, n, v)
    BY <1>0, <2>3, <2>5, <2>6, <2>7, <2>8, <2>9, Created
  <2> QED BY <1>0, <2>1, <2>2, <2>10
<1>3. CASE w # {}
  <2> DEFINE s == CHOOSE x \in w : TRUE
             k == s[1]
             i == s[2]
  <2>1. Change(Done(vs), pair) = Assign(vs, k, i, v) /\ Assign(vs, k, i, v) # Refusal
    BY <1>1, <1>3
  <2>2. s \in w
    BY <1>3
  <2>3. k \in Kinds /\ i \in 1..Slots /\ vs.name[k][i] = n
    <3> HIDE DEF s
    <3>1. s \in Kinds \X (1..Slots) /\ vs.name[s[1]][s[2]] = n
      BY <2>2 DEF Where
    <3> QED BY <3>1
  <2> HIDE DEF k, i
  <2>4. CASE v = Empty
    <3> PICK u : u = Erase(vs, k, i)
      OBVIOUS
    <3>1. u = Erase(vs, k, i)
      OBVIOUS
    <3>2. Stepped(vs, u, n, Empty)
      BY <1>0, <2>3, <3>1, Deleted
    <3> QED BY <1>0, <2>1, <2>4, <3>1, <3>2 DEF Assign
  <2>5. CASE v # Empty
    <3> PICK u : u = Set(vs, k, i, v)
      OBVIOUS
    <3>1. u = Set(vs, k, i, v)
      OBVIOUS
    <3>2. v # Invalid /\ Assign(vs, k, i, v) = Done(u)
      BY <2>1, <2>5, <3>1 DEF Assign
    <3>3. v \in Words
      BY <1>0, <2>5, <3>2
    <3>4. Stepped(vs, u, n, v)
      BY <1>0, <2>3, <2>5, <3>1, <3>3, Assigned
    <3> QED BY <1>0, <2>1, <3>2, <3>4
  <2> QED BY <2>4, <2>5
<1> QED BY <1>2, <1>3

\* All the changes of a call.  As the matrices of numbers never lose a row, one that is a
\* row in the end was one all the time.
LEMMA AllChanges ==
  ASSUME NEW vs, Matrices(vs), NEW list \in Seq(Names \X Values), Changed(vs, list) # Refusal
  PROVE  \E u : /\ Changed(vs, list) = Done(u)
                /\ Matrices(u)
                /\ Rows(u) => Rows(vs)
                /\ Rows(u) /\ Good(vs) => Good(u) /\ Meaning(u) = Asked(Meaning(vs), list)
<1> DEFINE c == ChangedUpTo(vs, list)
           a == AskedUpTo(Meaning(vs), list)
           Fine(n) == c[n] # Refusal =>
                        \E u : /\ c[n] = Done(u)
                               /\ Matrices(u)
                               /\ Rows(u) => Rows(vs)
                               /\ Rows(u) /\ Good(vs) => Good(u) /\ Meaning(u) = a[n]
           Bad == {n \in 0..Len(list) : ~Fine(n)}
<1>0. /\ c[0] = Done(vs)
      /\ \A n \in 1..Len(list) : c[n] = Change(c[n - 1], list[n])
      /\ Changed(vs, list) = c[Len(list)]
  BY ChangedSteps
<1>1. /\ a[0] = Meaning(vs)
      /\ \A n \in 1..Len(list) : a[n] = Applied(a[n - 1], list[n])
      /\ Asked(Meaning(vs), list) = a[Len(list)]
  BY AskedSteps
<1>2. Len(list) \in Nat /\ \A n \in 1..Len(list) : list[n] \in Names \X Values
  OBVIOUS
<1> HIDE DEF c, a
<1>3. Fine(0)
  BY <1>0, <1>1
<1>4. ASSUME NEW n \in 1..Len(list), Fine(n - 1) PROVE Fine(n)
  <2> SUFFICES ASSUME c[n] # Refusal
               PROVE  \E u : /\ c[n] = Done(u)
                             /\ Matrices(u)
                             /\ Rows(u) => Rows(vs)
                             /\ Rows(u) /\ Good(vs) => Good(u) /\ Meaning(u) = a[n]
    OBVIOUS
  <2>1. c[n] = Change(c[n - 1], list[n]) /\ a[n] = Applied(a[n - 1], list[n])
    BY <1>0, <1>1
  <2>2. c[n - 1] # Refusal
    BY <2>1 DEF Change, Refusal
  <2>3. PICK t : /\ c[n - 1] = Done(t)
                 /\ Matrices(t)
                 /\ Rows(t) => Rows(vs)
                 /\ Rows(t) /\ Good(vs) => Good(t) /\ Meaning(t) = a[n - 1]
    <3>1. Fine(n - 1)
      BY <1>4
    <3> QED BY <2>2, <3>1 DEF Fine
  <2> PICK pair \in Names \X Values : pair = list[n]
    BY <1>2
  <2>4. pair = list[n] /\ pair = <<pair[1], pair[2]>>
    OBVIOUS
  <2>5. Change(Done(t), pair) = c[n]
    BY <2>1, <2>3
  <2>6. PICK u : c[n] = Done(u) /\ Stepped(t, u, pair[1], pair[2])
    BY <2>3, <2>5, Changes
  <2>7. Matrices(u) /\ (Rows(u) => Rows(vs))
    BY <2>3, <2>6 DEF Stepped
  <2>8. ASSUME Rows(u), Good(vs) PROVE Good(u) /\ Meaning(u) = a[n]
    <3>1. Rows(t)
      BY <2>6, <2>8 DEF Stepped
    <3>2. Good(t) /\ Meaning(t) = a[n - 1]
      BY <2>3, <2>8, <3>1
    <3>3. Good(u) /\ Meaning(u) = Applied(Meaning(t), pair)
      BY <2>4, <2>6, <2>8, <3>2 DEF Stepped
    <3> QED BY <2>1, <2>4, <3>2, <3>3
  <2> QED BY <2>6, <2>7, <2>8
<1> HIDE DEF Fine
<1>5. ASSUME Bad # {} PROVE FALSE
  <2>1. Bad \in SUBSET Nat
    OBVIOUS
  <2>2. PICK n \in Bad : \A m \in Bad : n <= m
    BY <1>5, <2>1, LeastNatural
  <2>3. n # 0
    BY <1>3
  <2>4. n \in 1..Len(list) /\ n - 1 \in 0..Len(list)
    BY <1>2, <2>3
  <2>5. n - 1 \notin Bad
    BY <2>1, <2>2
  <2>6. Fine(n)
    BY <1>4, <2>4, <2>5
  <2> QED BY <2>6
<1>6. Fine(Len(list))
  <2>1. Len(list) \notin Bad /\ Len(list) \in 0..Len(list)
    BY ONLY <1>2, <1>5
  <2> QED BY ONLY <2>1, Zenon
<1> QED BY <1>0, <1>1, <1>6 DEF Fine

------------------------------------------------------------------------------
(* The fields in the file.                                                   *)

\* w is a field b behind L words a.
IsAppended(w, a, b, L) ==
  /\ w \in Seq(Words) /\ Len(w) = L + Slots
  /\ \A y \in 1..L : w[y] = a[y]
  /\ \A y \in 1..Slots : w[L + y] = b[y]

\* Concatenation.
LEMMA Appended ==
  ASSUME NEW a \in Seq(Words), NEW b \in Seq(Words), NEW L \in Nat, Len(a) = L, Len(b) = Slots
  PROVE  IsAppended(a \o b, a, b, L)
<1>0. Slots \in Nat
  BY SlotsAssumption
<1> PICK w : w = a \o b
  OBVIOUS
<1>1. w \in Seq(Words) /\ Len(w) = L + Slots
  OBVIOUS
<1>2. \A y \in 1..(L + Slots) : w[y] = IF y <= L THEN a[y] ELSE b[y - L]
  OBVIOUS
<1>3. \A y \in 1..L : w[y] = a[y]
  BY <1>0, <1>2
<1>4. ASSUME NEW y \in 1..Slots PROVE w[L + y] = b[y]
  <2>1. L + y \in 1..(L + Slots) /\ ~(L + y <= L) /\ (L + y) - L = y
    BY <1>0
  <2> QED BY <1>2, <2>1
<1> QED BY <1>1, <1>3, <1>4 DEF IsAppended

IsField(s) == s \in Seq(Words) /\ Len(s) = Slots

\* w holds six fields one behind the other.
IsJoined(w, a, b, c, d, e, f) ==
  \A y \in 1..Slots : /\ w[y] = a[y]
                      /\ w[Slots + y] = b[y]
                      /\ w[2 * Slots + y] = c[y]
                      /\ w[3 * Slots + y] = d[y]
                      /\ w[4 * Slots + y] = e[y]
                      /\ w[5 * Slots + y] = f[y]

\* Six fields, one behind the other.
LEMMA Joined ==
  ASSUME NEW a, NEW b, NEW c, NEW d, NEW e, NEW f,
         IsField(a), IsField(b), IsField(c), IsField(d), IsField(e), IsField(f),
         NEW w, w = a \o b \o c \o d \o e \o f
  PROVE  w \in Seq(Words) /\ Len(w) = 6 * Slots /\ IsJoined(w, a, b, c, d, e, f)
<1>0. Slots \in Nat
  BY SlotsAssumption
<1> PICK w2 : w2 = a \o b
  OBVIOUS
<1> PICK w3 : w3 = w2 \o c
  OBVIOUS
<1> PICK w4 : w4 = w3 \o d
  OBVIOUS
<1> PICK w5 : w5 = w4 \o e
  OBVIOUS
<1>1. IsAppended(w2, a, b, Slots)
  <2>1. /\ a \in Seq(Words) /\ Len(a) = Slots /\ Slots \in Nat
        /\ b \in Seq(Words) /\ Len(b) = Slots /\ w2 = a \o b
    BY <1>0 DEF IsField
  <2> QED BY ONLY <2>1, Appended
<1>2. IsAppended(w3, w2, c, 2 * Slots)
  <2>1. /\ w2 \in Seq(Words) /\ Len(w2) = 2 * Slots /\ 2 * Slots \in Nat
        /\ c \in Seq(Words) /\ Len(c) = Slots /\ w3 = w2 \o c
    BY <1>1, <1>0 DEF IsField, IsAppended
  <2> QED BY ONLY <2>1, Appended
<1>3. IsAppended(w4, w3, d, 3 * Slots)
  <2>1. /\ w3 \in Seq(Words) /\ Len(w3) = 3 * Slots /\ 3 * Slots \in Nat
        /\ d \in Seq(Words) /\ Len(d) = Slots /\ w4 = w3 \o d
    BY <1>2, <1>0 DEF IsField, IsAppended
  <2> QED BY ONLY <2>1, Appended
<1>4. IsAppended(w5, w4, e, 4 * Slots)
  <2>1. /\ w4 \in Seq(Words) /\ Len(w4) = 4 * Slots /\ 4 * Slots \in Nat
        /\ e \in Seq(Words) /\ Len(e) = Slots /\ w5 = w4 \o e
    BY <1>3, <1>0 DEF IsField, IsAppended
  <2> QED BY ONLY <2>1, Appended
<1>5. IsAppended(w, w5, f, 5 * Slots)
  <2>1. /\ w5 \in Seq(Words) /\ Len(w5) = 5 * Slots /\ 5 * Slots \in Nat
        /\ f \in Seq(Words) /\ Len(f) = Slots /\ w = w5 \o f
    BY <1>4, <1>0 DEF IsField, IsAppended
  <2> QED BY ONLY <2>1, Appended
<1>6. ASSUME NEW y \in 1..Slots
      PROVE  /\ w[y] = a[y] /\ w[Slots + y] = b[y] /\ w[2 * Slots + y] = c[y]
             /\ w[3 * Slots + y] = d[y] /\ w[4 * Slots + y] = e[y] /\ w[5 * Slots + y] = f[y]
  <2>0. y \in 1..Slots
    OBVIOUS
  <2>1. w[y] = a[y]
    <3>1. y \in 1..(Slots) /\ y \in 1..(2 * Slots) /\ y \in 1..(3 * Slots)
          /\ y \in 1..(4 * Slots) /\ y \in 1..(5 * Slots)
      BY ONLY <1>0, <2>0
    <3> QED BY ONLY <2>0, <3>1, <1>1, <1>2, <1>3, <1>4, <1>5 DEF IsAppended
  <2>2. w[Slots + y] = b[y]
    <3>1. Slots + y \in 1..(2 * Slots) /\ Slots + y \in 1..(3 * Slots) /\ Slots + y \in 1..(4 * Slots)
          /\ Slots + y \in 1..(5 * Slots)
      BY ONLY <1>0, <2>0
    <3> QED BY ONLY <2>0, <3>1, <1>1, <1>2, <1>3, <1>4, <1>5 DEF IsAppended
  <2>3. w[2 * Slots + y] = c[y]
    <3>1. 2 * Slots + y \in 1..(3 * Slots) /\ 2 * Slots + y \in 1..(4 * Slots) /\ 2 * Slots + y \in 1..(5 * Slots)
      BY ONLY <1>0, <2>0
    <3> QED BY ONLY <2>0, <3>1, <1>2, <1>3, <1>4, <1>5 DEF IsAppended
  <2>4. w[3 * Slots + y] = d[y]
    <3>1. 3 * Slots + y \in 1..(4 * Slots) /\ 3 * Slots + y \in 1..(5 * Slots)
      BY ONLY <1>0, <2>0
    <3> QED BY ONLY <2>0, <3>1, <1>3, <1>4, <1>5 DEF IsAppended
  <2>5. w[4 * Slots + y] = e[y]
    <3>1. 4 * Slots + y \in 1..(5 * Slots)
      BY ONLY <1>0, <2>0
    <3> QED BY ONLY <2>0, <3>1, <1>4, <1>5 DEF IsAppended
  <2>6. w[5 * Slots + y] = f[y]
    BY ONLY <2>0, <1>5 DEF IsAppended
  <2> QED BY ONLY <2>1, <2>2, <2>3, <2>4, <2>5, <2>6
<1>7. w \in Seq(Words) /\ Len(w) = 6 * Slots
  BY <1>0, <1>5 DEF IsAppended
<1> QED BY <1>6, <1>7 DEF IsJoined

\* A field is the part of the words that it was put in.
LEMMA FieldIs ==
  ASSUME NEW g \in Seq(Words), Len(g) >= 6 * Slots, NEW j \in 1..6, NEW a, IsField(a),
         \A y \in 1..Slots : g[(j - 1) * Slots + y] = a[y]
  PROVE  Field(g, j) = a
<1>0. Slots \in Nat
  BY SlotsAssumption
<1>00. a \in Seq(Words) /\ Len(a) = Slots
  BY DEF IsField
<1> DEFINE m == (j - 1) * Slots + 1
           n == j * Slots
<1>1. n = m + Slots - 1 /\ m \in Nat /\ m >= 1 /\ n \in Nat /\ n <= Len(g)
  <2>1. j = 1 \/ j = 2 \/ j = 3 \/ j = 4 \/ j = 5 \/ j = 6
    OBVIOUS
  <2> QED BY <2>1, <1>0
<1>2. \A y \in 1..Slots : g[m + y - 1] = a[y]
  <2>1. \A y \in 1..Slots : m + y - 1 = (j - 1) * Slots + y
    BY <1>0, <1>1
  <2> QED BY <2>1
<1>3. Field(g, j) = SubSeq(g, m, n)
  BY DEF Field
<1> HIDE DEF m, n
<1>4. /\ SubSeq(g, m, n) \in Seq(Words) /\ Len(SubSeq(g, m, n)) = Slots
      /\ \A y \in 1..Slots : SubSeq(g, m, n)[y] = g[m + y - 1]
  BY <1>0, <1>1
<1>5. \A y \in 1..Slots : SubSeq(g, m, n)[y] = a[y]
  BY <1>2, <1>4
<1> QED BY <1>00, <1>3, <1>4, <1>5, SeqEqual

\* The fields that are written.
LEMMA ImageTyped ==
  ASSUME NEW vs, Matrices(vs), Rows(vs)
  PROVE  Image(vs) \in Seq(Words) /\ Len(Image(vs)) = 6 * Slots
<1>0. Slots \in Nat
  BY SlotsAssumption
<1>1. vs \in Structures
  BY DEF Matrices
<1> PICK a, b, c, d, e, f : /\ a = vs.name["int"] /\ b = vs.val["int"] /\ c = vs.name["real"]
                            /\ d = vs.val["real"] /\ e = vs.name["str"] /\ f = vs.val["str"]
  OBVIOUS
<1>2. IsField(a) /\ IsField(b) /\ IsField(c) /\ IsField(d) /\ IsField(e) /\ IsField(f)
  <2>1. \A k \in Kinds : /\ vs.name[k] \in [1..Slots -> Words]
                        /\ vs.val[k] \in Seq(Words) /\ Len(vs.val[k]) = Slots
    BY <1>1, KindsAre DEF Rows, Matrices, Structures
  <2>2. ASSUME NEW s \in [1..Slots -> Words] PROVE IsField(s)
    BY <1>0 DEF IsField
  <2>3. \A k \in Kinds : IsField(vs.name[k]) /\ IsField(vs.val[k])
    BY <2>1, <2>2 DEF IsField
  <2> QED BY <2>3 DEF Kinds
<1>3. Image(vs) = a \o b \o c \o d \o e \o f
  BY DEF Image
<1> QED BY ONLY <1>2, <1>3, Joined

\* What is written is read back.
LEMMA ReadBack ==
  ASSUME NEW vs, Matrices(vs), Rows(vs), NEW g \in Seq(Words), Len(g) >= 6 * Slots,
         \A i \in 1..(6 * Slots) : g[i] = Image(vs)[i]
  PROVE  Read(g) = vs
<1>0. Slots \in Nat
  BY SlotsAssumption
<1>1. /\ vs.name \in [Kinds -> [1..Slots -> Words]]
      /\ vs.val \in [Kinds -> Seq(Words)]
      /\ vs = [name |-> vs.name, val |-> vs.val]
      /\ \A k \in Kinds : Len(vs.val[k]) = Slots
  BY KindsAre DEF Matrices, Structures, Rows
<1>2. \A k \in Kinds : vs.name[k] \in Seq(Words) /\ Len(vs.name[k]) = Slots
  <2>1. ASSUME NEW t \in [1..Slots -> Words] PROVE t \in Seq(Words) /\ Len(t) = Slots
    BY <1>0
  <2>2. \A k \in Kinds : vs.name[k] \in [1..Slots -> Words]
    BY <1>1
  <2> QED BY ONLY <2>1, <2>2
<1>3. "int" \in Kinds /\ "real" \in Kinds /\ "str" \in Kinds
  BY DEF Kinds
<1> PICK a, b, c, d, e, f : /\ a = vs.name["int"] /\ b = vs.val["int"] /\ c = vs.name["real"]
                            /\ d = vs.val["real"] /\ e = vs.name["str"] /\ f = vs.val["str"]
  OBVIOUS
<1>4. IsField(a) /\ IsField(b) /\ IsField(c) /\ IsField(d) /\ IsField(e) /\ IsField(f)
  BY <1>1, <1>2, <1>3 DEF IsField
<1> PICK w : w = a \o b \o c \o d \o e \o f
  OBVIOUS
<1>5. Image(vs) = w
  BY DEF Image
<1>6. w = a \o b \o c \o d \o e \o f
  OBVIOUS
<1>7. w \in Seq(Words) /\ Len(w) = 6 * Slots /\ IsJoined(w, a, b, c, d, e, f)
  BY ONLY <1>4, <1>6, Joined
<1>8. \A i \in 1..(6 * Slots) : g[i] = w[i]
  BY <1>5
<1>9. IsJoined(g, a, b, c, d, e, f)
  <2> SUFFICES ASSUME NEW y \in 1..Slots
               PROVE  /\ g[y] = a[y] /\ g[Slots + y] = b[y] /\ g[2 * Slots + y] = c[y]
                      /\ g[3 * Slots + y] = d[y] /\ g[4 * Slots + y] = e[y] /\ g[5 * Slots + y] = f[y]
    BY DEF IsJoined
  <2>0. y \in 1..Slots
    OBVIOUS
  <2>1. /\ y \in 1..(6 * Slots) /\ Slots + y \in 1..(6 * Slots)
        /\ 2 * Slots + y \in 1..(6 * Slots) /\ 3 * Slots + y \in 1..(6 * Slots)
        /\ 4 * Slots + y \in 1..(6 * Slots) /\ 5 * Slots + y \in 1..(6 * Slots)
    BY ONLY <1>0, <2>0
  <2> QED BY ONLY <1>7, <1>8, <2>0, <2>1 DEF IsJoined
<1>10. /\ Field(g, 1) = a /\ Field(g, 2) = b /\ Field(g, 3) = c
       /\ Field(g, 4) = d /\ Field(g, 5) = e /\ Field(g, 6) = f
  <2>0. g \in Seq(Words) /\ Len(g) >= 6 * Slots /\ \A j \in {1, 2, 3, 4, 5, 6} : j \in 1..6
    OBVIOUS
  <2>1. Field(g, 1) = a
    <3>1. \A y \in 1..Slots : g[(1 - 1) * Slots + y] = a[y]
      BY ONLY <1>0, <1>9 DEF IsJoined
    <3> QED BY ONLY <1>4, <2>0, <3>1, FieldIs
  <2>2. Field(g, 2) = b
    <3>1. \A y \in 1..Slots : g[(2 - 1) * Slots + y] = b[y]
      BY ONLY <1>0, <1>9 DEF IsJoined
    <3> QED BY ONLY <1>4, <2>0, <3>1, FieldIs
  <2>3. Field(g, 3) = c
    <3>1. \A y \in 1..Slots : g[(3 - 1) * Slots + y] = c[y]
      BY ONLY <1>0, <1>9 DEF IsJoined
    <3> QED BY ONLY <1>4, <2>0, <3>1, FieldIs
  <2>4. Field(g, 4) = d
    <3>1. \A y \in 1..Slots : g[(4 - 1) * Slots + y] = d[y]
      BY ONLY <1>0, <1>9 DEF IsJoined
    <3> QED BY ONLY <1>4, <2>0, <3>1, FieldIs
  <2>5. Field(g, 5) = e
    <3>1. \A y \in 1..Slots : g[(5 - 1) * Slots + y] = e[y]
      BY ONLY <1>0, <1>9 DEF IsJoined
    <3> QED BY ONLY <1>4, <2>0, <3>1, FieldIs
  <2>6. Field(g, 6) = f
    <3>1. \A y \in 1..Slots : g[(6 - 1) * Slots + y] = f[y]
      BY ONLY <1>0, <1>9 DEF IsJoined
    <3> QED BY ONLY <1>4, <2>0, <3>1, FieldIs
  <2> QED BY <2>1, <2>2, <2>3, <2>4, <2>5, <2>6
<1>11. vs.name = [int |-> a, real |-> c, str |-> e]
  BY <1>1 DEF Kinds
<1>12. vs.val = [int |-> b, real |-> d, str |-> f]
  BY <1>1 DEF Kinds
<1>13. Read(g) = [name |-> [int |-> a, real |-> c, str |-> e], val |-> [int |-> b, real |-> d, str |-> f]]
  BY <1>10 DEF Read
<1>14. Read(g) = vs
  BY ONLY <1>1, <1>11, <1>12, <1>13
<1> QED BY <1>14

\* The fields are written over the words in front of the data, which stay.
LEMMA Written ==
  ASSUME NEW f \in Seq(Words), Len(f) = 6 * Slots + Len(Behind),
         SubSeq(f, 6 * Slots + 1, Len(f)) = Behind,
         NEW vs, Matrices(vs), Rows(vs), NEW g, g = Overwrite(f, Image(vs))
  PROVE  /\ g \in Seq(Words) /\ Len(g) = Len(f)
         /\ SubSeq(g, 6 * Slots + 1, Len(g)) = Behind
         /\ Read(g) = vs
<1>0. Slots \in Nat /\ Len(Behind) \in Nat /\ Behind \in Seq(Range(Behind))
  BY SlotsAssumption, BehindAssumption
<1> PICK w : w = Image(vs)
  OBVIOUS
<1>1. w \in Seq(Words) /\ Len(w) = 6 * Slots
  BY ImageTyped
<1>2. Max({Len(f), Len(w)}) = Len(f)
  <2>1. ASSUME NEW x \in Int, NEW y \in Int, x >= y PROVE Max({x, y}) = x
    <3>1. x \in {x, y} /\ \A z \in {x, y} : x >= z
      BY <2>1
    <3>2. \A t \in {x, y} : (\A z \in {x, y} : t >= z) => t = x
      BY <2>1
    <3> QED BY <3>1, <3>2 DEF Max
  <2>2. Len(f) \in Int /\ Len(w) \in Int /\ Len(f) >= Len(w)
    BY <1>0, <1>1
  <2> QED BY ONLY <2>1, <2>2
<1>3. g = [i \in 1..Len(f) |-> IF i <= Len(w) THEN w[i] ELSE f[i]]
  BY <1>2 DEF Overwrite
<1>4. \A i \in 1..Len(f) : (IF i <= Len(w) THEN w[i] ELSE f[i]) \in Words
  BY <1>1
<1>5. g \in Seq(Words) /\ Len(g) = Len(f)
  BY <1>3, <1>4
<1>6. \A i \in 1..(6 * Slots) : g[i] = w[i]
  BY <1>0, <1>1, <1>3
<1>7. Read(g) = vs
  <2>1. Len(g) >= 6 * Slots
    BY <1>0, <1>5
  <2> QED BY <1>5, <1>6, <2>1, ReadBack
<1>8. SubSeq(g, 6 * Slots + 1, Len(g)) = SubSeq(f, 6 * Slots + 1, Len(f))
  <2> PICK m \in Nat : m = 6 * Slots + 1
    BY <1>0
  <2>1. \A i \in m..Len(f) : g[i] = f[i]
    BY <1>0, <1>1, <1>3
  <2> PICK l \in Nat : l = Len(f)
    OBVIOUS
  <2>2. /\ SubSeq(g, m, l) = [i \in 1..(1 + l - m) |-> g[m + i - 1]]
        /\ SubSeq(f, m, l) = [i \in 1..(1 + l - m) |-> f[m + i - 1]]
    BY <1>0, <1>5
  <2>3. \A i \in 1..(1 + l - m) : m + i - 1 \in m..Len(f)
    BY <1>0
  <2>4. \A i \in 1..(1 + l - m) : g[m + i - 1] = f[m + i - 1]
    BY ONLY <2>1, <2>3
  <2>5. SubSeq(g, m, l) = SubSeq(f, m, l)
    BY ONLY <2>2, <2>4
  <2>6. m = 6 * Slots + 1 /\ l = Len(f) /\ l = Len(g)
    BY <1>5
  <2> QED BY ONLY <2>5, <2>6
<1> QED BY <1>5, <1>7, <1>8

------------------------------------------------------------------------------
(* The invariant.                                                            *)

IInv ==
  /\ file \in Seq(Words) /\ Len(file) = 6 * Slots + Len(Behind)
  /\ DataKept
  /\ Good(Read(file)) /\ Meaning(Read(file)) = want
  /\ \A h \in Holders : mem[h] # Closed => Good(mem[h])
  /\ fresh \subseteq Holders
  /\ \A h \in fresh : mem[h] = Read(file)

\* A structure is no <<>>.
LEMMA OpenAndClosed ==
  ASSUME NEW vs, Good(vs)
  PROVE  vs # Closed
<1>1. vs \in Structures
  BY DEF Good, Matrices
<1>2. DOMAIN vs = {"name", "val"} /\ DOMAIN Closed = 1..0
  BY <1>1 DEF Structures, Closed
<1>3. "name" \notin 1..0
  OBVIOUS
<1> QED BY <1>2, <1>3

\* A new group.
LEMMA StartsRight == Init => IInv
<1> SUFFICES ASSUME Init PROVE IInv
  OBVIOUS
<1>0. Slots \in Nat /\ Slots > 0 /\ Len(Behind) \in Nat /\ Behind \in Seq(Words)
  BY SlotsAssumption, BehindAssumption DEF Words
<1> DEFINE names == [i \in 1..Slots |-> Blank]
           zeros == [i \in 1..Slots |-> Zero]
           vs == [name |-> [int |-> names, real |-> names, str |-> names],
                  val |-> [int |-> zeros, real |-> zeros, str |-> names]]
<1>1. IsField(names) /\ IsField(zeros)
  BY <1>0 DEF IsField, Words
<1>2. names \in [1..Slots -> Words]
  BY DEF Words
<1>3. Matrices(vs) /\ Rows(vs)
  <2> HIDE DEF names, zeros
  <2>1. vs \in Structures
    BY <1>1, <1>2 DEF Structures, IsField, Kinds
  <2>2. Len(vs.val["str"]) = Slots /\ \A k \in Numbers : Len(vs.val[k]) = Slots
    BY <1>1 DEF IsField, Numbers
  <2>3. \E q \in Nat \ {0} : Slots = q * Slots
    BY <1>0
  <2> QED BY <2>1, <2>2, <2>3 DEF Matrices, Rows
<1>4. \A k \in Kinds, i \in 1..Slots : vs.name[k][i] = Blank
  <2>1. \A k \in Kinds : vs.name[k] = names
    <3> HIDE DEF names, zeros
    <3> QED BY DEF Kinds
  <2> QED BY <2>1
<1>5. InUse(vs) = {}
  BY <1>4 DEF InUse
<1>6. Meaning(vs) = {}
  BY <1>5 DEF Meaning
<1>7. Good(vs)
  BY <1>3, <1>4, <1>5, KindsAre DEF Good, FirstOnly, Apart
<1>8. file = Image(vs) \o Behind
  BY DEF Init, Image
<1> HIDE DEF vs
<1> PICK u : u = vs
  OBVIOUS
<1>9. Matrices(u) /\ Rows(u) /\ file = Image(u) \o Behind
  BY <1>3, <1>8
<1>10. /\ file \in Seq(Words) /\ Len(file) = 6 * Slots + Len(Behind)
       /\ DataKept /\ Read(file) = u
  <2> PICK w : w = Image(u)
    OBVIOUS
  <2>1. w \in Seq(Words) /\ Len(w) = 6 * Slots /\ file = w \o Behind
    BY <1>9, ImageTyped
  <2>2. file \in Seq(Words) /\ Len(file) = 6 * Slots + Len(Behind)
    <3>1. w \in Seq(Words) /\ Behind \in Seq(Words) /\ file = w \o Behind
      BY <1>0, <2>1
    <3>2. file \in Seq(Words) /\ Len(file) = Len(w) + Len(Behind)
      BY ONLY <3>1
    <3> QED BY <2>1, <3>2
  <2>3. \A i \in 1..(6 * Slots) : file[i] = w[i]
    BY <1>0, <2>1
  <2>4. Read(file) = u
    <3>1. Len(file) >= 6 * Slots
      BY <1>0, <2>2
    <3> QED BY <1>9, <2>2, <2>3, <3>1, ReadBack
  <2>5. DataKept
    <3> PICK m \in Nat : m = 6 * Slots + 1
      BY <1>0
    <3> PICK l \in Nat : l = Len(file)
      BY <2>2
    <3>1. SubSeq(file, m, l) = [i \in 1..(1 + l - m) |-> file[m + i - 1]]
      BY <2>2
    <3>2. 1 + l - m = Len(Behind)
      BY <1>0, <2>2
    <3>3. \A i \in 1..Len(Behind) : file[m + i - 1] = Behind[i]
      BY <1>0, <2>1
    <3>4. SubSeq(file, m, l) = [i \in 1..Len(Behind) |-> Behind[i]]
      BY <3>1, <3>2, <3>3
    <3>5. Behind = [i \in 1..Len(Behind) |-> Behind[i]]
      BY <1>0
    <3> QED BY <3>4, <3>5 DEF DataKept
  <2> QED BY <2>2, <2>4, <2>5
<1> QED BY <1>6, <1>7, <1>10 DEF IInv, Init

\* Reading the file.
LEMMA OpenKeeps ==
  ASSUME IInv, NEW g \in Vars \cup {Nowhere}, Open(g)
  PROVE  IInv'
<1>1. file' = file /\ want' = want
  BY DEF Open
<1>2. ASSUME NEW h \in Holders, mem'[h] # Closed PROVE Good(mem'[h])
  <2>1. mem'[h] = Read(file) \/ mem'[h] = mem[h]
    BY DEF Open
  <2> QED BY <1>2, <2>1 DEF IInv
<1>3. fresh' \subseteq Holders
  BY DEF IInv, Open, Holders
<1>4. ASSUME NEW h \in fresh' PROVE mem'[h] = Read(file)
  BY <1>3 DEF IInv, Open
<1> QED BY <1>1, <1>2, <1>3, <1>4 DEF IInv, DataKept

\* A call that succeeds.
LEMMA PutKeeps ==
  ASSUME IInv, RowsOnly, NEW g \in Vars \cup {Nowhere}, NEW h \in Holders, NEW list \in Lists,
         Put(h, g, list)
  PROVE  IInv'
<1>1. Good(mem[h]) /\ Changed(mem[h], list).ok
  BY DEF IInv, Put
<1> PICK vs : vs = mem[h]
  OBVIOUS
<1>2. /\ Good(vs) /\ Matrices(vs) /\ list \in Seq(Names \X Values)
      /\ Changed(vs, list) # Refusal
  BY <1>1, ListsAssumption DEF Good, Refusal
<1>3. PICK u : /\ Changed(vs, list) = Done(u)
               /\ Matrices(u)
               /\ Rows(u) => Rows(vs)
               /\ Rows(u) /\ Good(vs) => Good(u) /\ Meaning(u) = Asked(Meaning(vs), list)
  BY ONLY <1>2, AllChanges
<1>4. Changed(mem[h], list).vs = u
  BY <1>3 DEF Done
<1>5. Rows(u)
  BY <1>4 DEF RowsOnly, Rows
<1>6. Good(u) /\ Meaning(u) = Asked(Meaning(vs), list)
  BY <1>2, <1>3, <1>5
<1>7. /\ file' = Overwrite(file, Image(u))
      /\ mem' = [x \in Holders |->
                   IF x \in ({g} \ {Nowhere}) \cup ({h} \cap {Keep}) THEN u ELSE mem[x]]
      /\ fresh' = ({g} \ {Nowhere}) \cup ({h} \cap {Keep})
      /\ want' = Asked(Meaning(vs), list)
  BY <1>4 DEF Put
<1>8. /\ file' \in Seq(Words) /\ Len(file') = Len(file)
      /\ SubSeq(file', 6 * Slots + 1, Len(file')) = Behind
      /\ Read(file') = u
  <2>1. /\ file \in Seq(Words) /\ Len(file) = 6 * Slots + Len(Behind)
        /\ SubSeq(file, 6 * Slots + 1, Len(file)) = Behind
    BY DEF IInv, DataKept
  <2> PICK f : f = file
    OBVIOUS
  <2> PICK t : t = file'
    OBVIOUS
  <2>2. /\ f \in Seq(Words) /\ Len(f) = 6 * Slots + Len(Behind)
        /\ SubSeq(f, 6 * Slots + 1, Len(f)) = Behind
        /\ t = Overwrite(f, Image(u))
    BY <1>7, <2>1
  <2>3. /\ t \in Seq(Words) /\ Len(t) = Len(f)
        /\ SubSeq(t, 6 * Slots + 1, Len(t)) = Behind
        /\ Read(t) = u
    BY ONLY <1>3, <1>5, <2>2, Written
  <2> QED BY <2>3
<1>9. ASSUME NEW x \in Holders, mem'[x] # Closed PROVE Good(mem'[x])
  <2>1. mem'[x] = u \/ mem'[x] = mem[x]
    BY <1>7
  <2> QED BY <1>6, <1>9, <2>1 DEF IInv
<1>10. fresh' \subseteq Holders /\ \A x \in fresh' : mem'[x] = u
  BY <1>7 DEF Holders
<1> QED BY <1>6, <1>7, <1>8, <1>9, <1>10 DEF IInv, DataKept

\* A call that is refused.
LEMMA RefusalKeeps ==
  ASSUME IInv, NEW g \in Vars \cup {Nowhere}, NEW h \in Holders, NEW list \in Lists,
         PutRefused(h, g, list)
  PROVE  IInv'
<1>1. file' = file /\ want' = want
  BY DEF PutRefused
<1>2. ASSUME NEW x \in Holders, mem'[x] # Closed PROVE Good(mem'[x])
  <2>1. mem'[x] = mem[h] \/ mem'[x] = mem[x]
    BY DEF PutRefused
  <2> QED BY <1>2, <2>1 DEF IInv
<1>3. fresh' \subseteq Holders
  BY DEF IInv, PutRefused, Holders
<1>4. ASSUME NEW x \in fresh' PROVE mem'[x] = Read(file)
  BY <1>3 DEF IInv, PutRefused
<1> QED BY <1>1, <1>2, <1>3, <1>4 DEF IInv, DataKept

\* As long as the numbers of a kind fit their row, the invariant holds.
LEMMA Keeps == IInv /\ [Next]_vars /\ [RowsOnly]_vars => IInv'
<1> SUFFICES ASSUME IInv, [Next]_vars, [RowsOnly]_vars PROVE IInv'
  OBVIOUS
<1>1. CASE vars' = vars
  BY <1>1 DEF vars, IInv, DataKept
<1>2. CASE Next /\ vars' # vars
  <2>1. RowsOnly
    BY <1>2
  <2>2. PICK g \in Vars \cup {Nowhere} :
          \/ Open(g)
          \/ \E h \in Holders, list \in Lists : Put(h, g, list) \/ PutRefused(h, g, list)
    BY <1>2 DEF Next
  <2>3. CASE Open(g)
    BY <2>3, OpenKeeps
  <2>4. ASSUME NEW h \in Holders, NEW list \in Lists, Put(h, g, list) PROVE IInv'
    BY <2>1, <2>4, PutKeeps
  <2>5. ASSUME NEW h \in Holders, NEW list \in Lists, PutRefused(h, g, list) PROVE IInv'
    BY <2>5, RefusalKeeps
  <2> QED BY <2>2, <2>3, <2>4, <2>5
<1> QED BY <1>1, <1>2

\* The invariant holds as long as no call takes a number to a second slot.
LEMMA Invariant == Spec /\ [][RowsOnly]_vars => []IInv
<1> QED BY StartsRight, Keeps, PTL DEF Spec

------------------------------------------------------------------------------
(* The theorems.                                                             *)

\* The words of the file and the slots of a structure are what vs_use and vs_put take
\* them for, and the file keeps its length.
THEOREM TypesRight == Spec /\ [][RowsOnly]_vars => []TypeOK
<1>1. IInv => TypeOK
  <2> SUFFICES ASSUME IInv PROVE TypeOK
    OBVIOUS
  <2>1. \A h \in Holders : mem[h] # Closed => \A k \in Kinds : Len(mem[h].name[k]) = Slots
    <3> SUFFICES ASSUME NEW h \in Holders, mem[h] # Closed, NEW k \in Kinds
                 PROVE  Len(mem[h].name[k]) = Slots
      OBVIOUS
    <3>1. mem[h] \in Structures
      BY DEF IInv, Good, Matrices
    <3>2. mem[h].name[k] \in [1..Slots -> Words]
      BY <3>1 DEF Structures
    <3> QED BY <3>2, SlotsAssumption
  <2>2. fresh \subseteq {h \in Holders : mem[h] # Closed}
    BY OpenAndClosed DEF IInv
  <2> QED BY <2>1, <2>2 DEF IInv, TypeOK, Words
<1> QED BY <1>1, Invariant, PTL

\* The attributes on file are those of the structure that the last successful call was
\* given, with all of its changes made: setting, replacing or deleting one leaves the
\* others alone, and a fresh structure is what reading the file would give.
THEOREM AttributesRight == Spec /\ [][RowsOnly]_vars => []MeansWhatWasAsked
<1>1. IInv => MeansWhatWasAsked
  BY DEF IInv, MeansWhatWasAsked
<1> QED BY <1>1, Invariant, PTL

\* vs_put never gives a name to a second slot, be it of another kind.
THEOREM NamesStayApart == Spec /\ [][RowsOnly]_vars => []NamesApart
<1>1. IInv => NamesApart
  BY DEF IInv, NamesApart, Good, Apart
<1> QED BY <1>1, Invariant, PTL

\* Writing attributes leaves the data of the group alone, which stand behind them.
THEOREM DataStays == Spec /\ [][RowsOnly]_vars => []DataKept
<1>1. IInv => DataKept
  BY DEF IInv
<1> QED BY <1>1, Invariant, PTL
==============================================================================
