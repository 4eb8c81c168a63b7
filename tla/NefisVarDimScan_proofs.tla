------------------------ MODULE NefisVarDimScan_proofs ------------------------
(* The dimension that vs_use finds by walking the tables, and the one vs_put   *)
(* returns, are the greatest index written.                                    *)
EXTENDS NefisVarDim_proofs

------------------------------------------------------------------------------
(* The scan finds the greatest path.                                       *)

\* An index down to its digit of level b, the lower digits being zero.
Upto(i, b) == Digit(i, 4) * Power(3)
              + (IF b <= 3 THEN Digit(i, 3) * Power(2) ELSE 0)
              + (IF b <= 2 THEN Digit(i, 2) * Power(1) ELSE 0)
              + (IF b <= 1 THEN Digit(i, 1) ELSE 0)

\* The digits below a level come to less than one of its steps.
LEMMA DigitSteps ==
  ASSUME NEW d \in Slots, NEW k \in Slots, NEW n \in 0..3
  PROVE  /\ d * Power(n) \in Nat
         /\ d < k => d * Power(n) + Power(n) <= k * Power(n)
         /\ n < 3 => d * Power(n) + Power(n) <= Power(n + 1)
<1>1. d \in Nat /\ k \in Nat /\ Power(n) \in Nat /\ Radix \in Nat /\ d < Radix
  BY Powers
<1>2. d * Power(n) \in Nat
  BY <1>1
<1>3. ASSUME NEW m \in Nat, d < m PROVE d * Power(n) + Power(n) <= m * Power(n)
  <2>1. Power(n) * d + Power(n) <= Power(n) * m
    BY <1>1, <1>3, TimesMonotone
  <2>2. Power(n) * d = d * Power(n) /\ Power(n) * m = m * Power(n)
    BY <1>1, <1>3
  <2> QED BY <2>1, <2>2
<1>4. n < 3 => Radix * Power(n) = Power(n + 1)
  <2>1. n = 0 \/ n = 1 \/ n = 2 \/ n = 3
    OBVIOUS
  <2>2. Radix * (Radix * Radix) = Radix * Radix * Radix /\ Radix * 1 = Radix
    BY <1>1
  <2>3. 0 + 1 = 1 /\ 1 + 1 = 2 /\ 2 + 1 = 3
    OBVIOUS
  <2> QED BY <2>1, <2>2, <2>3, Powers
<1> QED BY <1>1, <1>2, <1>3, <1>4

LEMMA UptoIndex ==
  ASSUME NEW i \in InRange
  PROVE  /\ Upto(i, 1) = i
         /\ \A b \in Byte : Upto(i, b) \in Nat /\ Upto(i, b) <= i
<1> DEFINE x4 == Digit(i, 4) * Power(3)
           x3 == Digit(i, 3) * Power(2)
           x2 == Digit(i, 2) * Power(1)
           x1 == Digit(i, 1)
<1>1. x4 \in Nat /\ x3 \in Nat /\ x2 \in Nat /\ x1 \in Nat
  <2>1. \A b \in Byte : Digit(i, b) \in Slots
    BY IndexOfDigits
  <2>2. 1 \in Byte /\ 2 \in Byte /\ 3 \in Byte /\ 4 \in Byte
    BY DEF Byte
  <2>3. \A n \in 0..3, d \in Slots : d * Power(n) \in Nat
    BY DigitSteps
  <2>4. Digit(i, 1) \in Nat
    BY <2>1, <2>2 DEF Slots
  <2> QED BY <2>1, <2>2, <2>3, <2>4
<1>2. i = x4 + x3 + x2 + x1
  BY IndexOfDigits
<1>3. \A b : Upto(i, b) = x4 + (IF b <= 3 THEN x3 ELSE 0) + (IF b <= 2 THEN x2 ELSE 0)
                          + (IF b <= 1 THEN x1 ELSE 0)
  BY DEF Upto
<1> HIDE DEF x1, x2, x3, x4
<1> QED BY <1>1, <1>2, <1>3 DEF Byte

LEMMA DivOfProduct ==
  \A n \in Nat, d \in Nat \ {0}, e \in Nat \ {0} : n \div (d * e) = (n \div d) \div e
BY DivDiv

\* What the digits of a number made of digits are.
LEMMA DigitsOfSum ==
  ASSUME NEW k4 \in Slots, NEW k3 \in Slots, NEW k2 \in Slots, NEW k1 \in Slots,
         NEW w, w = k4 * Power(3) + k3 * Power(2) + k2 * Power(1) + k1
  PROVE  /\ w \in InRange
         /\ Digit(w, 4) = k4 /\ Digit(w, 3) = k3 /\ Digit(w, 2) = k2 /\ Digit(w, 1) = k1
<1>1. PICK R : R = Radix
  OBVIOUS
<1>2. /\ R \in Nat \ {0}
      /\ k4 \in 0..(R - 1) /\ k3 \in 0..(R - 1) /\ k2 \in 0..(R - 1) /\ k1 \in 0..(R - 1)
  BY <1>1, Powers
<1>3. PICK p2 : p2 = R * R
  OBVIOUS
<1>4. p2 \in Nat \ {0}
  BY <1>2, <1>3
<1>5. PICK q2 : q2 = R * k4 + k3
  OBVIOUS
<1>6. q2 \in Nat /\ q2 \div R = k4 /\ q2 % R = k3
  <2>1. R * k4 \in Nat
    BY <1>2
  <2>2. q2 \in Nat /\ k4 \in Nat
    BY <1>2, <1>5, <2>1
  <2> QED BY ONLY <1>2, <1>5, <2>2, DivUnique
<1>7. PICK q1 : q1 = R * q2 + k2
  OBVIOUS
<1>8. q1 \in Nat /\ q1 \div R = q2 /\ q1 % R = k2
  <2>1. R * q2 \in Nat
    BY <1>2, <1>6
  <2>2. q1 \in Nat
    BY <1>2, <1>7, <2>1
  <2> QED BY ONLY <1>2, <1>6, <1>7, <2>2, DivUnique
<1>9. w = R * q1 + k1
  <2>0. R \in Nat /\ k4 \in Nat /\ k3 \in Nat /\ k2 \in Nat /\ k1 \in Nat
    BY <1>2
  <2>1. R * q1 = R * (R * q2) + R * k2
    BY ONLY <1>6, <1>7, <2>0
  <2>2. R * q2 = R * (R * k4) + R * k3
    BY ONLY <1>5, <2>0
  <2>3. R * (R * k4) \in Nat /\ R * k3 \in Nat
    BY <2>0
  <2>4. R * (R * q2) = R * (R * (R * k4)) + R * (R * k3)
    BY ONLY <2>0, <2>2, <2>3
  <2>5. /\ R * (R * (R * k4)) = k4 * (R * R * R)
        /\ R * (R * k3) = k3 * (R * R) /\ R * k2 = k2 * R
    BY <2>0
  <2>6. w = k4 * (R * R * R) + k3 * (R * R) + k2 * R + k1
    BY <1>1, Powers
  <2> QED BY <2>0, <2>1, <2>3, <2>4, <2>5, <2>6
<1>10. w \in Nat /\ w \div R = q1 /\ w % R = k1
  <2>1. R * q1 \in Nat
    BY <1>2, <1>8
  <2>2. w \in Nat
    BY <1>2, <1>9, <2>1
  <2> QED BY ONLY <1>2, <1>8, <1>9, <2>2, DivUnique
<1>11. w \div p2 = q2
  BY ONLY <1>2, <1>3, <1>8, <1>10, DivDiv
<1>12. w \div (p2 * R) = k4
  <2>1. w \div (p2 * R) = (w \div p2) \div R
    <3>1. w \in Nat /\ R \in Nat \ {0}
      BY <1>2, <1>10
    <3> QED BY <1>4, <3>1, DivOfProduct
  <2> QED BY ONLY <1>6, <1>11, <2>1
<1>13. w \in InRange
  <2>1. R * k4 + R <= R * R
    BY <1>2, TimesMonotone
  <2>2. q2 < p2
    BY <1>2, <1>3, <1>5, <2>1
  <2>3. R * q2 + R <= R * p2 /\ R * p2 \in Nat
    BY <1>2, <1>4, <1>6, <2>2, TimesMonotone
  <2>4. q1 < R * p2 /\ R * q2 \in Nat
    BY <1>2, <1>6, <1>7, <2>3
  <2>5. R * q1 + R <= R * (R * p2) /\ R * (R * p2) \in Nat /\ R * q1 \in Nat
    BY <1>2, <1>8, <2>3, <2>4, TimesMonotone
  <2>6. R * (R * p2) = R * R * R * R
    BY <1>2, <1>3
  <2> QED BY <1>1, <1>2, <1>9, <1>10, <2>5, <2>6 DEF InRange
<1>14. Digit(w, 1) = k1
  <2>1. w \div 1 = w /\ 1 - 1 = 0
    BY <1>10
  <2> QED BY <1>1, <1>10, <2>1, Powers DEF Digit
<1>15. Digit(w, 2) = k2
  BY <1>1, <1>8, <1>10, 2 - 1 = 1, Powers DEF Digit
<1>16. Digit(w, 3) = k3
  BY <1>1, <1>3, <1>6, <1>11, 3 - 1 = 2, Powers DEF Digit
<1>17. Digit(w, 4) = k4
  <2>1. k4 % R = k4
    BY <1>2, SmallMod
  <2>2. Power(3) = p2 * R
    BY <1>1, <1>3, Powers
  <2> QED BY <1>1, <1>12, 4 - 1 = 3, <2>1, <2>2 DEF Digit
<1> QED BY <1>13, <1>14, <1>15, <1>16, <1>17

\* One table of the scan: a path through it leads no further than the scan, if
\* it leads no further below.
LEMMA ScanStep ==
  ASSUME NEW lev, Tree(lev), NEW a \in Tables, NEW d \in Slots, At(a)[d] # Nil,
         NEW n \in 0..3, NEW rest \in Nat, rest < Power(n), NEW more \in Nat,
         At(a)[d] = Follow(a) => rest <= more
  PROVE  d * Power(n) + rest <= Part(a, n) + more
<1>1. Used(a) # {} /\ a # Nil
  BY BlockFacts DEF Used
<1>2. PICK k \in Slots : k = LastUsed(a)
  BY <1>1, LastUsedIn
<1>3. Part(a, n) = k * Power(n) /\ Follow(a) = At(a)[k]
  BY <1>1, <1>2 DEF Part, Follow, Stops
<1>4. d <= k
  BY <1>1, <1>2, LastUsedIn
<1>5. PICK x \in Nat, y \in Nat : x = d * Power(n) /\ y = k * Power(n)
  BY DigitSteps
<1>6. Power(n) \in Nat
  BY Powers
<1>7. d < k => x + Power(n) <= y
  BY <1>5, DigitSteps
<1>8. d = k => x = y /\ rest <= more
  BY <1>3, <1>5
<1>9. d = k \/ d < k
  BY <1>4, Powers
<1> QED BY <1>3, <1>5, <1>6, <1>7, <1>8, <1>9

\* Where a path ends, it has passed through all higher levels.
LEMMA PathAbove ==
  ASSUME NEW i, NEW b \in Byte, Node(i, b - 1) # Nil
  PROVE  /\ Node(i, 3) # Nil
         /\ b <= 3 => Node(i, 2) # Nil
         /\ b <= 2 => Node(i, 1) # Nil
         /\ b <= 1 => Node(i, 0) # Nil
<1>1. \A l \in Byte : Node(i, l - 1) # Nil => Node(i, l) # Nil
  BY NodeStep DEF Below
<1>2. 4 \in Byte /\ 3 \in Byte /\ 2 \in Byte /\ 1 \in Byte
  BY DEF Byte
<1>3. /\ Node(i, 0) # Nil => Node(i, 1) # Nil
      /\ Node(i, 1) # Nil => Node(i, 2) # Nil
      /\ Node(i, 2) # Nil => Node(i, 3) # Nil
  <2>1. Node(i, 1 - 1) # Nil => Node(i, 1) # Nil
    BY <1>1, <1>2
  <2>2. Node(i, 2 - 1) # Nil => Node(i, 2) # Nil
    BY <1>1, <1>2
  <2>3. Node(i, 3 - 1) # Nil => Node(i, 3) # Nil
    BY <1>1, <1>2
  <2> QED BY <2>1, <2>2, <2>3
<1>4. b = 1 \/ b = 2 \/ b = 3 \/ b = 4
  BY DEF Byte
<1>5. /\ b = 1 => Node(i, 0) # Nil
      /\ b = 2 => Node(i, 1) # Nil
      /\ b = 3 => Node(i, 2) # Nil
      /\ b = 4 => Node(i, 3) # Nil
  OBVIOUS
<1> QED BY <1>3, <1>4, <1>5

\* The scan finds no path that is further than it goes.
LEMMA ScanBounds ==
  ASSUME NEW lev, Tree(lev), NEW i \in InRange, NEW b \in Byte, Node(i, b - 1) # Nil
  PROVE  Upto(i, b) <= Scan
<1> PICK t4, t3, t2, t1 : t4 = 1 /\ t3 = Follow(t4) /\ t2 = Follow(t3) /\ t1 = Follow(t2)
  OBVIOUS
<1> PICK d4 \in Slots, d3 \in Slots, d2 \in Slots, d1 \in Slots :
           d4 = Digit(i, 4) /\ d3 = Digit(i, 3) /\ d2 = Digit(i, 2) /\ d1 = Digit(i, 1)
  <2>1. 4 \in Byte /\ 3 \in Byte /\ 2 \in Byte /\ 1 \in Byte
    BY DEF Byte
  <2> QED BY <2>1, IndexOfDigits
<1> PICK p0, p1, p2, p3 : p0 = Power(0) /\ p1 = Power(1) /\ p2 = Power(2) /\ p3 = Power(3)
  OBVIOUS
<1>1. p0 = 1 /\ p1 \in Nat /\ p2 \in Nat /\ p3 \in Nat
  BY Powers
<1>2. /\ Node(i, 4) = t4 /\ Node(i, 3) = Below(Node(i, 4), i, 4)
      /\ Node(i, 2) = Below(Node(i, 3), i, 3) /\ Node(i, 1) = Below(Node(i, 2), i, 2)
      /\ Node(i, 0) = Below(Node(i, 1), i, 1)
  BY DEF Node, RecordOf
<1>3. /\ t4 \in Tables /\ (t3 = Nil \/ t3 \in Tables) /\ (t2 = Nil \/ t2 \in Tables)
      /\ (t1 = Nil \/ t1 \in Tables)
  BY ScanTables
<1> PICK v4, v3, v2, v1 :
           v4 = Part(t4, 3) /\ v3 = Part(t3, 2) /\ v2 = Part(t2, 1) /\ v1 = Part(t1, 0)
  OBVIOUS
<1>4. v4 \in Nat /\ v3 \in Nat /\ v2 \in Nat /\ v1 \in Nat
  BY <1>3, FollowLevels
<1>5. Scan = v4 + v3 + v2 + v1
  BY DEF Scan
<1> PICK x3, x2, x1 : x3 = d3 * p2 /\ x2 = d2 * p1 /\ x1 = d1 * p0
  OBVIOUS
<1>6. /\ x3 \in Nat /\ x2 \in Nat /\ x1 \in Nat
      /\ x1 < p1 /\ x2 + p1 <= p2 /\ x3 + p2 <= p3 /\ x1 = d1
  <2>1. /\ x1 \in Nat /\ x2 \in Nat /\ x3 \in Nat
        /\ x1 + Power(0) <= Power(0 + 1) /\ x2 + Power(1) <= Power(1 + 1)
        /\ x3 + Power(2) <= Power(2 + 1)
    BY DigitSteps
  <2>2. 0 + 1 = 1 /\ 1 + 1 = 2 /\ 2 + 1 = 3
    OBVIOUS
  <2>3. d1 \in Nat
    BY Powers
  <2> QED BY <1>1, <2>1, <2>2, <2>3
<1> PICK r1, r2, r3 : /\ r1 = IF b <= 1 THEN x1 ELSE 0
                      /\ r2 = (IF b <= 2 THEN x2 ELSE 0) + r1
                      /\ r3 = (IF b <= 3 THEN x3 ELSE 0) + r2
  OBVIOUS
<1>7. /\ r1 \in Nat /\ r2 \in Nat /\ r3 \in Nat
      /\ r1 < p1 /\ r2 < p2 /\ r3 < p3
  BY <1>1, <1>6
<1>8. b \in 1..4
  BY DEF Byte
<1>9. Upto(i, b) = d4 * p3 + r3
  <2>1. d4 * p3 \in Nat
    BY DigitSteps
  <2> QED BY <1>6, <1>8, <2>1 DEF Upto
<1>10. Node(i, 1) = t1 => r1 <= v1
  <2> SUFFICES ASSUME Node(i, 1) = t1, b <= 1 PROVE x1 <= v1
    BY <1>4
  <2>1. Node(i, 0) # Nil
    BY PathAbove
  <2>2. t1 # Nil /\ At(t1)[d1] # Nil
    BY <1>2, <2>1 DEF Below
  <2>3. t1 \in Tables /\ 0 \in 0..3 /\ 0 \in Nat /\ 0 < Power(0)
    BY <1>1, <1>3, <2>2
  <2>4. d1 * Power(0) + 0 <= Part(t1, 0) + 0
    BY <2>2, <2>3, ScanStep
  <2> QED BY <1>4, <1>6, <2>4
<1>11. Node(i, 2) = t2 => r2 <= v2 + v1
  <2> SUFFICES ASSUME Node(i, 2) = t2, b <= 2 PROVE r2 <= v2 + v1
    BY <1>4, <1>8
  <2>1. Node(i, 1) # Nil
    BY PathAbove
  <2>2. t2 # Nil /\ At(t2)[d2] # Nil /\ At(t2)[d2] = Node(i, 1)
    BY <1>2, <2>1 DEF Below
  <2>3. d2 * Power(1) + r1 <= Part(t2, 1) + v1
    <3>1. t2 \in Tables /\ 1 \in 0..3 /\ r1 < Power(1)
      BY <1>3, <1>7, <2>2
    <3>2. At(t2)[d2] = Follow(t2) => r1 <= v1
      BY <1>10, <2>2
    <3> QED BY <1>4, <1>7, <2>2, <3>1, <3>2, ScanStep
  <2> QED BY <1>8, <2>3
<1>12. Node(i, 3) = t3 => r3 <= v3 + (v2 + v1)
  <2> SUFFICES ASSUME Node(i, 3) = t3, b <= 3 PROVE r3 <= v3 + (v2 + v1)
    BY <1>4, <1>8
  <2>1. Node(i, 2) # Nil
    BY PathAbove
  <2>2. t3 # Nil /\ At(t3)[d3] # Nil /\ At(t3)[d3] = Node(i, 2)
    BY <1>2, <2>1 DEF Below
  <2>3. PICK m \in Nat : m = v2 + v1
    BY <1>4
  <2>4. d3 * Power(2) + r2 <= Part(t3, 2) + m
    <3>1. t3 \in Tables /\ 2 \in 0..3 /\ r2 < Power(2)
      BY <1>3, <1>7, <2>2
    <3>2. At(t3)[d3] = Follow(t3) => r2 <= m
      BY <1>11, <2>2, <2>3
    <3> QED BY <1>7, <2>2, <2>3, <3>1, <3>2, ScanStep
  <2> QED BY <2>3, <2>4
<1>13. d4 * p3 + r3 <= v4 + (v3 + (v2 + v1))
  <2>1. Node(i, 3) # Nil
    BY PathAbove
  <2>2. At(t4)[d4] # Nil /\ At(t4)[d4] = Node(i, 3)
    BY <1>2, <2>1 DEF Below
  <2>3. PICK m \in Nat : m = v3 + (v2 + v1)
    BY <1>4
  <2>4. d4 * Power(3) + r3 <= Part(t4, 3) + m
    BY <1>3, <1>7, <1>12, <2>2, <2>3, ScanStep
  <2> QED BY <2>3, <2>4
<1> QED BY <1>4, <1>5, <1>9, <1>13

\* There is a path as far as the scan goes: to a record, or to a table where no
\* pointer is set.
LEMMA ScanReached ==
  ASSUME NEW lev, Tree(lev)
  PROVE  \E i \in InRange, b \in Byte : /\ Scan = Upto(i, b) /\ Node(i, b - 1) # Nil
                                        /\ b = 1 \/ Stops(Node(i, b - 1))
<1> PICK t4, t3, t2, t1 : t4 = 1 /\ t3 = Follow(t4) /\ t2 = Follow(t3) /\ t1 = Follow(t2)
  OBVIOUS
<1>1. /\ t4 \in Tables /\ (t3 = Nil \/ t3 \in Tables) /\ (t2 = Nil \/ t2 \in Tables)
      /\ (t1 = Nil \/ t1 \in Tables)
  BY ScanTables
<1> DEFINE Chosen(a) == IF Stops(a) THEN 0 ELSE LastUsed(a)
<1>2. ASSUME NEW a, a = Nil \/ a \in Tables
      PROVE  /\ Chosen(a) \in Slots
             /\ Follow(a) = IF Stops(a) THEN Nil ELSE At(a)[Chosen(a)]
             /\ ~Stops(a) => a # Nil /\ Follow(a) # Nil
             /\ \A n \in 0..3 : Part(a, n) = Chosen(a) * Power(n)
  <2>1. ~Stops(a) => a # Nil /\ LastUsed(a) \in Slots /\ At(a)[LastUsed(a)] # Nil
    BY LastUsedIn DEF Stops
  <2>2. 0 \in Slots /\ \A n \in 0..3 : Power(n) \in Nat
    BY Powers
  <2>3. \A n \in 0..3 : 0 * Power(n) = 0
    BY <2>2
  <2> QED BY <2>1, <2>2, <2>3 DEF Follow, Part
<1> PICK k4 \in Slots, k3 \in Slots, k2 \in Slots, k1 \in Slots :
           k4 = Chosen(t4) /\ k3 = Chosen(t3) /\ k2 = Chosen(t2) /\ k1 = Chosen(t1)
  BY <1>1, <1>2
<1> HIDE DEF Chosen
<1> PICK i : i = k4 * Power(3) + k3 * Power(2) + k2 * Power(1) + k1
  OBVIOUS
<1>3. /\ i \in InRange
      /\ Digit(i, 4) = k4 /\ Digit(i, 3) = k3 /\ Digit(i, 2) = k2 /\ Digit(i, 1) = k1
  BY DigitsOfSum
<1>4. /\ Part(t4, 3) = k4 * Power(3) /\ Part(t3, 2) = k3 * Power(2)
      /\ Part(t2, 1) = k2 * Power(1) /\ Part(t1, 0) = k1
  <2>0. \A n \in 0..3 : Part(t1, n) = k1 * Power(n)
    BY <1>1, <1>2
  <2>1. Part(t1, 0) = k1 * Power(0) /\ k1 \in Nat /\ Power(0) = 1
    BY <2>0, Powers
  <2>2. Part(t1, 0) = k1
    BY <2>1
  <2> QED BY <1>1, <1>2, <2>2
<1>5. Scan = Part(t4, 3) + Part(t3, 2) + Part(t2, 1) + Part(t1, 0)
  BY DEF Scan
<1>6. /\ Node(i, 4) = t4 /\ Node(i, 3) = Below(Node(i, 4), i, 4)
      /\ Node(i, 2) = Below(Node(i, 3), i, 3) /\ Node(i, 1) = Below(Node(i, 2), i, 2)
      /\ Node(i, 0) = Below(Node(i, 1), i, 1)
  BY DEF Node, RecordOf
<1>7. /\ Part(t4, 3) \in Nat /\ Part(t3, 2) \in Nat /\ Part(t2, 1) \in Nat /\ Part(t1, 0) \in Nat
  BY <1>1, FollowLevels
<1>8. /\ Upto(i, 4) = Part(t4, 3)
      /\ Upto(i, 3) = Part(t4, 3) + Part(t3, 2)
      /\ Upto(i, 2) = Part(t4, 3) + Part(t3, 2) + Part(t2, 1)
      /\ Upto(i, 1) = Part(t4, 3) + Part(t3, 2) + Part(t2, 1) + Part(t1, 0)
  BY <1>3, <1>4, <1>7 DEF Upto
<1>9. \A a : Stops(a) => Follow(a) = Nil /\ \A n : Part(a, n) = 0
  BY DEF Follow, Part
<1>10. Stops(Nil)
  BY DEF Stops
<1>11. ~Stops(t4)
  BY Powers, BlockFacts, ZenonT(40) DEF Stops, Used, Tree, Nil
<1>12. Node(i, 3) = t3 /\ t3 # Nil
  BY <1>1, <1>2, <1>3, <1>6, <1>11 DEF Below
<1>13. 1 \in Byte /\ 2 \in Byte /\ 3 \in Byte /\ 4 \in Byte
       /\ 1 - 1 = 0 /\ 2 - 1 = 1 /\ 3 - 1 = 2 /\ 4 - 1 = 3
  BY DEF Byte
<1>14. CASE Stops(t3)
  <2>1. Part(t3, 2) = 0 /\ Part(t2, 1) = 0 /\ Part(t1, 0) = 0
    BY <1>9, <1>10, <1>14
  <2>2. Scan = Upto(i, 4)
    BY <1>5, <1>7, <1>8, <2>1
  <2> QED BY <1>3, <1>12, <1>13, <1>14, <2>2
<1>15. CASE ~Stops(t3) /\ Stops(t2)
  <2>1. Part(t2, 1) = 0 /\ Part(t1, 0) = 0
    BY <1>9, <1>10, <1>15
  <2>2. Scan = Upto(i, 3)
    BY <1>5, <1>7, <1>8, <2>1
  <2>3. Node(i, 2) = t2 /\ t2 # Nil
    BY <1>1, <1>2, <1>3, <1>6, <1>12, <1>15 DEF Below
  <2> QED BY <1>3, <1>13, <1>15, <2>2, <2>3
<1>16. CASE ~Stops(t3) /\ ~Stops(t2)
  <2>1. Node(i, 2) = t2 /\ t2 # Nil
    BY <1>1, <1>2, <1>3, <1>6, <1>12, <1>16 DEF Below
  <2>2. Node(i, 1) = t1 /\ t1 # Nil
    BY <1>1, <1>2, <1>3, <1>6, <1>16, <2>1 DEF Below
  <2>3. CASE Stops(t1)
    <3>1. Part(t1, 0) = 0
      BY <1>9, <2>3
    <3>2. Scan = Upto(i, 2)
      BY <1>5, <1>7, <1>8, <3>1
    <3> QED BY <1>3, <1>13, <2>2, <2>3, <3>2
  <2>4. CASE ~Stops(t1)
    <3>1. Node(i, 0) # Nil
      BY <1>1, <1>2, <1>3, <1>6, <2>2, <2>4 DEF Below
    <3>2. Scan = Upto(i, 1)
      BY <1>5, <1>8
    <3> QED BY <1>3, <1>13, <3>1, <3>2
  <2> QED BY <2>3, <2>4
<1> QED BY <1>14, <1>15, <1>16

\* What the two lemmas say of a state.
ScanFacts ==
  /\ Scan \in Nat
  /\ \A i \in InRange, b \in Byte : Node(i, b - 1) # Nil => Upto(i, b) <= Scan
  /\ \E i \in InRange, b \in Byte : /\ Scan = Upto(i, b) /\ Node(i, b - 1) # Nil
                                    /\ b = 1 \/ Stops(Node(i, b - 1))

LEMMA ScanFactsHold == IInv => ScanFacts
<1> SUFFICES ASSUME IInv PROVE ScanFacts
  OBVIOUS
<1> PICK lev : Tree(lev)
  BY DEF IInv
<1>1. Scan \in Nat
  BY ScanIsNumber
<1>2. \A i \in InRange, b \in Byte : Node(i, b - 1) # Nil => Upto(i, b) <= Scan
  BY ScanBounds
<1>3. \E i \in InRange, b \in Byte : /\ Scan = Upto(i, b) /\ Node(i, b - 1) # Nil
                                     /\ b = 1 \/ Stops(Node(i, b - 1))
  BY ScanReached
<1> QED BY <1>1, <1>2, <1>3 DEF ScanFacts

LEMMA ScanFactsNext == IInv /\ [Next]_vars => ScanFacts'
  BY NextInv, ScanFactsHold, PTL

------------------------------------------------------------------------------
(* What the writes to the file do to the scan and to the empty tables.      *)

LEMMA ScanNext ==
  ASSUME ScanFacts'
  PROVE  /\ Scan' \in Nat
         /\ \A i \in InRange, b \in Byte : Node(i, b - 1)' # Nil => Upto(i, b) <= Scan'
         /\ \E i \in InRange, b \in Byte : Scan' = Upto(i, b) /\ Node(i, b - 1)' # Nil
<1>1. \A i, b : Upto(i, b)' = Upto(i, b)
  BY DEF Upto, Digit, Power
<1> QED BY <1>1 DEF ScanFacts

\* Where no path gets shorter, neither does the dimension.
LEMMA ScanGrows ==
  ASSUME ScanFacts, ScanFacts',
         \A i \in InRange, b \in 0..3 : Node(i, b) # Nil => Node(i, b)' # Nil
  PROVE  Scan <= Scan'
<1>1. PICK i \in InRange, b \in Byte : Scan = Upto(i, b) /\ Node(i, b - 1) # Nil
  BY DEF ScanFacts
<1>2. PICK m \in 0..3 : m = b - 1
  BY DEF Byte
<1>3. Node(i, m)' # Nil
  BY <1>1, <1>2
<1>4. Node(i, b - 1)' # Nil
  BY <1>2, <1>3
<1> QED BY <1>1, <1>4, ScanNext

LEMMA ScanKept ==
  ASSUME ScanFacts, ScanFacts', \A i \in InRange, b \in 0..3 : Node(i, b)' = Node(i, b)
  PROVE  Scan' = Scan
<1>1. Scan <= Scan'
  BY ScanGrows
<1>2. PICK i \in InRange, b \in Byte : Scan' = Upto(i, b) /\ Node(i, b - 1)' # Nil
  BY ScanNext
<1>3. PICK m \in 0..3 : m = b - 1
  BY DEF Byte
<1>4. Node(i, m) # Nil
  BY <1>2, <1>3
<1>5. Scan' <= Scan
  BY <1>2, <1>3, <1>4 DEF ScanFacts
<1> QED BY <1>1, <1>5, ScanNext DEF ScanFacts

\* Where the tables stay as they are, so does the dimension.
LEMMA ScanOfTables ==
  ASSUME NEW lev, Tree(lev), ScanFacts, ScanFacts', \A a \in Tables : At(a)' = At(a)
  PROVE  Scan' = Scan
<1>1. \A i \in InRange : \A b \in 0..4 : Node(i, b)' = Node(i, b)
  BY PathsKept
<1> QED BY <1>1, ScanKept

\* The linking of a table or a record under index j makes it no greater than j.
LEMMA ScanLinked ==
  ASSUME NEW lev, Tree(lev), Apart, ScanFacts, ScanFacts',
         NEW a, NEW d, NEW n, Linking(lev, a, d, n),
         NEW j \in InRange, Node(j, lev[a]) = a, Digit(j, lev[a]) = d
  PROVE  Scan <= Scan' /\ (Scan' <= Scan \/ Scan' <= j)
<1> PICK l : l = lev[a]
  OBVIOUS
<1>1. l \in 1..4 /\ n # Nil /\ a # Nil
  BY BlockFacts DEF Linking
<1>2. \A i \in InRange : \A b \in 0..4 :
        Node(i, b)' = IF b = l - 1 /\ Node(i, l) = a /\ Digit(i, l) = d THEN n ELSE Node(i, b)
  <2>1. \A i \in InRange : \A b \in 0..4 :
          Node(i, b)' = IF b = lev[a] - 1 /\ Node(i, lev[a]) = a /\ Digit(i, lev[a]) = d
                        THEN n ELSE Node(i, b)
    <3>1. \A i \in InRange : Extended(lev, a, d, n, i)
      BY ONLY Tree(lev), Linking(lev, a, d, n), PathsExtended
    <3> QED BY ONLY <3>1 DEF Extended
  <2> QED BY <2>1
<1>3. Scan <= Scan'
  BY <1>1, <1>2, ScanGrows
<1>4. Scan' <= Scan \/ Scan' <= j
  <2>1. PICK i \in InRange, b \in Byte : Scan' = Upto(i, b) /\ Node(i, b - 1)' # Nil
    BY ScanNext
  <2>2. PICK m \in 0..3 : m = b - 1
    BY DEF Byte
  <2>3. CASE Node(i, m) # Nil
    BY <2>1, <2>2, <2>3 DEF ScanFacts
  <2>4. CASE Node(i, m) = Nil
    <3>1. Node(i, m)' # Nil
      BY <2>1, <2>2
    <3>2. m = l - 1 /\ Node(i, l) = a /\ Digit(i, l) = d
      BY <1>2, <2>4, <3>1
    <3>3. b = l
      BY <1>1, <2>2, <3>2 DEF Byte
    <3>4. \A c \in Byte : c >= b => Digit(i, c) = Digit(j, c)
      <4>1. CASE l = 4
        <5>1. \A c \in Byte : c >= b => c = b
          BY <3>3, <4>1 DEF Byte
        <5> QED BY <3>2, <3>3, <5>1
      <4>2. CASE l # 4
        <5>1. l \in 0..3 /\ a # Nil /\ Node(i, l) = Node(j, l)
          BY <1>1, <3>2, <4>2
        <5>2. \A c \in Byte : c > l => Digit(i, c) = Digit(j, c)
          BY <3>2, <5>1, PathsApart
        <5>3. \A c \in Byte : c >= b => c = b \/ c > l
          BY <1>1, <3>3 DEF Byte
        <5> QED BY <3>2, <3>3, <5>2, <5>3
      <4> QED BY <4>1, <4>2
    <3>5. Upto(i, b) = Upto(j, b)
      <4>1. /\ Digit(i, 4) = Digit(j, 4)
            /\ b <= 3 => Digit(i, 3) = Digit(j, 3)
            /\ b <= 2 => Digit(i, 2) = Digit(j, 2)
            /\ b <= 1 => Digit(i, 1) = Digit(j, 1)
        BY <3>4 DEF Byte
      <4> QED BY <4>1 DEF Upto
    <3>6. Upto(j, b) <= j
      BY UptoIndex
    <3> QED BY <2>1, <3>5, <3>6
  <2> QED BY <2>3, <2>4
<1> QED BY <1>3, <1>4

\* A block at the end of the file is not linked yet.
LEMMA HollowAdded ==
  ASSUME NEW lev, Tree(lev), NEW n, Fresh(n)',
         \A a \in DOMAIN blocks : At(a)' = At(a),
         Tables' \subseteq Tables \cup {n}, At(n)' = EmptyTable \/ n \notin Tables'
  PROVE  Hollow' \subseteq Hollow
<1> SUFFICES ASSUME NEW x \in Hollow' PROVE x \in Hollow
  OBVIOUS
<1>1. x \in Tables' /\ x > 4 /\ At(x)' = EmptyTable
  BY DEF Hollow, EmptyTable
<1>2. PICK b \in Tables', s \in Slots : At(b)'[s] = x
  BY DEF Hollow
<1>3. x # n
  BY <1>2 DEF Fresh
<1>4. x \in Tables /\ x \in DOMAIN blocks /\ At(x) = EmptyTable /\ x # Nil
  BY <1>1, <1>3, BlockFacts
<1>5. b # n
  BY <1>2, <1>4 DEF EmptyTable
<1>6. b \in Tables /\ b \in DOMAIN blocks /\ At(b)[s] = x
  BY <1>2, <1>5 DEF Tables
<1> QED BY <1>1, <1>4, <1>6 DEF Hollow

\* A table that gets a pointer is not empty any more; the block it leads to may be.
LEMMA HollowLinked ==
  ASSUME NEW lev, Tree(lev), NEW a, NEW d, NEW n, n # Nil,
         Tables' = Tables, Linking(lev, a, d, n)
  PROVE  Hollow' \subseteq (Hollow \ {a}) \cup {n}
<1> SUFFICES ASSUME a \in Tables, d \in Slots, \A b \in Tables : b # a => At(b)' = At(b),
                    At(a)' = [At(a) EXCEPT ![d] = n]
             PROVE  Hollow' \subseteq (Hollow \ {a}) \cup {n}
  BY DEF Linking
<1> SUFFICES ASSUME NEW x \in Hollow', x # n PROVE x \in Hollow \ {a}
  OBVIOUS
<1>1. x \in Tables /\ x > 4 /\ At(x)' = EmptyTable
  BY DEF Hollow, EmptyTable
<1>2. PICK b \in Tables, s \in Slots : At(b)'[s] = x
  BY DEF Hollow
<1>3. At(a) \in [Slots -> Nat]
  BY BlockFacts
<1>4. x # a
  <2>1. At(a)'[d] = n
    BY <1>3
  <2>2. EmptyTable[d] = Nil
    BY DEF EmptyTable
  <2> QED BY <1>1, <2>1, <2>2
<1>5. At(x) = EmptyTable
  BY <1>1, <1>4
<1>6. At(b)[s] = x
  BY <1>2, <1>3
<1> QED BY <1>1, <1>4, <1>5, <1>6 DEF Hollow

LEMMA HollowKept ==
  ASSUME Tables' = Tables, \A a \in Tables : At(a)' = At(a)
  PROVE  Hollow' \subseteq Hollow
BY DEF Hollow, EmptyTable

------------------------------------------------------------------------------
(* The inductive invariant of the dimension.                               *)

\* The one table that may be linked and still empty: the one a call works on.
Working == IF Idle THEN {}
           ELSE IF call.stage \in {"recheck", "link"} THEN {call.off[call.bt]}
           ELSE IF call.stage \in {"point", "linkrecord"} THEN {call.off[1]}
           ELSE {}

HollowOK == ~torn => Hollow \subseteq Working

\* A call does what is left of its indices; the dimension grows no further than the
\* greatest of them, and not at all where no pointer had to be set.
ExactOK ==
  ~Idle =>
    /\ call.todo \subseteq call.all /\ call.all \ call.todo \subseteq DOMAIN written
    /\ call.exact =>
         /\ dim[call.from] \in Nat /\ dim[call.from] <= Scan
         /\ Scan <= dim[call.from] \/ Scan <= Max(call.all)
         /\ ~call.update /\ call.stage \in {"locate", "write"} => Scan = dim[call.from]

\* What a step does not change of the call.
Same(c) == /\ call'.all = c.all /\ call'.from = c.from /\ call'.exact = c.exact
           /\ call'.todo = c.todo

LEMMA StageNotIdle == ASSUME call'.stage \in Stages PROVE ~Idle'
BY DEF Idle, NoCall, Stages

\* Steps that leave the file and its tables.
LEMMA FileStays ==
  ASSUME IInv, ScanFacts, ScanFacts', blocks' = blocks
  PROVE  Hollow' \subseteq Hollow /\ Scan' = Scan
<1> PICK lev : Tree(lev)
  BY DEF IInv
<1>1. Tables' = Tables /\ \A a : At(a)' = At(a)
  BY FileKept DEF IInv
<1>2. Scan' = Scan
  BY <1>1, ScanOfTables
<1> QED BY <1>1, <1>2, HollowKept

\* Where the dimension stays, so does what is known of it.
LEMMA ExactKept ==
  ASSUME ExactOK, ~Idle, Scan' = Scan, dim' = dim, call'.update = call.update, Same(call),
         DOMAIN written \subseteq DOMAIN written',
         call'.stage \in {"locate", "write"} => call.stage \in {"locate", "write"}
  PROVE  ExactOK'
<1>1. dim'[call'.from] = dim[call.from] /\ Max(call'.all) = Max(call.all)
  BY DEF Same
<1>2. Max(call.all)' = Max(call'.all)
  BY DEF Max
<1> QED BY <1>1, <1>2 DEF ExactOK, Same

LEMMA ScanInit == Init => HollowOK /\ ExactOK
<1> SUFFICES ASSUME Init PROVE Hollow = {} /\ Idle
  BY DEF HollowOK, ExactOK
<1>1. DOMAIN blocks = 1..4
  BY DEF Init
<1> QED BY <1>1 DEF Init, Hollow, Tables, Idle

LEMMA ScanOpen ==
  ASSUME IInv, HollowOK, ExactOK, ScanFacts, ScanFacts', NEW h \in Handles, Open(h)
  PROVE  HollowOK' /\ ExactOK'
<1>1. Hollow' \subseteq Hollow
  BY FileStays DEF Open
<1>2. Idle /\ Idle'
  BY DEF Open, Idle
<1> QED BY <1>1, <1>2 DEF HollowOK, ExactOK, Working, Open

LEMMA ScanBegin ==
  ASSUME IInv, HollowOK, ExactOK, ScanFacts, ScanFacts',
         NEW h \in Handles, NEW B \in Batches, NEW d \in DOMAIN Data, Begin(h, B, d)
  PROVE  HollowOK' /\ ExactOK'
<1>1. Hollow' \subseteq Hollow /\ Scan' = Scan
  BY FileStays DEF Begin
<1>2. /\ call'.stage = "locate" /\ call'.todo = B /\ call'.all = B /\ call'.from = h
      /\ call'.exact = (dim[h] = Scan)
  BY DEF Begin
<1>3. HollowOK'
  BY <1>1, <1>2 DEF Begin, HollowOK, Working
<1>4. ExactOK'
  <2>1. call'.exact => dim'[h] = Scan' /\ Scan' \in Nat
    BY <1>1, <1>2 DEF Begin, ScanFacts
  <2> QED BY <1>2, <2>1 DEF ExactOK
<1> QED BY <1>3, <1>4

LEMMA LocateFields ==
  ASSUME IInv, Locate
  PROVE  /\ Same(call) /\ call'.update = call.update
         /\ call'.stage = "write" \/ call'.stage = "recheck"
<1> PICK lev : Tree(lev) /\ (~Idle => CallOK(call, lev))
  BY DEF IInv
<1>1. call.stage = "locate" /\ ~Idle /\ CallOK(call, lev)
  BY DEF Locate, Idle, NoCall
<1>2. Keeps(call, lev) /\ (\A b \in Byte : Copied(call, b)) /\ call.todo # {} /\ call \in Call
  BY <1>1 DEF CallOK, Locate, Keeps
<1> DEFINE c4 == Reload(call, 4)
           c3 == Reload(c4, 3)
           c  == Reload(c3, 2)
           a  == c.tab[1][D(1)]
           Eq(r) == /\ r.todo = call.todo
                    /\ \A f \in {"all", "data", "from", "exact", "update"} : r[f] = call[f]
<1>3. Keeps(c4, lev) /\ (\A b \in Byte : Copied(c4, b)) /\ Eq(c4)
  BY <1>2, ReloadKeeps
<1> HIDE DEF c4
<1>4. Keeps(c3, lev) /\ (\A b \in Byte : Copied(c3, b)) /\ Eq(c3)
  BY <1>2, <1>3, ReloadKeeps
<1> HIDE DEF c3
<1>5. Keeps(c, lev) /\ Eq(c)
  BY <1>2, <1>4, ReloadKeeps
<1> HIDE DEF c
<1>6. c \in Call
  BY <1>5 DEF Keeps
<1>7. call' = IF a = Nil THEN [c EXCEPT !.stage = "recheck", !.bt = 4]
              ELSE [c EXCEPT !.stage = "write", !.dest = a]
  BY DEF Locate, c, c3, c4
<1> HIDE DEF a
<1>8. /\ call'.all = c.all /\ call'.from = c.from /\ call'.exact = c.exact
      /\ call'.todo = c.todo /\ call'.update = c.update
      /\ call'.stage = "write" \/ call'.stage = "recheck"
  BY <1>6, <1>7 DEF Call
<1> QED BY <1>5, <1>8 DEF Same

LEMMA ScanLocate ==
  ASSUME IInv, HollowOK, ExactOK, ScanFacts, ScanFacts', Locate
  PROVE  HollowOK' /\ ExactOK'
<1>1. Hollow' \subseteq Hollow /\ Scan' = Scan
  BY FileStays DEF Locate
<1>2. call.stage = "locate" /\ ~Idle
  BY DEF Locate, Idle, NoCall
<1>3. HollowOK'
  BY <1>1, <1>2 DEF HollowOK, Working, Locate
<1>4. ExactOK'
  BY <1>1, <1>2, LocateFields, ExactKept DEF Locate
<1> QED BY <1>3, <1>4

LEMMA ScanRecheckTable ==
  ASSUME IInv, HollowOK, ExactOK, ScanFacts, ScanFacts', RecheckTable
  PROVE  HollowOK' /\ ExactOK'
<1> PICK lev : Tree(lev) /\ (~Idle => CallOK(call, lev))
  BY DEF IInv
<1>1. call.stage = "recheck" /\ ~Idle /\ CallOK(call, lev)
  BY DEF RecheckTable, Idle, NoCall
<1>2. Hollow' \subseteq Hollow /\ Scan' = Scan
  BY FileStays DEF RecheckTable
<1> PICK bt : bt = call.bt
  OBVIOUS
<1> PICK a : a = call.off[bt]
  OBVIOUS
<1>3. bt \in Byte /\ D(bt) \in Slots /\ a # Nil /\ call \in Call
  BY <1>1, Rechecking
<1>4. At(a)[D(bt)] # Nil
  BY <1>1, <1>3 DEF RecheckTable, CallOK, Copied, Content
<1>5. a \notin Hollow
  BY <1>3, <1>4 DEF Hollow, EmptyTable
<1>6. HollowOK'
  BY <1>1, <1>2, <1>5 DEF HollowOK, Working, RecheckTable
<1>7. Same(call) /\ call'.update = call.update /\ call'.stage \in {"recheck", "point"}
  BY <1>3 DEF RecheckTable, Down, Same, Call
<1>8. ExactOK'
  BY <1>1, <1>2, <1>7, ExactKept DEF RecheckTable
<1> QED BY <1>6, <1>8

LEMMA ScanAppendTable ==
  ASSUME IInv, HollowOK, ExactOK, ScanFacts, ScanFacts', AppendTable
  PROVE  HollowOK' /\ ExactOK'
<1> PICK lev : Tree(lev) /\ (~Idle => CallOK(call, lev))
  BY DEF IInv
<1>1. call.stage = "recheck" /\ ~Idle /\ CallOK(call, lev)
  BY DEF AppendTable, Idle, NoCall
<1> PICK bt : bt = call.bt
  OBVIOUS
<1> PICK n : n = Len(blocks) + 1
  OBVIOUS
<1> PICK l \in 1..3 : l = bt - 1
  BY <1>1, Rechecking
<1>2. /\ \A x \in DOMAIN blocks : At(x)' = At(x)
      /\ Tables' \subseteq Tables \cup {n} /\ At(n)' = EmptyTable /\ Fresh(n)'
  <2>1. blocks' = Append(blocks, Table(EmptyTable)) /\ Apart
    BY DEF AppendTable, IInv
  <2>2. Table(EmptyTable) = IF l = 0 THEN Record(0) ELSE Table(EmptyTable)
    OBVIOUS
  <2> QED BY <2>1, <2>2, BlockAdded
<1>3. Hollow' \subseteq Hollow
  BY <1>2, HollowAdded
<1>4. Scan' = Scan
  <2>1. \A x \in Tables : At(x)' = At(x)
    BY <1>2 DEF Tables
  <2> QED BY <2>1, ScanOfTables
<1>5. call \in Call /\ bt \in Byte /\ bt \in 2..4
  BY <1>1, Rechecking
<1>6. /\ Same(call) /\ call'.update = call.update /\ call'.stage = "link" /\ call'.bt = bt
      /\ call'.off[bt] = call.off[bt]
  <2>1. PICK o : o = [call.off EXCEPT ![bt - 1] = n]
    OBVIOUS
  <2>2. PICK t : t = [call.tab EXCEPT ![bt] = [call.tab[bt] EXCEPT ![D(bt)] = n]]
    OBVIOUS
  <2>3. call' = [call EXCEPT !.stage = "link", !.off = o, !.tab = t]
    BY <1>5, <2>1, <2>2 DEF AppendTable, EndOfFile, Call
  <2>4. o[bt] = call.off[bt]
    BY <1>5, <2>1 DEF Call
  <2> QED BY <1>5, <2>3, <2>4 DEF Call, Same
<1>7. HollowOK'
  BY <1>1, <1>3, <1>6 DEF HollowOK, Working, AppendTable, Idle, NoCall
<1>8. ExactOK'
  BY <1>1, <1>4, <1>6, ExactKept DEF AppendTable
<1> QED BY <1>7, <1>8

\* The index that is worked on is one of those given to the call.
LEMMA IndexOfCall ==
  ASSUME NEW lev, CallOK(call, lev), call.stage # "locate", ExactOK, ~Idle
  PROVE  /\ Index \in InRange /\ Index \in call.all /\ Index \in Nat
         /\ Index <= Max(call.all) /\ Max(call.all) \in Nat
<1>1. call \in Call /\ call.todo # {}
  BY DEF CallOK, Keeps
<1>2. call.todo \in SUBSET Indices /\ call.all \in SUBSET Indices /\ call.all # {}
  BY <1>1 DEF Call
<1>3. Index \in call.todo /\ Index \in InRange
  BY <1>1, <1>2, IndexIn DEF Index
<1>4. Index \in call.all
  BY <1>3 DEF ExactOK
<1>5. Index \in Nat /\ \A i \in call.all : i <= Max(call.all)
  <2>1. Index \in Nat
    BY <1>3 DEF InRange
  <2>2. PICK S \in SUBSET Indices : S = call.all
    BY <1>2
  <2>3. \A i \in S : i <= Max(S)
    BY <1>2, <2>2, GreatestIndex
  <2> QED BY <2>1, <2>2, <2>3
<1> QED BY <1>2, <1>3, <1>4, <1>5, GreatestIndex

\* Where a pointer is set, the dimension may grow to the index worked on.
LEMMA ExactGrown ==
  ASSUME ExactOK, ~Idle, Scan \in Nat, Scan' \in Nat,
         Scan <= Scan' /\ (Scan' <= Scan \/ Scan' <= Index),
         Index \in Nat, Index <= Max(call.all), Max(call.all) \in Nat,
         dim' = dim, Same(call), DOMAIN written \subseteq DOMAIN written',
         call'.stage \in {"locate", "write"} => call'.update
  PROVE  ExactOK'
<1>1. Max(call.all)' = Max(call'.all) /\ Max(call'.all) = Max(call.all)
  BY DEF Max, Same
<1>2. dim'[call'.from] = dim[call.from]
  BY DEF Same
<1>3. call.exact => /\ dim[call.from] \in Nat /\ dim[call.from] <= Scan'
                    /\ Scan' <= dim[call.from] \/ Scan' <= Max(call.all)
  BY DEF ExactOK
<1> QED BY <1>1, <1>2, <1>3 DEF ExactOK, Same

LEMMA ScanLinkTable ==
  ASSUME IInv, HollowOK, ExactOK, ScanFacts, ScanFacts', LinkTable
  PROVE  HollowOK' /\ ExactOK'
<1> PICK lev : Tree(lev) /\ (~Idle => CallOK(call, lev))
  BY DEF IInv
<1>1. call.stage = "link" /\ ~Idle /\ CallOK(call, lev)
  BY DEF LinkTable, Idle, NoCall
<1> PICK bt : bt = call.bt
  OBVIOUS
<1> PICK a : a = call.off[bt]
  OBVIOUS
<1> PICK n : n = call.off[bt - 1]
  OBVIOUS
<1> PICK d : d = Dig(call, bt)
  OBVIOUS
<1> PICK j : j = Index
  OBVIOUS
<1>2. /\ call \in Call /\ bt \in 2..4 /\ bt \in Byte /\ bt - 1 \in Byte
      /\ d \in Slots /\ a # Nil /\ a \in Tables /\ lev[a] = bt
      /\ n = call.tab[bt][d]
  BY <1>1, Rechecking
<1>3. /\ At(a)[d] = Nil /\ call.tab[bt] = [At(a) EXCEPT ![d] = n]
      /\ (\A l \in Byte : l # bt => Copied(call, l))
      /\ Fresh(n) /\ blocks[n] = Table(EmptyTable)
  BY <1>1 DEF CallOK, Pending
<1>4. n \in DOMAIN blocks /\ n # Nil /\ lev[n] = lev[a] - 1 /\ At(n) = EmptyTable
  <2>1. n \in DOMAIN blocks /\ n # Nil
    BY <1>3, BlockFacts DEF Fresh
  <2>2. lev[n] = bt - 1
    BY <1>1, <1>2, <2>1 DEF CallOK, Keeps, Byte
  <2>3. At(n) = EmptyTable
    BY <1>3 DEF At, Table
  <2> QED BY <1>2, <2>1, <2>2, <2>3
<1> PICK t : t = [At(a) EXCEPT ![d] = n]
  OBVIOUS
<1>5. /\ Tables' = Tables
      /\ \A b \in Tables : b # a => At(b)' = At(b)
      /\ At(a)' = [At(a) EXCEPT ![d] = n]
  <2>1. blocks' = [blocks EXCEPT ![a] = Table(t)]
    BY <1>3 DEF LinkTable, WriteBack
  <2>2. /\ Tree(lev) /\ Apart /\ a \in Tables /\ d \in Slots /\ At(a)[d] = Nil
        /\ Fresh(n) /\ lev[n] = lev[a] - 1
        /\ t = [At(a) EXCEPT ![d] = n] /\ blocks' = [blocks EXCEPT ![a] = Table(t)]
    BY <1>2, <1>3, <1>4, <2>1 DEF IInv
  <2>3. /\ Tables' = Tables /\ Len(blocks') = Len(blocks) /\ DOMAIN blocks' = DOMAIN blocks
        /\ \A b \in DOMAIN blocks : b # a => blocks'[b] = blocks[b] /\ At(b)' = At(b)
        /\ At(a)' = [At(a) EXCEPT ![d] = n]
        /\ Tree(lev)' /\ Apart'
    BY ONLY <2>2, PointerSet
  <2> QED BY <2>3, BlockFacts
<1>6. Hollow' \subseteq (Hollow \ {a}) \cup {n}
  <2>1. Linking(lev, a, d, n)
    BY ONLY <1>2, <1>3, <1>4, <1>5 DEF Linking
  <2> QED BY ONLY <2>1, <1>4, <1>5, Tree(lev), HollowLinked
<1>7. j \in InRange /\ Node(j, lev[a]) = a /\ Digit(j, lev[a]) = d
  <2>1. j \in InRange /\ j = Min(call.todo) /\ call.todo # {}
    BY <1>1, IndexOfCall DEF Index, CallOK
  <2>2. Digit(j, bt) = d
    BY <2>1 DEF Dig
  <2>3. Node(j, bt) = a
    <3>0. \A b \in Byte : b > bt => b # bt
      BY <1>2 DEF Byte
    <3>1. \A b \in Byte : b > bt => Copied(call, b)
      BY ONLY <1>3, <3>0
    <3>2. Keeps(call, lev) /\ \A b \in 2..4 : call.last[b] = Dig(call, b)
      BY <1>1 DEF CallOK
    <3>3. bt \in 0..4 /\ bt >= bt
      BY <1>2
    <3>4. \A b \in Byte : b >= bt => Node(Min(call.todo), b) = call.off[b]
      BY <2>1, <3>1, <3>2, <3>3, PathOfCall
    <3> QED BY <1>2, <2>1, <3>3, <3>4
  <2> QED BY <1>2, <2>1, <2>2, <2>3
<1>8. Scan <= Scan' /\ (Scan' <= Scan \/ Scan' <= j)
  <2>1. lev[a] \in 1..4 /\ lev[n] \in Int /\ (lev[n] # 0 => At(n) = EmptyTable) /\ Apart
    BY <1>2, <1>4 DEF IInv
  <2>2. Linking(lev, a, d, n)
    BY ONLY <1>2, <1>3, <1>4, <1>5, <2>1 DEF Linking
  <2> QED BY ONLY <1>7, <2>1, <2>2, Tree(lev), ScanFacts, ScanFacts', ScanLinked
<1>9. /\ Same(call) /\ call'.off = call.off
      /\ IF bt = 2 THEN call'.stage = "point" ELSE call'.stage = "recheck" /\ call'.bt = bt - 1
  BY <1>2, DownFields DEF LinkTable, Same
<1>10. HollowOK'
  <2>1. Working = {a}
    BY <1>1 DEF Working
  <2>2. Working' = {n}
    <3>1. CASE bt = 2
      <4>1. n = call'.off[1] /\ call'.stage = "point"
        BY <1>9, <3>1
      <4> QED BY <4>1 DEF Working, Idle, NoCall
    <3>2. CASE bt # 2
      <4>1. n = call'.off[call'.bt] /\ call'.stage = "recheck"
        BY <1>9, <3>2
      <4> QED BY <4>1 DEF Working, Idle, NoCall
    <3> QED BY <3>1, <3>2
  <2> QED BY <1>6, <2>1, <2>2 DEF HollowOK, LinkTable
<1>11. ExactOK'
  <2>1. Scan \in Nat /\ Scan' \in Nat
    BY ScanNext DEF ScanFacts
  <2>2. call'.stage \notin {"locate", "write"}
    BY <1>9
  <2> QED BY <1>1, <1>8, <1>9, <2>1, <2>2, IndexOfCall, ExactGrown DEF LinkTable
<1> QED BY <1>10, <1>11

LEMMA ScanAppendRecord ==
  ASSUME IInv, HollowOK, ExactOK, ScanFacts, ScanFacts', AppendRecord
  PROVE  HollowOK' /\ ExactOK'
<1> PICK lev : Tree(lev) /\ (~Idle => CallOK(call, lev))
  BY DEF IInv
<1>1. call.stage = "point" /\ ~Idle /\ CallOK(call, lev)
  BY DEF AppendRecord, Idle, NoCall
<1> PICK n : n = Len(blocks) + 1
  OBVIOUS
<1>2. /\ \A x \in DOMAIN blocks : At(x)' = At(x)
      /\ Tables' = Tables /\ n \notin DOMAIN blocks /\ Fresh(n)'
  <2>1. blocks' = Append(blocks, Record(0)) /\ Apart
    BY DEF AppendRecord, IInv
  <2>2. Record(0) = IF 0 = 0 THEN Record(0) ELSE Table(EmptyTable)
    OBVIOUS
  <2> QED BY <2>1, <2>2, BlockAdded
<1>3. Hollow' \subseteq Hollow
  <2>1. n \notin Tables'
    BY <1>2 DEF Tables
  <2> QED BY <1>2, <2>1, HollowAdded
<1>4. Scan' = Scan
  <2>1. \A x \in Tables : At(x)' = At(x)
    BY <1>2 DEF Tables
  <2> QED BY <2>1, ScanOfTables
<1>5. /\ Same(call) /\ call'.update = call.update /\ call'.stage = "linkrecord"
      /\ call'.off = call.off
  <2>1. call \in Call
    BY <1>1 DEF CallOK, Keeps
  <2>2. PICK t : t = [call.tab EXCEPT ![1] = [call.tab[1] EXCEPT ![D(1)] = n]]
    OBVIOUS
  <2>3. call' = [call EXCEPT !.stage = "linkrecord", !.dest = n, !.tab = t]
    BY <2>1, <2>2 DEF AppendRecord, EndOfFile, Call
  <2> QED BY <2>1, <2>3 DEF Call, Same
<1>6. HollowOK'
  BY <1>1, <1>3, <1>5 DEF HollowOK, Working, AppendRecord, Idle, NoCall
<1>7. ExactOK'
  BY <1>1, <1>4, <1>5, ExactKept DEF AppendRecord
<1> QED BY <1>6, <1>7

LEMMA ScanLinkRecord ==
  ASSUME IInv, HollowOK, ExactOK, ScanFacts, ScanFacts', LinkRecord
  PROVE  HollowOK' /\ ExactOK'
<1> PICK lev : Tree(lev) /\ (~Idle => CallOK(call, lev))
  BY DEF IInv
<1>1. call.stage = "linkrecord" /\ ~Idle /\ CallOK(call, lev)
  BY DEF LinkRecord, Idle, NoCall
<1> PICK a : a = call.off[1]
  OBVIOUS
<1> PICK n : n = call.dest
  OBVIOUS
<1> PICK d : d = Dig(call, 1)
  OBVIOUS
<1> PICK j : j = Index
  OBVIOUS
<1> PICK t : t = [At(a) EXCEPT ![d] = n]
  OBVIOUS
<1>2. /\ call \in Call /\ call.todo # {} /\ 1 \in Byte /\ j \in InRange
      /\ d \in Slots /\ d = Digit(j, 1) /\ j = Min(call.todo)
  <2>1. call \in Call /\ call.todo # {}
    BY <1>1 DEF CallOK, Keeps
  <2>2. call.todo \in SUBSET Indices
    BY <2>1 DEF Call
  <2>3. 1 \in Byte /\ d = Digit(j, 1) /\ j = Min(call.todo)
    BY DEF Byte, Dig, Index
  <2> QED BY <2>1, <2>2, <2>3, IndexIn
<1>3. /\ a # Nil /\ At(a)[d] = Nil /\ call.tab[1] = t
      /\ (\A l \in Byte : l # 1 => Copied(call, l))
      /\ Fresh(n) /\ blocks[n] = Record(0)
  BY <1>1 DEF CallOK, Pending
<1>4. /\ lev[a] = 1 /\ a \in Tables
      /\ n \in DOMAIN blocks /\ n # Nil /\ lev[n] = 0 /\ n \notin Tables
  <2>1. n \in DOMAIN blocks /\ n # Nil
    BY <1>3, BlockFacts DEF Fresh
  <2>2. a \in DOMAIN blocks /\ lev[a] = 1
    BY <1>1, <1>2, <1>3 DEF CallOK, Keeps
  <2>3. n \notin Tables
    BY <1>3 DEF Tables, Record
  <2> QED BY <2>1, <2>2, <2>3 DEF Tree
<1>5. /\ Tables' = Tables
      /\ \A b \in Tables : b # a => At(b)' = At(b)
      /\ At(a)' = [At(a) EXCEPT ![d] = n]
  <2>1. blocks' = [blocks EXCEPT ![a] = Table(t)]
    BY <1>3 DEF LinkRecord, WriteBack
  <2>2. /\ Tree(lev) /\ Apart /\ a \in Tables /\ d \in Slots /\ At(a)[d] = Nil
        /\ Fresh(n) /\ lev[n] = lev[a] - 1
        /\ t = [At(a) EXCEPT ![d] = n] /\ blocks' = [blocks EXCEPT ![a] = Table(t)]
    BY <1>2, <1>3, <1>4, <2>1 DEF IInv
  <2>3. /\ Tables' = Tables /\ Len(blocks') = Len(blocks) /\ DOMAIN blocks' = DOMAIN blocks
        /\ \A b \in DOMAIN blocks : b # a => blocks'[b] = blocks[b] /\ At(b)' = At(b)
        /\ At(a)' = [At(a) EXCEPT ![d] = n]
        /\ Tree(lev)' /\ Apart'
    BY ONLY <2>2, PointerSet
  <2> QED BY <2>3, BlockFacts
<1>6. Hollow' \subseteq Hollow \ {a}
  <2>1. Hollow' \subseteq (Hollow \ {a}) \cup {n}
    <3>1. lev[n] # 0 => At(n) = EmptyTable
      BY <1>4
    <3>2. Linking(lev, a, d, n)
      BY ONLY <1>2, <1>3, <1>4, <1>5, <3>1 DEF Linking
    <3> QED BY ONLY <3>2, <1>4, <1>5, Tree(lev), HollowLinked
  <2>2. n \notin Hollow'
    BY <1>4, <1>5 DEF Hollow
  <2> QED BY <2>1, <2>2
<1>7. Node(j, lev[a]) = a /\ Digit(j, lev[a]) = d
  <2>1. \A b \in Byte : b > 1 => Copied(call, b)
    BY <1>3
  <2>2. Keeps(call, lev) /\ \A b \in 2..4 : call.last[b] = Dig(call, b)
    BY <1>1 DEF CallOK
  <2>3. \A b \in Byte : b >= 1 => Node(Min(call.todo), b) = call.off[b]
    BY <1>2, <2>1, <2>2, PathOfCall
  <2> QED BY <1>2, <1>4, <2>3
<1>8. Scan <= Scan' /\ (Scan' <= Scan \/ Scan' <= j)
  <2>1. /\ lev[a] \in 1..4 /\ lev[n] \in Int /\ (lev[n] # 0 => At(n) = EmptyTable) /\ Apart
        /\ lev[n] = lev[a] - 1
    BY <1>4 DEF IInv
  <2>2. Linking(lev, a, d, n)
    BY ONLY <1>2, <1>3, <1>4, <1>5, <2>1 DEF Linking
  <2>3. j \in InRange
    BY <1>2
  <2> QED BY ONLY <1>7, <2>1, <2>2, <2>3, Tree(lev), ScanFacts, ScanFacts', ScanLinked
<1>9. Same(call) /\ call'.stage = "write" /\ call'.update
  BY <1>2 DEF LinkRecord, VarDimUpdate, Same, Call
<1>10. HollowOK'
  BY <1>1, <1>6 DEF HollowOK, Working, LinkRecord
<1>11. ExactOK'
  <2>1. Scan \in Nat /\ Scan' \in Nat
    BY ScanNext DEF ScanFacts
  <2>2. DOMAIN written \subseteq DOMAIN written'
    BY DEF LinkRecord
  <2>3. dim' = dim
    BY DEF LinkRecord
  <2> QED BY <1>1, <1>8, <1>9, <2>1, <2>2, <2>3, IndexOfCall, ExactGrown
<1> QED BY <1>10, <1>11

LEMMA ScanWriteData ==
  ASSUME IInv, HollowOK, ExactOK, ScanFacts, ScanFacts', WriteData
  PROVE  HollowOK' /\ ExactOK'
<1> PICK lev : Tree(lev) /\ (~Idle => CallOK(call, lev))
  BY DEF IInv
<1>1. call.stage = "write" /\ ~Idle /\ CallOK(call, lev)
  BY DEF WriteData, Idle, NoCall
<1> PICK n : n = call.dest
  OBVIOUS
<1> PICK j : j = Index
  OBVIOUS
<1> PICK v : v = Data[call.data][j]
  OBVIOUS
<1>2. call \in Call /\ call.todo # {} /\ j \in Indices /\ j \in InRange /\ v \in Int
  <2>1. call \in Call /\ call.todo # {}
    BY <1>1 DEF CallOK, Keeps
  <2>2. call.todo \in SUBSET Indices /\ call.data \in DOMAIN Data
    BY <2>1 DEF Call
  <2>3. j \in Indices /\ j \in InRange
    BY <2>1, <2>2, IndexIn DEF Index
  <2> QED BY <2>1, <2>2, <2>3, DataAssumption
<1>3. RecordOf(j) = n /\ n # Nil /\ n \in DOMAIN blocks /\ lev[n] = 0
  <2>1. /\ Keeps(call, lev) /\ (\A b \in 2..4 : call.last[b] = Dig(call, b))
        /\ (\A b \in Byte : Copied(call, b)) /\ n = call.tab[1][Dig(call, 1)] /\ n # Nil
    BY <1>1 DEF CallOK
  <2>2. RecordOf(Min(call.todo)) = call.tab[1][Dig(call, 1)]
    <3>1. PICK m \in 0..4 : m = 0
      OBVIOUS
    <3>2. \A b \in Byte : b > m => Copied(call, b)
      BY <2>1
    <3> QED BY <1>2, <2>1, <3>1, <3>2, PathOfCall
  <2>3. Node(j, 0) = n
    BY <2>1, <2>2, NodeStep DEF Index
  <2> QED BY <1>2, <2>1, <2>2, <2>3, NodeLevels DEF Index
<1>4. j \in DOMAIN written
  BY <1>2, <1>3 DEF IInv, AllFound
<1>5. Tables' = Tables /\ \A b \in Tables : At(b)' = At(b)
  <2>1. Tree(lev) /\ Apart /\ n \in DOMAIN blocks /\ lev[n] = 0 /\ v \in Int
        /\ blocks' = [blocks EXCEPT ![n] = Record(v)]
    BY <1>2, <1>3 DEF IInv, WriteData
  <2>2. /\ Tables' = Tables /\ Len(blocks') = Len(blocks) /\ DOMAIN blocks' = DOMAIN blocks
        /\ \A b \in DOMAIN blocks : b # n => blocks'[b] = blocks[b]
        /\ \A b \in Tables : At(b)' = At(b)
        /\ Tree(lev)' /\ Apart'
    BY ONLY <2>1, RecordWritten
  <2> QED BY <2>2
<1>6. Hollow' \subseteq Hollow /\ Scan' = Scan
  BY <1>5, HollowKept, ScanOfTables
<1>7. /\ call'.all = call.all /\ call'.from = call.from /\ call'.exact = call.exact
      /\ call'.update = call.update /\ call'.stage = "locate" /\ call'.todo = call.todo \ {j}
  BY <1>2 DEF WriteData, Call
<1>8. DOMAIN written' = DOMAIN written
  BY DEF WriteData
<1>9. HollowOK'
  BY <1>1, <1>6 DEF HollowOK, Working, WriteData
<1>10. ExactOK'
  <2>1. Max(call.all)' = Max(call'.all) /\ Max(call'.all) = Max(call.all)
    BY <1>7 DEF Max
  <2>2. dim'[call'.from] = dim[call.from]
    BY <1>7 DEF WriteData
  <2> QED BY <1>1, <1>4, <1>6, <1>7, <1>8, <2>1, <2>2 DEF ExactOK
<1> QED BY <1>9, <1>10

LEMMA ScanEnd ==
  ASSUME IInv, HollowOK, ExactOK, ScanFacts, ScanFacts', NEW g \in Handles \cup {Nowhere}, End(g)
  PROVE  HollowOK' /\ ExactOK'
<1>1. Hollow' \subseteq Hollow
  BY FileStays DEF End
<1>2. call.stage = "locate" /\ Idle'
  BY DEF End, AllWritten, Idle
<1>3. Working = {}
  BY <1>2 DEF Working
<1> QED BY <1>1, <1>2, <1>3 DEF HollowOK, ExactOK, End

LEMMA ScanCut ==
  ASSUME IInv, HollowOK, ExactOK, ScanFacts, ScanFacts', Fail \/ Crash \/ UNCHANGED vars
  PROVE  HollowOK' /\ ExactOK'
<1>1. Hollow' \subseteq Hollow /\ Scan' = Scan
  BY FileStays DEF Fail, Crash, vars
<1>2. CASE Fail \/ Crash
  <2>1. Idle' /\ torn' = (torn \/ Hollow # {})
    BY <1>2 DEF Fail, Crash, Idle
  <2> QED BY <1>1, <2>1 DEF HollowOK, ExactOK
<1>3. CASE UNCHANGED vars
  <2>1. Working' = Working
    BY <1>3 DEF Working, Idle, vars
  <2>2. HollowOK'
    BY <1>1, <1>3, <2>1 DEF HollowOK, vars
  <2>3. CASE Idle
    BY <1>3, <2>2, <2>3 DEF ExactOK, Idle, vars
  <2>4. CASE ~Idle
    BY <1>1, <1>3, <2>2, <2>4, ExactKept DEF Same, vars
  <2> QED BY <2>3, <2>4
<1> QED BY <1>2, <1>3

ScanInv == IInv /\ HollowOK /\ ExactOK

LEMMA ScanNextInv == ScanInv /\ [Next]_vars => ScanInv'
<1>0. IInv /\ [Next]_vars => IInv' /\ ScanFacts /\ ScanFacts'
  BY NextInv, ScanFactsHold, ScanFactsNext
<1> SUFFICES ASSUME IInv, HollowOK, ExactOK, ScanFacts, ScanFacts', [Next]_vars
             PROVE  HollowOK' /\ ExactOK'
  BY <1>0 DEF ScanInv
<1>1. ASSUME NEW h \in Handles, Open(h) PROVE HollowOK' /\ ExactOK'
  BY <1>1, ScanOpen
<1>2. ASSUME NEW h \in Handles, NEW B \in Batches, NEW d \in DOMAIN Data, Begin(h, B, d)
      PROVE  HollowOK' /\ ExactOK'
  BY <1>2, ScanBegin
<1>3. CASE Locate
  BY <1>3, ScanLocate
<1>4. CASE RecheckTable
  BY <1>4, ScanRecheckTable
<1>5. CASE AppendTable
  BY <1>5, ScanAppendTable
<1>6. CASE LinkTable
  BY <1>6, ScanLinkTable
<1>7. CASE AppendRecord
  BY <1>7, ScanAppendRecord
<1>8. CASE LinkRecord
  BY <1>8, ScanLinkRecord
<1>9. CASE WriteData
  BY <1>9, ScanWriteData
<1>10. ASSUME NEW g \in Handles \cup {Nowhere}, End(g) PROVE HollowOK' /\ ExactOK'
  BY <1>10, ScanEnd
<1>11. CASE Fail \/ Crash \/ UNCHANGED vars
  BY <1>11, ScanCut
<1> QED BY <1>1, <1>2, <1>3, <1>4, <1>5, <1>6, <1>7, <1>8, <1>9, <1>10, <1>11
        DEF Next, PutStep

\* The invariant of the dimension holds in every state.
THEOREM DimensionInductive == Spec => []ScanInv
<1>1. Init => ScanInv
  BY InitInv, ScanInit DEF ScanInv
<1>2. ScanInv /\ [Next]_vars => ScanInv'
  BY ScanNextInv
<1> QED BY <1>1, <1>2, PTL DEF Spec

------------------------------------------------------------------------------
(* What follows for the dimension.                                         *)

LEMMA LargestIndex ==
  ASSUME IInv
  PROVE  LET largest == Max(DOMAIN written \cup {0}) IN
         /\ largest \in Nat /\ (largest = 0 \/ largest \in DOMAIN written)
         /\ \A i \in DOMAIN written \cup {0} : i <= largest
<1> PICK S : S = DOMAIN written \cup {0}
  OBVIOUS
<1> PICK m : m = Radix * Radix * Radix * Radix
  OBVIOUS
<1>1. m \in Nat
  <2>1. Radix * Radix * Radix \in Nat /\ Radix \in Nat
    BY Powers
  <2> QED BY <2>1
<1>2. S \subseteq Nat /\ S # {} /\ \A i \in S : i <= m
  BY <1>1, IndexAssumption DEF IInv, AllFound
<1>3. Max(S) \in S /\ \A i \in S : i <= Max(S)
  BY <1>1, <1>2, MaxOfNaturals
<1> QED BY <1>2, <1>3

\* Index 0, which no call writes, has the path that vs_def leaves (vs_def.m:541-557).
LEMMA FirstPath ==
  ASSUME NEW lev, Tree(lev)
  PROVE  /\ 0 \in InRange /\ \A b \in Byte : Digit(0, b) = 0
         /\ Node(0, 1) = 4
<1>1. 0 \in InRange /\ \A b \in Byte : Digit(0, b) = 0
  <2>1. Power(1) \in Nat /\ Power(2) \in Nat /\ Power(3) \in Nat /\ 0 \in Slots
    BY Powers
  <2>2. 0 = 0 * Power(3) + 0 * Power(2) + 0 * Power(1) + 0
    BY <2>1
  <2> QED BY <2>1, <2>2, DigitsOfSum DEF Byte
<1>2. 1 \in Byte /\ 2 \in Byte /\ 3 \in Byte /\ 4 \in Byte
  BY DEF Byte
<1>3. /\ Node(0, 3) = Below(1, 0, 4)
      /\ Node(0, 2) = Below(Node(0, 3), 0, 3)
      /\ Node(0, 1) = Below(Node(0, 2), 0, 2)
  BY DEF Node
<1>4. Node(0, 3) = 2
  BY <1>1, <1>2, <1>3 DEF Below, Tree, Nil
<1>5. Node(0, 2) = 3
  BY <1>1, <1>2, <1>3, <1>4 DEF Below, Tree, Nil
<1>6. Node(0, 1) = 4
  BY <1>1, <1>2, <1>3, <1>5 DEF Below, Tree, Nil
<1> QED BY <1>1, <1>6

\* An empty table in which the scan stops is the last one of vs_def.
LEMMA StoppedAt ==
  ASSUME NEW lev, Tree(lev), Apart, Hollow = {},
         NEW i \in InRange, NEW b \in Byte, b # 1,
         Node(i, b - 1) # Nil, Stops(Node(i, b - 1))
  PROVE  Upto(i, b) = 0
<1> PICK m \in 1..3 : m = b - 1
  BY DEF Byte
<1> PICK a : a = Node(i, m)
  OBVIOUS
<1>1. a # Nil /\ Stops(a) /\ a \in Tables /\ lev[a] = m
  BY NodeLevels DEF Byte
<1>2. Used(a) = {} /\ At(a) \in [Slots -> Nat]
  BY <1>1, BlockFacts DEF Stops
<1>3. At(a) = EmptyTable
  BY <1>2 DEF Used, EmptyTable
<1>4. b \in Byte /\ a = Below(Node(i, b), i, b)
  BY NodeStep
<1>5. \E c \in Tables, s \in Slots : At(c)[s] = a
  BY <1>1, <1>4, NodeLevels, IndexOfDigits DEF Below
<1>6. a <= 4
  BY <1>1, <1>3, <1>5, BlockFacts DEF Hollow
<1>7. a = 4
  <2>1. a \in 1..4
    BY <1>1, <1>6, BlockFacts
  <2>2. a # 1
    BY <1>1 DEF Tree
  <2>3. 0 \in Slots
    BY Powers
  <2>4. At(2)[0] # Nil /\ At(3)[0] # Nil
    BY DEF Tree, Nil
  <2>5. 0 \in Used(2) /\ 0 \in Used(3)
    BY ONLY <2>3, <2>4 DEF Used
  <2>6. a # 2 /\ a # 3
    BY ONLY <1>2, <2>5
  <2> QED BY <2>1, <2>2, <2>6
<1>8. m = 1
  <2>1. lev[2] = 3 /\ lev[3] = 2 /\ lev[4] = 1
    <3>1. /\ lev[1] = 4 /\ 1 \in Tables /\ 2 \in Tables /\ 3 \in Tables /\ 0 \in Slots
          /\ At(1)[0] = 2 /\ At(2)[0] = 3 /\ At(3)[0] = 4 /\ 2 # Nil /\ 3 # Nil /\ 4 # Nil
      BY Powers DEF Tree, Nil
    <3>2. \A c \in Tables, s \in Slots : At(c)[s] # Nil => lev[At(c)[s]] = lev[c] - 1
      BY DEF Tree
    <3>3. lev[2] = 3
      BY <3>1, <3>2
    <3>4. lev[3] = 2
      BY <3>1, <3>2, <3>3
    <3> QED BY <3>1, <3>2, <3>3, <3>4
  <2> QED BY <1>1, <1>7, <2>1
<1>9. \A c \in Byte : c > 1 => Digit(i, c) = 0
  <2>1. Node(i, m) # Nil /\ Node(i, m) = Node(0, m) /\ 0 \in InRange
    BY <1>1, <1>7, <1>8, FirstPath
  <2>2. \A c \in Byte : c > m => Digit(i, c) = Digit(0, c)
    BY <2>1, PathsApart
  <2> QED BY <1>8, <2>2, FirstPath
<1>10. Digit(i, 4) = 0 /\ Digit(i, 3) = 0 /\ Digit(i, 2) = 0 /\ b = 2
  BY <1>8, <1>9 DEF Byte
<1>11. Power(1) \in Nat /\ Power(2) \in Nat /\ Power(3) \in Nat
  BY Powers
<1>12. 0 * Power(3) = 0 /\ 0 * Power(2) = 0 /\ 0 * Power(1) = 0
  BY <1>11
<1> QED BY <1>10, <1>12 DEF Upto

LEMMA ImpliesScanExact == ScanInv => ScanExact
<1> SUFFICES ASSUME IInv, HollowOK PROVE ScanExact
  BY DEF ScanInv
<1> PICK lev : Tree(lev)
  BY DEF IInv
<1>0. ScanFacts
  BY ScanFactsHold
<1> PICK largest : largest = Max(DOMAIN written \cup {0})
  OBVIOUS
<1>1. /\ largest \in Nat /\ (largest = 0 \/ largest \in DOMAIN written)
      /\ \A i \in DOMAIN written \cup {0} : i <= largest
  BY LargestIndex
<1>2. \A i \in DOMAIN written : i \in InRange
  BY IndexAssumption, Powers DEF IInv, AllFound, InRange
<1>3. largest <= Scan
  <2>1. CASE largest = 0
    BY <1>0, <2>1 DEF ScanFacts
  <2>2. CASE largest \in DOMAIN written
    <3>1. largest \in InRange /\ Node(largest, 0) # Nil
      BY <1>2, <2>2, NodeStep DEF IInv, AllFound
    <3>2. 1 \in Byte /\ Node(largest, 1 - 1) # Nil
      BY <3>1 DEF Byte
    <3>3. Upto(largest, 1) <= Scan
      BY <1>0, <3>1, <3>2 DEF ScanFacts
    <3> QED BY <3>1, <3>3, UptoIndex
  <2> QED BY <1>1, <2>1, <2>2
<1>4. ASSUME Idle, ~torn PROVE Scan = largest
  <2>1. Hollow = {} /\ Apart
    BY <1>4 DEF HollowOK, Working, IInv
  <2>2. PICK i \in InRange, b \in Byte : /\ Scan = Upto(i, b) /\ Node(i, b - 1) # Nil
                                         /\ b = 1 \/ Stops(Node(i, b - 1))
    BY <1>0 DEF ScanFacts
  <2>3. CASE b = 1
    <3>1. Node(i, 0) # Nil
      BY <2>2, <2>3
    <3>2. i \in DOMAIN written
      BY <3>1, NodeStep DEF IInv, AllFound
    <3>3. Scan = i
      BY <2>2, <2>3, UptoIndex
    <3>4. i <= largest
      BY <1>1, <3>2
    <3>5. i \in Int
      BY Powers DEF InRange
    <3> QED BY ONLY <1>1, <1>3, <3>3, <3>4, <3>5
  <2>4. CASE b # 1
    <3>1. Scan = 0
      BY <2>1, <2>2, <2>4, StoppedAt
    <3> QED BY <1>1, <1>3, <3>1
  <2> QED BY <2>3, <2>4
<1> QED BY <1>3, <1>4 DEF ScanExact

\* vs_use finds every index that was written, and no more of them unless a call was cut
\* short between the linking of a table and the pointer to its first record.
THEOREM DimensionFound == Spec => []ScanExact
  BY DimensionInductive, ImpliesScanExact, PTL

LEMMA ImpliesNewDimExact == ScanInv => NewDimExact
<1> SUFFICES ASSUME ScanInv, AllWritten, call.exact PROVE NewDim = Scan
  BY DEF NewDimExact
<1> PICK lev : Tree(lev) /\ (~Idle => CallOK(call, lev))
  BY DEF ScanInv, IInv
<1>1. ~Idle /\ call.stage = "locate" /\ call.todo = {}
  BY DEF AllWritten, Idle, NoCall
<1>2. call.all \in SUBSET Indices /\ call.all # {}
  <2>1. call \in Call
    BY <1>1 DEF CallOK, Keeps
  <2> QED BY <2>1 DEF Call
<1> PICK m : m = Max(call.all)
  OBVIOUS
<1> PICK old : old = dim[call.from]
  OBVIOUS
<1>3. m \in call.all /\ m \in Nat
  <2>1. PICK S \in SUBSET Indices : S = call.all
    BY <1>2
  <2>2. Max(S) \in S /\ Max(S) \in Nat
    BY <1>2, <2>1, GreatestIndex
  <2> QED BY <2>1, <2>2
<1>4. /\ old \in Nat /\ old <= Scan /\ (Scan <= old \/ Scan <= m)
      /\ ~call.update => Scan = old
      /\ m \in DOMAIN written
  BY <1>1, <1>3 DEF ScanInv, ExactOK
<1>5. m <= Scan /\ Scan \in Nat
  <2>1. ScanFacts
    BY ScanFactsHold DEF ScanInv
  <2>2. m \in InRange /\ Node(m, 0) # Nil
    BY <1>2, <1>3, <1>4, IndexAssumption, Powers, NodeStep
       DEF ScanInv, IInv, AllFound, InRange
  <2>3. 1 \in Byte /\ Node(m, 1 - 1) # Nil
    BY <2>2 DEF Byte
  <2>4. Upto(m, 1) <= Scan
    BY <2>1, <2>2, <2>3 DEF ScanFacts
  <2> QED BY <2>1, <2>2, <2>4, UptoIndex DEF ScanFacts
<1>6. Max({m, old}) = IF m >= old THEN m ELSE old
  BY <1>3, <1>4, MaxOfTwo
<1> QED BY <1>4, <1>5, <1>6, <1>3 DEF NewDim

\* vs_put returns the dimension that reading the file again would find, if it was
\* called with a structure that had the right one.
THEOREM DimensionReturned == Spec => []NewDimExact
  BY DimensionInductive, ImpliesNewDimExact, PTL
==============================================================================
