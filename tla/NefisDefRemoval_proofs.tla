------------------------ MODULE NefisDefRemoval_proofs ------------------------
(* A removal from a structure that is up to date removes exactly what its      *)
(* command stands for, unless a cell lists an element twice.                   *)
EXTENDS NefisDef_proofs, FunctionTheorems

------------------------------------------------------------------------------
(* What uses what, among the linked records L of R.                          *)

UsesIt(R, p, o)  == R[o].lev = R[p].lev - 1 /\ R[o].name \in Range(R[p].refs)
UsedIn(R, L, o)  == {p \in L : UsesIt(R, o, p)}
UsersAt(R, L, o) == {p \in L : UsesIt(R, p, o)}

\* With a record, S holds all that uses it.
ClosedUp(R, L, S) == \A p \in S : UsersAt(R, L, p) \subseteq S

\* The records of T and all that uses them, directly or not.
Over(R, L, T) == {p \in L : \A S \in SUBSET L : T \subseteq S /\ ClosedUp(R, L, S) => p \in S}

\* The records of T that nothing uses.
Free(R, L, T) == {p \in T : UsersAt(R, L, p) = {}}

\* The records that are needed only because of those of T, which nothing else needs: all
\* their users are among them, and they have users or are of T.
LooseSet(R, L, T, Q) ==
  /\ Q \in SUBSET L /\ ClosedUp(R, L, Q)
  /\ \A p \in Q : p \in T \/ UsersAt(R, L, p) # {}
Loose(R, L, T) == UNION {Q \in SUBSET L : LooseSet(R, L, T, Q)}

\* Whatever S is, its records have levels.
Levelled(R, S) == \A o \in S : R[o].lev \in 1..4

\* Going from users to users ends at a record that nothing uses.
LEMMA Top ==
  ASSUME NEW R, NEW L, Levelled(R, L), NEW Q \in SUBSET L, ClosedUp(R, L, Q), NEW p \in Q
  PROVE  \E q \in Q : /\ UsersAt(R, L, q) = {} /\ R[q].lev >= R[p].lev
                      /\ UsersAt(R, L, p) # {} => R[q].lev > R[p].lev
<1> DEFINE Ends(x) == \E q \in Q : UsersAt(R, L, q) = {} /\ R[q].lev >= R[x].lev
<1>1. \A x \in Q : R[x].lev \in 1..4
  BY DEF Levelled
<1>2. ASSUME NEW x \in Q, UsersAt(R, L, x) = {} PROVE Ends(x)
  BY <1>1, <1>2
<1>3. ASSUME NEW x \in Q, UsersAt(R, L, x) # {} PROVE \E u \in Q : R[u].lev = R[x].lev + 1
  <2>1. PICK u \in UsersAt(R, L, x) : TRUE
    BY <1>3
  <2>2. u \in Q
    BY <2>1 DEF ClosedUp
  <2>3. R[x].lev = R[u].lev - 1
    BY <2>1 DEF UsersAt, UsesIt
  <2> QED BY <2>2, <2>3, <1>1
<1>4. \A x \in Q : R[x].lev = 4 => Ends(x)
  BY <1>1, <1>2, <1>3
<1>5. ASSUME NEW n \in 1..3, \A x \in Q : R[x].lev = n + 1 => Ends(x), NEW x \in Q, R[x].lev = n
      PROVE  Ends(x)
  <2>1. CASE UsersAt(R, L, x) # {}
    <3>1. PICK u \in Q : R[u].lev = n + 1
      BY <1>3, <1>5, <2>1
    <3>2. PICK q \in Q : UsersAt(R, L, q) = {} /\ R[q].lev >= n + 1
      BY <3>1, <1>5
    <3>3. R[q].lev >= R[x].lev
      BY <3>2, <1>1, <1>5
    <3> QED BY <3>2, <3>3
  <2> QED BY <2>1, <1>2
<1> HIDE DEF Ends
<1>6. \A x \in Q : R[x].lev = 3 => Ends(x)
  BY <1>4, <1>5
<1>7. \A x \in Q : R[x].lev = 2 => Ends(x)
  BY <1>6, <1>5
<1>8. \A x \in Q : R[x].lev = 1 => Ends(x)
  BY <1>7, <1>5
<1>9. \A x \in Q : Ends(x)
  BY <1>1, <1>4, <1>6, <1>7, <1>8
<1>10. CASE UsersAt(R, L, p) = {}
  BY <1>10, <1>1
<1>11. CASE UsersAt(R, L, p) # {}
  <2>1. PICK u \in Q : R[u].lev = R[p].lev + 1
    BY <1>3, <1>11
  <2>2. PICK q \in Q : UsersAt(R, L, q) = {} /\ R[q].lev >= R[u].lev
    BY <1>9 DEF Ends
  <2>3. R[q].lev > R[p].lev /\ R[q].lev >= R[p].lev
    BY <2>1, <2>2, <1>1
  <2> QED BY <2>2, <2>3
<1> QED BY <1>10, <1>11

\* A record that nothing uses goes: what else becomes loose is what it used.
LEMMA LooseStep ==
  ASSUME NEW R, NEW L, NEW t \in L, UsersAt(R, L, t) = {}, Levelled(R, L)
  PROVE  Loose(R, L, {t}) = {t} \cup Loose(R, L \ {t}, UsedIn(R, L, t))
<1> DEFINE M == L \ {t}
           T == UsedIn(R, L, t)
<1>1. \A p : UsersAt(R, M, p) = UsersAt(R, L, p) \ {t}
  BY DEF UsersAt
<1>2. \A p \in L : p \in T <=> t \in UsersAt(R, L, p)
  BY DEF UsedIn, UsersAt
<1>3. ASSUME NEW Q, LooseSet(R, L, {t}, Q) PROVE LooseSet(R, M, T, Q \ {t})
  <2>1. ClosedUp(R, M, Q \ {t})
    BY <1>1, <1>3 DEF LooseSet, ClosedUp
  <2>2. ASSUME NEW p \in Q \ {t} PROVE p \in T \/ UsersAt(R, M, p) # {}
    BY <1>1, <1>2, <1>3 DEF LooseSet
  <2> QED BY <2>1, <2>2, <1>3 DEF LooseSet
<1>4. ASSUME NEW Q, LooseSet(R, M, T, Q) PROVE LooseSet(R, L, {t}, Q \cup {t})
  <2>1. ClosedUp(R, L, Q \cup {t})
    BY <1>1, <1>4 DEF LooseSet, ClosedUp
  <2>2. ASSUME NEW p \in Q PROVE UsersAt(R, L, p) # {}
    BY <1>1, <1>2, <1>4 DEF LooseSet
  <2> QED BY <2>1, <2>2, <1>4 DEF LooseSet
<1>5. ASSUME NEW x \in Loose(R, L, {t}), x # t PROVE x \in Loose(R, M, T)
  <2>1. PICK Q : LooseSet(R, L, {t}, Q) /\ x \in Q
    BY DEF Loose
  <2>2. LooseSet(R, M, T, Q \ {t}) /\ x \in Q \ {t}
    BY <2>1, <1>3, <1>5
  <2> QED BY <2>2 DEF Loose, LooseSet
<1>6. ASSUME NEW x \in Loose(R, M, T) PROVE x \in Loose(R, L, {t})
  <2>1. PICK Q : LooseSet(R, M, T, Q) /\ x \in Q
    BY DEF Loose
  <2>2. LooseSet(R, L, {t}, Q \cup {t})
    BY <2>1, <1>4
  <2> QED BY <2>1, <2>2 DEF Loose, LooseSet
<1>7. t \in Loose(R, L, {t})
  <2>1. LooseSet(R, L, {t}, {t})
    BY DEF LooseSet, ClosedUp
  <2> QED BY <2>1 DEF Loose, LooseSet
<1> QED BY <1>5, <1>6, <1>7

\* Where all records of T are used, nothing is loose.
LEMMA LooseNone ==
  ASSUME NEW R, NEW L, Levelled(R, L), NEW T, \A t \in T : UsersAt(R, L, t) # {}
  PROVE  Loose(R, L, T) = {}
<1>1. SUFFICES ASSUME NEW Q \in SUBSET L, LooseSet(R, L, T, Q), NEW p \in Q PROVE FALSE
  BY DEF Loose
<1>2. PICK q \in Q : UsersAt(R, L, q) = {}
  BY <1>1, Top DEF LooseSet
<1> QED BY <1>1, <1>2 DEF LooseSet

\* Of elements, those are loose that nothing uses.
LEMMA LooseElements ==
  ASSUME NEW R, NEW L, Levelled(R, L), NEW T \in SUBSET L, \A t \in T : R[t].lev = 1
  PROVE  Loose(R, L, T) = Free(R, L, T)
<1>1. LooseSet(R, L, T, Free(R, L, T))
  BY DEF LooseSet, ClosedUp, Free
<1>2. ASSUME NEW Q \in SUBSET L, LooseSet(R, L, T, Q), NEW p \in Q PROVE p \in Free(R, L, T)
  <2>1. CASE UsersAt(R, L, p) # {}
    <3>1. PICK q \in Q : UsersAt(R, L, q) = {} /\ R[q].lev > R[p].lev
      BY <1>2, <2>1, Top DEF LooseSet
    <3>2. q \in T /\ R[p].lev \in 1..4
      BY <1>2, <3>1 DEF LooseSet, Levelled
    <3>3. R[q].lev = 1
      BY <3>2
    <3> QED BY <3>1, <3>2, <3>3
  <2>2. CASE UsersAt(R, L, p) = {}
    BY <1>2, <2>2 DEF LooseSet, Free
  <2> QED BY <2>1, <2>2
<1> QED BY <1>1, <1>2 DEF Loose, LooseSet

\* The users of a record of T may be counted in.
LEMMA OverUsers ==
  ASSUME NEW R, NEW L, NEW T, NEW t \in T
  PROVE  Over(R, L, T \cup UsersAt(R, L, t)) = Over(R, L, T)
<1>1. \A S \in SUBSET L : ClosedUp(R, L, S) => (T \cup UsersAt(R, L, t) \subseteq S <=> T \subseteq S)
  BY DEF ClosedUp
<1> QED BY <1>1 DEF Over

\* A record of T that nothing uses goes first.
LEMMA OverStep ==
  ASSUME NEW R, NEW L, NEW T \in SUBSET L, NEW t \in L, t \notin T, UsersAt(R, L, t) = {}
  PROVE  Over(R, L, {t} \cup T) = {t} \cup Over(R, L \ {t}, T)
<1> DEFINE M == L \ {t}
<1>1. \A p : UsersAt(R, M, p) = UsersAt(R, L, p) \ {t}
  BY DEF UsersAt
<1>2. ASSUME NEW p \in Over(R, L, {t} \cup T), p # t PROVE p \in Over(R, M, T)
  <2>1. p \in M
    BY <1>2 DEF Over
  <2>2. ASSUME NEW S \in SUBSET M, T \subseteq S, ClosedUp(R, M, S) PROVE p \in S
    <3>1. ClosedUp(R, L, S \cup {t})
      BY <1>1, <2>2 DEF ClosedUp
    <3>2. S \cup {t} \in SUBSET L /\ {t} \cup T \subseteq S \cup {t}
      BY <2>2
    <3> QED BY <1>2, <3>1, <3>2 DEF Over
  <2> QED BY <2>1, <2>2 DEF Over
<1>3. ASSUME NEW p \in Over(R, M, T) PROVE p \in Over(R, L, {t} \cup T)
  <2>1. p \in L
    BY DEF Over
  <2>2. ASSUME NEW S \in SUBSET L, {t} \cup T \subseteq S, ClosedUp(R, L, S) PROVE p \in S
    <3>1. ClosedUp(R, M, S \ {t})
      BY <1>1, <2>2 DEF ClosedUp
    <3>2. S \ {t} \in SUBSET M /\ T \subseteq S \ {t}
      BY <2>2
    <3> QED BY <3>1, <3>2 DEF Over
  <2> QED BY <2>1, <2>2 DEF Over
<1>4. t \in Over(R, L, {t} \cup T)
  BY DEF Over
<1> QED BY <1>2, <1>3, <1>4

\* Elements that are not used go one by one.
LEMMA FreeStep ==
  ASSUME NEW R, NEW L, NEW T \in SUBSET L, NEW t \in L, t \notin T, UsersAt(R, L, t) = {},
         T # {} => R[t].lev = 1, Levelled(R, L)
  PROVE  Free(R, L, {t} \cup T) = {t} \cup Free(R, L \ {t}, T)
<1>1. ASSUME NEW p \in T PROVE UsersAt(R, L \ {t}, p) = UsersAt(R, L, p)
  <2>1. R[t].lev = 1 /\ R[p].lev \in 1..4
    BY DEF Levelled
  <2>2. ~UsesIt(R, t, p)
    BY <2>1 DEF UsesIt
  <2> QED BY <2>2 DEF UsersAt
<1> QED BY <1>1 DEF Free

------------------------------------------------------------------------------
(* What a removal should come to, in these terms.                            *)

LEMMA UsesMeanUses ==
  ASSUME NEW o \in live
  PROVE  UsersOf(o) = UsersAt(records, live, o) /\ UsedBy(o) = UsedIn(records, live, o)
BY DEF UsersOf, UsedBy, UsersAt, UsedIn, UsesIt

\* A set that begins with o, and goes up.
Rising(o, X) ==
  X \in SUBSET live /\ \A x \in X : x = o \/ records[x].lev > records[o].lev

LEMMA UpRises ==
  ASSUME Levelled(records, live), NEW o \in live, NEW X, Rising(o, X)
  PROVE  /\ Rising(o, Up(X))
         /\ \A x \in X : UsersAt(records, live, x) \subseteq Up(X)
         /\ \A u \in Up(X) \ X : \E x \in X :
              u \in UsersAt(records, live, x) /\ records[u].lev = records[x].lev + 1
         /\ \A S \in SUBSET live : X \subseteq S /\ ClosedUp(records, live, S) => Up(X) \subseteq S
<1>1. \A x \in X : x \in live /\ UsersOf(x) = UsersAt(records, live, x)
  BY UsesMeanUses DEF Rising
<1>2. \A x \in X : \A u \in UsersAt(records, live, x) : u \in live /\ records[x].lev = records[u].lev - 1
  BY DEF UsersAt, UsesIt
<1>3. \A x \in live : records[x].lev \in 1..4
  BY DEF Levelled
<1>4. \A u \in Up(X) : u \in X \/ \E x \in X : u \in UsersAt(records, live, x)
  BY <1>1 DEF Up
<1>5. ASSUME NEW x \in X, NEW u \in UsersAt(records, live, x)
      PROVE  records[u].lev = records[x].lev + 1 /\ records[u].lev > records[o].lev
  <2>1. u \in live /\ x \in live /\ records[x].lev = records[u].lev - 1
    BY <1>1, <1>2
  <2>2. records[x].lev \in 1..4 /\ records[u].lev \in 1..4 /\ records[o].lev \in 1..4
    BY <2>1, <1>3
  <2>3. x = o \/ records[x].lev > records[o].lev
    BY DEF Rising
  <2> QED BY <2>1, <2>2, <2>3
<1>6. Rising(o, Up(X))
  BY <1>2, <1>4, <1>5 DEF Rising
<1>7. \A x \in X : UsersAt(records, live, x) \subseteq Up(X)
  BY <1>1 DEF Up
<1>8. \A u \in Up(X) \ X : \E x \in X :
        u \in UsersAt(records, live, x) /\ records[u].lev = records[x].lev + 1
  BY <1>4, <1>5
<1>9. \A S \in SUBSET live : X \subseteq S /\ ClosedUp(records, live, S) => Up(X) \subseteq S
  BY <1>4 DEF ClosedUp
<1> QED BY <1>6, <1>7, <1>8, <1>9

\* Three steps up are all.
LEMMA AboveIsOver ==
  ASSUME Levelled(records, live), NEW o \in live
  PROVE  /\ Above(o) = Over(records, live, {o})
         /\ Rising(o, Above(o)) /\ ClosedUp(records, live, Above(o)) /\ o \in Above(o)
<1> DEFINE A1 == Up({o})
           A2 == Up(A1)
           A3 == Up(A2)
<1>1. Rising(o, {o})
  BY DEF Rising
<1>2. /\ Rising(o, A1) /\ \A u \in A1 \ {o} : records[u].lev = records[o].lev + 1
      /\ \A S \in SUBSET live : o \in S /\ ClosedUp(records, live, S) => A1 \subseteq S
  <2> DEFINE A0 == {o}
  <2>1. Rising(o, A0) /\ A1 = Up(A0)
    BY <1>1
  <2> HIDE DEF A0, A1
  <2>2. /\ Rising(o, A1)
        /\ \A u \in A1 \ A0 : \E x \in A0 : records[u].lev = records[x].lev + 1
        /\ \A S \in SUBSET live : A0 \subseteq S /\ ClosedUp(records, live, S) => A1 \subseteq S
    BY ONLY Levelled(records, live), o \in live, <2>1, UpRises
  <2> QED BY ONLY <2>2 DEF A0
<1> HIDE DEF A1
<1>3. /\ Rising(o, A2) /\ \A x \in A1 : UsersAt(records, live, x) \subseteq A2
      /\ \A u \in A2 \ A1 : \E x \in A1 :
           u \in UsersAt(records, live, x) /\ records[u].lev = records[x].lev + 1
      /\ \A S \in SUBSET live : A1 \subseteq S /\ ClosedUp(records, live, S) => A2 \subseteq S
  BY <1>2, UpRises
<1> HIDE DEF A2
<1>4. /\ Rising(o, A3) /\ \A x \in A2 : UsersAt(records, live, x) \subseteq A3
      /\ \A u \in A3 \ A2 : \E x \in A2 :
           u \in UsersAt(records, live, x) /\ records[u].lev = records[x].lev + 1
      /\ \A S \in SUBSET live : A2 \subseteq S /\ ClosedUp(records, live, S) => A3 \subseteq S
  BY <1>3, UpRises
<1>5. \A x \in live : records[x].lev \in 1..4
  BY DEF Levelled
<1>6. o \in A1 /\ A1 \subseteq A2 /\ A2 \subseteq A3
  BY DEF A1, A2, Up
<1> HIDE DEF A3
<1>7. UsersAt(records, live, o) \subseteq A1
  BY <1>1, UpRises DEF A1
<1>8. \A x \in A3 : x \in live
  BY <1>4 DEF Rising
<1>9. ASSUME NEW u \in A1, u # o PROVE records[u].lev >= records[o].lev + 1
  BY <1>2, <1>5, <1>6, <1>8, <1>9
<1>10. ASSUME NEW u \in A2, u \notin A1 PROVE records[u].lev >= records[o].lev + 2
  <2>1. PICK x \in A1 : u \in UsersAt(records, live, x) /\ records[u].lev = records[x].lev + 1
    BY <1>3, <1>10
  <2>2. x # o
    BY <1>7, <1>10, <2>1
  <2> QED BY <2>1, <2>2, <1>5, <1>6, <1>8, <1>9
<1>11. ASSUME NEW u \in A3, u \notin A2 PROVE records[u].lev >= records[o].lev + 3
  <2>1. PICK x \in A2 : u \in UsersAt(records, live, x) /\ records[u].lev = records[x].lev + 1
    BY <1>4, <1>11
  <2>2. x \notin A1
    BY <1>3, <1>11, <2>1
  <2> QED BY <2>1, <2>2, <1>5, <1>6, <1>8, <1>10
<1>12. ASSUME NEW x \in A3, NEW u \in UsersAt(records, live, x) PROVE u \in A3
  <2>1. CASE x \in A2
    BY <1>4, <2>1
  <2>2. CASE x \notin A2
    <3>1. u \in live /\ records[x].lev = records[u].lev - 1
      BY DEF UsersAt, UsesIt
    <3> QED BY <3>1, <2>2, <1>5, <1>8, <1>11
  <2> QED BY <2>1, <2>2
<1>13. ClosedUp(records, live, A3)
  BY <1>12 DEF ClosedUp
<1>14. \A S \in SUBSET live : o \in S /\ ClosedUp(records, live, S) => A3 \subseteq S
  BY <1>2, <1>3, <1>4
<1>15. A3 = Over(records, live, {o})
  BY <1>6, <1>8, <1>13, <1>14 DEF Over
<1>16. Above(o) = A3
  BY DEF Above, A1, A2, A3
<1> QED BY <1>4, <1>6, <1>13, <1>15, <1>16

\* A set that begins with o, and goes down.
Falling(o, X) ==
  /\ X \in SUBSET live
  /\ \A x \in X : x = o \/ /\ records[x].lev < records[o].lev
                           /\ \E y \in X : UsesIt(records, y, x)

LEMMA DownFalls ==
  ASSUME Levelled(records, live), NEW o \in live, NEW X, Falling(o, X)
  PROVE  Falling(o, Down(X)) /\ X \subseteq Down(X) /\ \A x \in X : UsedIn(records, live, x) \subseteq Down(X)
<1>1. \A x \in X : x \in live /\ UsedBy(x) = UsedIn(records, live, x)
  BY UsesMeanUses DEF Falling
<1>2. \A p \in Down(X) : p \in X \/ \E x \in X : p \in UsedIn(records, live, x)
  BY <1>1 DEF Down
<1>3. ASSUME NEW x \in X, NEW p \in UsedIn(records, live, x)
      PROVE  records[p].lev < records[o].lev /\ UsesIt(records, x, p) /\ p \in live
  <2>1. p \in live /\ x \in live /\ UsesIt(records, x, p)
    BY <1>1 DEF UsedIn
  <2>2. records[p].lev = records[x].lev - 1
    BY <2>1 DEF UsesIt
  <2>3. x = o \/ records[x].lev < records[o].lev
    BY DEF Falling
  <2>4. records[p].lev \in 1..4 /\ records[x].lev \in 1..4 /\ records[o].lev \in 1..4
    BY <2>1 DEF Levelled
  <2> QED BY <2>1, <2>2, <2>3, <2>4
<1>4. X \subseteq Down(X) /\ \A x \in X : UsedIn(records, live, x) \subseteq Down(X)
  BY <1>1 DEF Down
<1>5. Falling(o, Down(X))
  BY <1>2, <1>3, <1>4 DEF Falling
<1> QED BY <1>4, <1>5

\* S and what is needed by nothing else, when S holds all that uses it and o is its only
\* record of the lowest level.
LEMMA UnneededIsLoose ==
  ASSUME Levelled(records, live), NEW o \in live, NEW S, Rising(o, S), o \in S,
         ClosedUp(records, live, S)
  PROVE  Unneeded(S, o) = S \cup Loose(records, live \ S, UsedIn(records, live, o))
<1> DEFINE B1 == Down({o})
           B2 == Down(B1)
           B3 == Down(B2)
           M == live \ S
           T == UsedIn(records, live, o)
<1>1. Falling(o, {o})
  BY DEF Falling
<1>2. Falling(o, B1) /\ o \in B1 /\ T \subseteq B1
  BY <1>1, DownFalls
<1> HIDE DEF B1
<1>3. Falling(o, B2) /\ B1 \subseteq B2 /\ \A x \in B1 : UsedIn(records, live, x) \subseteq B2
  BY <1>2, DownFalls
<1> HIDE DEF B2
<1>4. Falling(o, B3) /\ B2 \subseteq B3 /\ \A x \in B2 : UsedIn(records, live, x) \subseteq B3
  BY <1>3, DownFalls
<1> HIDE DEF B3
<1>5. Below(o) = B3
  BY DEF Below, B1, B2, B3
<1>6. \A p : UsersAt(records, M, p) = UsersAt(records, live, p) \ S
  BY DEF UsersAt
<1>7. \A p \in live : UsersOf(p) = UsersAt(records, live, p)
  BY UsesMeanUses
<1>8. S \in SUBSET live /\ \A x \in S : x = o \/ records[x].lev > records[o].lev
  BY DEF Rising
<1>9. \A x \in B3 : x \in live /\ (x = o \/ (records[x].lev < records[o].lev
                                            /\ \E y \in B3 : UsesIt(records, y, x)))
  BY <1>4 DEF Falling
<1>10. \A x \in live : records[x].lev \in 1..4
  BY DEF Levelled
<1>11. ASSUME NEW Z, S \subseteq Z, Z \subseteq S \cup B3, \A p \in Z \ S : UsersOf(p) \subseteq Z
       PROVE  LooseSet(records, M, T, Z \ S)
  <2>1. Z \ S \in SUBSET M
    BY <1>8, <1>9, <1>11
  <2>2. ClosedUp(records, M, Z \ S)
    <3>1. ASSUME NEW p \in Z \ S PROVE UsersAt(records, M, p) \subseteq Z \ S
      <4>1. UsersOf(p) = UsersAt(records, live, p)
        BY <1>7, <2>1
      <4>2. UsersOf(p) \subseteq Z
        BY <1>11
      <4> QED BY <1>6, <4>1, <4>2
    <3> QED BY <3>1 DEF ClosedUp
  <2>3. ASSUME NEW p \in Z \ S, p \notin T PROVE UsersAt(records, M, p) # {}
    <3>1. p \in B3 /\ p # o /\ p \in live
      BY <1>9, <1>11
    <3>2. PICK y \in B3 : UsesIt(records, y, p)
      BY <1>9, <3>1
    <3>3. y # o
      BY <2>3, <3>1, <3>2 DEF UsedIn
    <3>4. y \in live /\ records[y].lev < records[o].lev
      BY <1>9, <3>3
    <3>5. y \notin S
      BY <1>8, <1>10, <3>3, <3>4
    <3> QED BY <3>2, <3>4, <3>5 DEF UsersAt
  <2> QED BY <2>1, <2>2, <2>3 DEF LooseSet
<1>12. ASSUME NEW Q, LooseSet(records, M, T, Q)
       PROVE  S \cup Q \subseteq S \cup B3 /\ \A p \in (S \cup Q) \ S : UsersOf(p) \subseteq S \cup Q
  <2>1. Q \in SUBSET M /\ ClosedUp(records, M, Q) /\ Levelled(records, M)
    BY <1>12 DEF LooseSet, Levelled
  <2>2. \A t \in T : records[t].lev = records[o].lev - 1
    BY DEF UsedIn, UsesIt
  <2>3. ASSUME NEW p \in Q
        PROVE  records[p].lev < records[o].lev /\ (records[p].lev = records[o].lev - 1 => p \in T)
    <3>1. PICK q \in Q : /\ UsersAt(records, M, q) = {} /\ records[q].lev >= records[p].lev
                         /\ UsersAt(records, M, p) # {} => records[q].lev > records[p].lev
      BY <2>1, Top
    <3>2. q \in T
      BY <1>12, <3>1 DEF LooseSet
    <3>3. p \in T \/ UsersAt(records, M, p) # {}
      BY <1>12 DEF LooseSet
    <3>4. p \in live /\ q \in live
      BY <2>1
    <3>5. records[q].lev = records[o].lev - 1
      BY <2>2, <3>2
    <3>6. records[p].lev \in 1..4 /\ records[q].lev \in 1..4 /\ records[o].lev \in 1..4
      BY <1>10, <3>4
    <3>7. CASE p \in T
      <4>1. records[p].lev = records[o].lev - 1
        BY <2>2, <3>7
      <4> QED BY <3>6, <3>7, <4>1
    <3>8. CASE p \notin T
      <4>1. records[q].lev > records[p].lev
        BY <3>1, <3>3, <3>8
      <4> QED BY <3>5, <3>6, <4>1
    <3> QED BY <3>7, <3>8
  <2>4. ASSUME NEW p \in Q, p \notin T
        PROVE  \E u \in Q : UsesIt(records, u, p) /\ records[u].lev = records[p].lev + 1 /\ p \in live
    <3>1. PICK u \in UsersAt(records, M, p) : TRUE
      BY <1>12, <2>4 DEF LooseSet
    <3>2. u \in Q /\ UsesIt(records, u, p) /\ p \in live /\ u \in live
      BY <2>1, <3>1 DEF ClosedUp, UsersAt
    <3>3. records[u].lev = records[p].lev + 1
      BY <3>2, <1>10 DEF UsesIt
    <3> QED BY <3>2, <3>3
  <2>5. \A p \in Q : p \in T \/ \E u \in Q : p \in UsedIn(records, live, u) /\ records[u].lev = records[p].lev + 1
    BY <2>4 DEF UsedIn
  <2>6. \A p \in Q : records[p].lev = records[o].lev - 1 => p \in B1
    BY <1>2, <2>3
  <2>7. \A p \in Q : p \in live /\ records[p].lev \in 1..4 /\ records[o].lev \in 1..4
    BY <2>1, <1>10
  <2>8. ASSUME NEW p \in Q, records[p].lev = records[o].lev - 2 PROVE p \in B2
    <3>1. CASE p \in T
      BY <3>1, <1>2, <1>3
    <3>2. CASE p \notin T
      <4>1. PICK u \in Q : p \in UsedIn(records, live, u) /\ records[u].lev = records[p].lev + 1
        BY <2>5, <3>2
      <4>2. u \in B1
        BY <2>6, <2>7, <2>8, <4>1
      <4> QED BY <1>3, <4>1, <4>2
    <3> QED BY <3>1, <3>2
  <2>9. ASSUME NEW p \in Q, records[p].lev = records[o].lev - 3 PROVE p \in B3
    <3>1. CASE p \in T
      BY <3>1, <1>2, <1>3, <1>4
    <3>2. CASE p \notin T
      <4>1. PICK u \in Q : p \in UsedIn(records, live, u) /\ records[u].lev = records[p].lev + 1
        BY <2>5, <3>2
      <4>2. u \in B2
        BY <2>7, <2>8, <2>9, <4>1
      <4> QED BY <1>4, <4>1, <4>2
    <3> QED BY <3>1, <3>2
  <2>10. \A p \in Q : records[p].lev \in {records[o].lev - 1, records[o].lev - 2, records[o].lev - 3}
    BY <2>3, <2>7
  <2>11. Q \subseteq B3
    BY <2>6, <2>8, <2>9, <2>10, <1>3, <1>4
  <2>12. \A p \in Q : UsersOf(p) \subseteq S \cup Q
    <3>1. ASSUME NEW p \in Q PROVE UsersOf(p) \subseteq S \cup Q
      <4>1. UsersOf(p) = UsersAt(records, live, p)
        BY <1>7, <2>7
      <4>2. UsersAt(records, M, p) \subseteq Q
        BY <2>1 DEF ClosedUp
      <4> QED BY <1>6, <4>1, <4>2
    <3> QED BY <3>1
  <2> QED BY <2>11, <2>12
<1>13. ASSUME NEW x \in Unneeded(S, o) PROVE x \in S \cup Loose(records, M, T)
  <2>1. PICK Z \in SUBSET (S \cup B3) : x \in Z /\ S \subseteq Z /\ \A p \in Z \ S : UsersOf(p) \subseteq Z
    BY <1>5 DEF Unneeded
  <2>2. LooseSet(records, M, T, Z \ S)
    BY <1>11, <2>1
  <2> QED BY <2>1, <2>2 DEF Loose, LooseSet
<1>14. ASSUME NEW x \in S \cup Loose(records, M, T) PROVE x \in Unneeded(S, o)
  <2>1. PICK Q : LooseSet(records, M, T, Q) /\ x \in S \cup Q
    <3>1. CASE x \in S
      <4>1. LooseSet(records, M, T, {})
        BY DEF LooseSet, ClosedUp
      <4> QED BY <3>1, <4>1
    <3>2. CASE x \in Loose(records, M, T)
      BY <3>2 DEF Loose
    <3> QED BY <3>1, <3>2
  <2>2. /\ S \cup Q \in SUBSET (S \cup B3)
        /\ \A p \in (S \cup Q) \ S : UsersOf(p) \subseteq S \cup Q
    BY <1>12, <2>1
  <2> QED BY <1>5, <2>1, <2>2 DEF Unneeded
<1> QED BY <1>13, <1>14

------------------------------------------------------------------------------
(* The numbers of a sequence without repetition, from the largest.           *)

LEMMA LargestOrder ==
  ASSUME NEW s \in Seq(Nat), IsInjective(s)
  PROVE  /\ \A j, m \in DOMAIN s : j < m => Largest(s, j) > Largest(s, m)
         /\ {Largest(s, j) : j \in DOMAIN s} = Range(s)
<1> DEFINE n == Len(s)
           From(r) == {i \in 1..n : s[i] >= r}
           C(r) == Cardinality(From(r))
           f == [i \in 1..n |-> C(s[i])]
<1>1. n \in Nat /\ DOMAIN s = 1..n /\ \A i \in 1..n : s[i] \in Nat
  OBVIOUS
<1>2. IsFiniteSet(1..n) /\ Cardinality(1..n) = n
  BY <1>1, FS_Interval
<1>3. \A r : IsFiniteSet(From(r)) /\ C(r) \in Nat /\ C(r) <= n
  <2>1. SUFFICES ASSUME NEW r PROVE IsFiniteSet(From(r)) /\ C(r) \in Nat /\ C(r) <= n
    OBVIOUS
  <2>2. From(r) \in SUBSET (1..n)
    OBVIOUS
  <2>3. IsFiniteSet(From(r)) /\ C(r) <= n
    BY <1>2, <2>2, FS_Subset
  <2> QED BY <2>3, FS_CardinalityType
<1>4. ASSUME NEW i \in 1..n PROVE f[i] = C(s[i]) /\ C(s[i]) \in 1..n
  <2>1. From(s[i]) # {}
    BY <1>1
  <2>2. C(s[i]) # 0
    BY <2>1, <1>3, FS_EmptySet
  <2>3. C(s[i]) \in Nat /\ C(s[i]) <= n
    BY <1>3
  <2> HIDE DEF C
  <2>4. C(s[i]) \in 1..n
    BY ONLY <2>2, <2>3, <1>1
  <2> QED BY <2>4
<1>5. ASSUME NEW i \in 1..n, NEW h \in 1..n, s[i] < s[h] PROVE C(s[h]) < C(s[i])
  <2>1. From(s[h]) \in SUBSET From(s[i]) /\ i \in From(s[i]) /\ i \notin From(s[h])
    BY <1>1, <1>5
  <2> HIDE DEF From
  <2>2. C(s[h]) <= C(s[i]) /\ C(s[h]) # C(s[i])
    BY <2>1, <1>3, FS_Subset
  <2> QED BY <2>2, <1>3
<1> HIDE DEF C
<1>0. \A r : C(r) \in Nat
  BY <1>3
<1>6. f \in Injection(1..n, 1..n)
  <2>1. f \in [1..n -> 1..n]
    BY <1>4
  <2>2. ASSUME NEW i \in 1..n, NEW h \in 1..n, f[i] = f[h] PROVE i = h
    <3>1. C(s[i]) = C(s[h]) /\ C(s[i]) \in Nat /\ s[i] \in Nat /\ s[h] \in Nat
      BY <2>2, <1>1, <1>0, <1>4
    <3>2. ~(s[i] < s[h]) /\ ~(s[h] < s[i])
      BY <3>1, <1>5
    <3>3. s[i] = s[h]
      BY <3>1, <3>2
    <3> QED BY <3>3, <1>1 DEF IsInjective
  <2> HIDE DEF f
  <2> QED BY <2>1, <2>2, Fun_IsInj
<1>7. \A j \in 1..n : \E i \in 1..n : C(s[i]) = j
  <2> HIDE DEF f
  <2>1. f \in Surjection(1..n, 1..n)
    BY <1>2, <1>6, FS_Injection
  <2>2. \A j \in 1..n : \E i \in 1..n : f[i] = j
    BY <2>1, Fun_SurjectionProperties
  <2> QED BY <2>2, <1>4
<1>8. ASSUME NEW i \in 1..n PROVE Largest(s, C(s[i])) = s[i]
  <2> DEFINE X == {r \in Range(s) : C(r) >= C(s[i])}
  <2>1. s[i] \in X /\ s[i] \in Nat
    <3>1. C(s[i]) >= C(s[i])
      BY <1>0
    <3> QED BY <3>1, <1>1 DEF Range
  <2>2. ASSUME NEW r \in X PROVE s[i] >= r /\ r \in Nat
    <3>1. PICK h \in 1..n : r = s[h]
      BY <1>1 DEF Range
    <3>4. C(s[h]) >= C(s[i])
      BY <3>1
    <3>2. ~(C(s[h]) < C(s[i])) /\ s[h] \in Nat
      BY <3>4, <1>0, <1>1
    <3>3. ~(s[i] < s[h])
      BY <3>2, <1>5
    <3> QED BY <2>1, <3>1, <3>2, <3>3
  <2>3. Largest(s, C(s[i])) = Max(X)
    BY <1>1 DEF Largest, C
  <2> HIDE DEF X
  <2>4. Max(X) \in X /\ Max(X) >= s[i]
    BY <2>1, <2>2 DEF Max
  <2>5. Max(X) = s[i]
    BY <2>1, <2>2, <2>4
  <2> QED BY <2>3, <2>5
<1>9. ASSUME NEW j \in DOMAIN s, NEW m \in DOMAIN s, j < m PROVE Largest(s, j) > Largest(s, m)
  <2>1. PICK a \in 1..n : C(s[a]) = j
    BY <1>1, <1>7
  <2>2. PICK b \in 1..n : C(s[b]) = m
    BY <1>1, <1>7
  <2>3. s[a] \in Nat /\ s[b] \in Nat /\ j \in Nat /\ m \in Nat
    BY <1>1
  <2>4. ~(s[a] < s[b])
    BY <2>1, <2>2, <2>3, <1>5, <1>9
  <2>5. s[a] # s[b]
    BY <2>1, <2>2, <2>3, <1>9
  <2>6. Largest(s, j) = s[a] /\ Largest(s, m) = s[b]
    BY <2>1, <2>2, <1>8
  <2> QED BY <2>3, <2>4, <2>5, <2>6
<1>10. ASSUME NEW j \in DOMAIN s PROVE Largest(s, j) \in Range(s)
  BY <1>1, LargestFacts
<1>11. ASSUME NEW r \in Range(s) PROVE \E j \in DOMAIN s : r = Largest(s, j)
  <2>1. PICK i \in 1..n : r = s[i]
    BY <1>1 DEF Range
  <2>2. C(s[i]) \in DOMAIN s /\ Largest(s, C(s[i])) = r
    BY <2>1, <1>1, <1>4, <1>8
  <2> QED BY <2>2
<1> QED BY <1>9, <1>10, <1>11

------------------------------------------------------------------------------
(* What the lists of a structure that is up to date say of the records.      *)

\* The records of the entries of U.
OffsOf(l, k, U) == {l[k][u].off : u \in U}

\* The records on which the entries of a level are, are different.
LEMMA ReadOnce ==
  ASSUME NEW R, NEW L, FileOK(R, L), NEW k \in Levels, NEW i \in DOMAIN Read(R, L)[k],
         NEW j \in DOMAIN Read(R, L)[k], Read(R, L)[k][i].off = Read(R, L)[k][j].off
  PROVE  i = j
<1> PICK s : s = Offs(R, L, k)
  OBVIOUS
<1>1. i \in DOMAIN s /\ j \in DOMAIN s /\ s[i] = s[j]
  BY ReadFacts
<1>2. \A u, v \in DOMAIN s : R[s[u]].name = R[s[v]].name => u = v
  <2>1. LET x == Offs(R, L, k)
        IN  \A u, v \in DOMAIN x : R[x[u]].name = R[x[v]].name => u = v
    BY ONLY FileOK(R, L), OffsFacts
  <2> QED BY ONLY <2>1, s = Offs(R, L, k)
<1> QED BY ONLY <1>1, <1>2, i \in DOMAIN Read(R, L)[k], j \in DOMAIN Read(R, L)[k]

\* The users of an entry are those of its record.
LEMMA ReadUsers ==
  ASSUME NEW R, NEW L, FileOK(R, L), NEW l, l = Read(R, L), NEW k \in Levels, NEW i \in DOMAIN l[k]
  PROVE  UsersAt(R, L, l[k][i].off) =
           IF k = 4 THEN {} ELSE OffsOf(l, k + 1, UsersIn(l, k, i))
<1> DEFINE s == Offs(R, L, k)
           t == Offs(R, L, k + 1)
<1> PICK o : o = l[k][i].off
  OBVIOUS
<1>1. i \in DOMAIN s /\ o = s[i] /\ o \in L /\ R[o].lev = k
  BY ReadFacts, ReadHas
<1>2. \A p \in L : R[p].lev \in 1..4
  <2>1. R \in Seq(RecordType) /\ L \in SUBSET (1..Len(R))
    BY DEF FileOK
  <2>2. \A p \in L : R[p] \in RecordType
    BY ONLY <2>1
  <2> QED BY ONLY <2>2 DEF RecordType, Levels
<1>6. \A p \in L : R[p].lev = k + 1 => \E u \in DOMAIN t : t[u] = p
  <2>1. SUFFICES ASSUME NEW m, NEW p \in L, R[p].lev = m
                 PROVE  \E u \in DOMAIN Offs(R, L, m) : Offs(R, L, m)[u] = p
    OBVIOUS
  <2> QED BY <2>1, OffsFacts
<1>3. \A p \in UsersAt(R, L, o) : p \in L /\ R[p].lev = k + 1 /\ R[o].name \in Range(R[p].refs)
  BY <1>1, <1>2 DEF UsersAt, UsesIt, Levels
<1>4. CASE k = 4
  BY <1>2, <1>3, <1>4
<1>5. CASE k # 4
  <2>1. k + 1 \in Levels
    BY <1>5 DEF Levels
  <2>2. /\ DOMAIN l[k + 1] = DOMAIN t
        /\ \A u \in DOMAIN t :
             /\ l[k + 1][u].off = t[u]
             /\ DOMAIN l[k + 1][u].refs = DOMAIN R[t[u]].refs
             /\ \A j \in DOMAIN l[k + 1][u].refs :
                  l[k + 1][u].refs[j] = IndexOf(NamesOf(R, L, k), R[t[u]].refs[j])
    <3>1. (k + 1) - 1 = k
      BY DEF Levels
    <3>2. /\ DOMAIN l[k + 1] = DOMAIN t
          /\ \A u \in DOMAIN t :
               /\ l[k + 1][u].off = t[u]
               /\ DOMAIN l[k + 1][u].refs = DOMAIN R[t[u]].refs
               /\ \A j \in DOMAIN l[k + 1][u].refs :
                    l[k + 1][u].refs[j] = IndexOf(NamesOf(R, L, (k + 1) - 1), R[t[u]].refs[j])
      BY <2>1, ReadFacts
    <3> QED BY <3>1, <3>2
  <2>3. ASSUME NEW p \in UsersAt(R, L, o) PROVE \E u \in UsersIn(l, k, i) : l[k + 1][u].off = p
    <3>1. p \in L /\ R[p].lev = k + 1
      BY <1>3
    <3>2. PICK u \in DOMAIN t : t[u] = p
      BY <3>1, <1>6
    <3>3. PICK j \in DOMAIN R[p].refs : R[p].refs[j] = R[o].name
      BY <1>3 DEF Range
    <3>4. IndexOf(NamesOf(R, L, k), R[o].name) = i
      BY <1>1, NamesFacts
    <3>5. j \in DOMAIN l[k + 1][u].refs /\ l[k + 1][u].refs[j] = i
      BY <2>2, <3>2, <3>3, <3>4
    <3>6. u \in UsersIn(l, k, i)
      BY <1>5, <2>2, <3>5 DEF UsersIn, Range
    <3> QED BY <3>6, <3>2, <2>2
  <2>4. ASSUME NEW u \in UsersIn(l, k, i) PROVE l[k + 1][u].off \in UsersAt(R, L, o)
    <3>1. u \in DOMAIN t /\ i \in Range(l[k + 1][u].refs)
      BY <1>5, <2>2 DEF UsersIn
    <3>2. PICK j \in DOMAIN l[k + 1][u].refs : l[k + 1][u].refs[j] = i
      BY <3>1 DEF Range
    <3>3. i = IndexOf(NamesOf(R, L, k), R[t[u]].refs[j]) /\ j \in DOMAIN R[t[u]].refs
      BY <2>2, <3>1, <3>2
    <3>4. i # 0
      BY <1>1, OffsFacts
    <3>5. R[o].name = R[t[u]].refs[j]
      <4>1. \A x : IndexOf(NamesOf(R, L, k), x) # 0 => R[s[IndexOf(NamesOf(R, L, k), x)]].name = x
        BY ONLY FileOK(R, L), NamesFacts DEF s
      <4> HIDE DEF s, t
      <4> QED BY ONLY <1>1, <3>3, <3>4, <4>1
    <3>6. t[u] \in L /\ R[t[u]].lev = k + 1
      BY <3>1, OffsFacts
    <3>7. R[o].name \in Range(R[t[u]].refs)
      BY <3>3, <3>5 DEF Range
    <3>8. R[o].lev = R[t[u]].lev - 1
      BY <1>1, <3>6 DEF Levels
    <3> QED BY <2>2, <3>1, <3>6, <3>7, <3>8 DEF UsersAt, UsesIt
  <2>5. UsersAt(R, L, o) = OffsOf(l, k + 1, UsersIn(l, k, i))
    BY <2>3, <2>4 DEF OffsOf
  <2> QED BY <1>5, <2>5
<1> QED BY <1>4, <1>5

\* What an entry uses is what its record uses, if that is all linked.
LEMMA ReadUses ==
  ASSUME NEW R, NEW L, FileOK(R, L), NEW l, l = Read(R, L), NEW k \in Levels, k # 1,
         NEW i \in DOMAIN l[k], NEW o, o = l[k][i].off, DefinedIn(R, L, o)
  PROVE  LET refs == l[k][i].refs IN
         /\ \A r \in Range(refs) : r \in DOMAIN l[k - 1] /\ r # 0
         /\ UsedIn(R, L, o) = OffsOf(l, k - 1, Range(refs))
         /\ IsInjective(R[o].refs) => IsInjective(refs)
<1> DEFINE s == Offs(R, L, k)
           t == Offs(R, L, k - 1)
           refs == l[k][i].refs
           n == R[o].refs
<1>1. k - 1 \in Levels
  BY DEF Levels
<1>2. /\ i \in DOMAIN s /\ o = s[i] /\ o \in L /\ R[o].lev = k
      /\ DOMAIN refs = DOMAIN n
      /\ \A j \in DOMAIN n : refs[j] = IndexOf(NamesOf(R, L, k - 1), n[j])
  BY ReadFacts, ReadHas
<1>3. DOMAIN l[k - 1] = DOMAIN t /\ \A u \in DOMAIN t : l[k - 1][u].off = t[u]
  BY <1>1, ReadFacts
<1>4. ASSUME NEW j \in DOMAIN n
      PROVE  refs[j] \in DOMAIN t /\ refs[j] # 0 /\ R[t[refs[j]]].name = n[j]
  <2>1. n[j] \in Range(n)
    BY DEF Range
  <2>2. PICK p \in L : R[p].lev = R[o].lev - 1 /\ R[p].name = n[j]
    BY <2>1 DEF DefinedIn
  <2>3. refs[j] # 0
    BY <2>2, <1>2, NamesFacts
  <2> QED BY <2>3, <1>2, NamesFacts
<1>5. \A r \in Range(refs) : r \in DOMAIN l[k - 1] /\ r # 0
  BY <1>2, <1>3, <1>4 DEF Range
<1>6. ASSUME NEW r \in Range(refs) PROVE l[k - 1][r].off \in UsedIn(R, L, o)
  <2>1. PICK j \in DOMAIN n : r = refs[j]
    BY <1>2 DEF Range
  <2>2. r \in DOMAIN t /\ R[t[r]].name = n[j]
    BY <2>1, <1>4
  <2>3. t[r] \in L /\ R[t[r]].lev = k - 1
    BY <2>2, OffsFacts
  <2>4. R[t[r]].name \in Range(n)
    BY <2>2 DEF Range
  <2> QED BY <1>2, <1>3, <2>2, <2>3, <2>4 DEF UsedIn, UsesIt
<1>7. ASSUME NEW p \in UsedIn(R, L, o) PROVE \E r \in Range(refs) : p = l[k - 1][r].off
  <2>1. p \in L /\ R[p].lev = k - 1 /\ R[p].name \in Range(n)
    BY <1>2 DEF UsedIn, UsesIt
  <2>2. PICK j \in DOMAIN n : n[j] = R[p].name
    BY <2>1 DEF Range
  <2>3. PICK u \in DOMAIN t : t[u] = p
    BY <2>1, OffsFacts
  <2>4. refs[j] = u
    BY <2>2, <2>3, <1>2, NamesFacts
  <2> QED BY <2>2, <2>3, <2>4, <1>2, <1>3 DEF Range
<1>8. ASSUME IsInjective(n) PROVE IsInjective(refs)
  <2>1. ASSUME NEW a \in DOMAIN refs, NEW b \in DOMAIN refs, refs[a] = refs[b] PROVE a = b
    <3>1. n[a] = n[b]
      BY <1>2, <1>4, <2>1
    <3> QED BY <3>1, <1>2, <1>8 DEF IsInjective
  <2> QED BY <2>1 DEF IsInjective
<1> QED BY <1>5, <1>6, <1>7, <1>8 DEF OffsOf

------------------------------------------------------------------------------
(* What is left to do comes to the goal: its removals, from the records L, leave G.     *)

Target(l, t)      == l[t.lev][t.idx].off
Targets(l, todo)  == {Target(l, todo[p]) : p \in DOMAIN todo}
Removals(l, todo) ==
  \A p \in DOMAIN todo :
    /\ todo[p].do \in {"remove", "unlink"} /\ todo[p].lev \in Levels
    /\ todo[p].idx \in DOMAIN l[todo[p].lev]

\* A record by itself, or elements one after the other.
Ones(R, L, l, todo, G) ==
  /\ \A p \in DOMAIN todo : todo[p].cmd = "remove"
  /\ \A p, q \in DOMAIN todo : p < q =>
       todo[p].lev = 1 /\ todo[q].lev = 1 /\ todo[p].idx > todo[q].idx
  /\ G = L \ Free(R, L, Targets(l, todo))

\* A record and what it uses.
Purge(R, L, l, todo, G) ==
  Len(todo) = 1 /\ todo[1].cmd = "purge" /\ G = L \ Loose(R, L, Targets(l, todo))

\* A record and what uses it, ...
WithUsers(R, L, l, todo, G) ==
  /\ todo # <<>> /\ todo[Len(todo)].cmd = "*remove"
  /\ G = L \ Over(R, L, Targets(l, todo))

\* ... and what it uses.
Around(R, L, l, todo, G) ==
  /\ todo # <<>> /\ todo[Len(todo)].cmd = "*purge"
  /\ LET M == L \ Over(R, L, Targets(l, todo))
     IN  G = M \ Loose(R, M, UsedIn(R, L, Target(l, todo[Len(todo)])))

Comes(R, L, l, todo, G) ==
  /\ Removals(l, todo)
  /\ \/ Ones(R, L, l, todo, G) \/ Purge(R, L, l, todo, G)
     \/ WithUsers(R, L, l, todo, G) \/ Around(R, L, l, todo, G)

\* Nothing is left to do.
LEMMA ComesNone ==
  ASSUME NEW R, NEW L, NEW l PROVE Comes(R, L, l, <<>>, L)
BY DEF Comes, Ones, Removals, Free, Targets

LEMMA ComesTo ==
  ASSUME NEW R, NEW L, NEW l, NEW G, Comes(R, L, l, <<>>, G)
  PROVE  G = L
BY DEF Comes, Ones, Purge, WithUsers, Around, Free, Targets

\* The first task and the others.
LEMMA FirstTarget ==
  ASSUME NEW todo \in Seq(TaskType), todo # <<>>, NEW l
  PROVE  /\ Targets(l, todo) = {Target(l, todo[1])} \cup Targets(l, Tail(todo))
         /\ Removals(l, todo) => Removals(l, Tail(todo))
         /\ Tail(todo) # <<>> => Tail(todo)[Len(Tail(todo))] = todo[Len(todo)]
         /\ Tail(todo) = <<>> => Len(todo) = 1 /\ Targets(l, Tail(todo)) = {}
         /\ Len(todo) = 1 => Tail(todo) = <<>>
<1> DEFINE N == Len(todo)
           t == Tail(todo)
<1>1. /\ N \in Nat \ {0} /\ DOMAIN todo = 1..N /\ DOMAIN t = 1..(N - 1) /\ Len(t) = N - 1
      /\ \A p \in 1..(N - 1) : t[p] = todo[p + 1] /\ p + 1 \in 1..N
      /\ t \in Seq(TaskType)
  <2>1. /\ Tail(todo) \in Seq(TaskType) /\ Len(todo) \in Nat \ {0}
        /\ Len(Tail(todo)) = Len(todo) - 1 /\ DOMAIN todo = 1..Len(todo)
        /\ DOMAIN Tail(todo) = 1..(Len(todo) - 1)
        /\ \A p \in 1..(Len(todo) - 1) : Tail(todo)[p] = todo[p + 1] /\ p + 1 \in DOMAIN todo
    BY RestFacts
  <2> QED BY <2>1
<1> HIDE DEF N, t
<1>2. \A p \in 1..N : p = 1 \/ \E q \in 1..(N - 1) : p = q + 1
  <2>1. \A p \in 1..N : p = 1 \/ (p - 1 \in 1..(N - 1) /\ p = (p - 1) + 1)
    BY <1>1
  <2> QED BY <2>1
<1>3. Targets(l, todo) = {Target(l, todo[1])} \cup Targets(l, t)
  <2>1. ASSUME NEW x \in Targets(l, todo) PROVE x \in {Target(l, todo[1])} \cup Targets(l, t)
    <3>1. PICK p \in 1..N : x = Target(l, todo[p])
      BY <1>1 DEF Targets
    <3>2. CASE p = 1
      BY <3>1, <3>2
    <3>3. CASE p # 1
      <4>1. PICK q \in 1..(N - 1) : p = q + 1
        BY <1>2, <3>3
      <4>2. t[q] = todo[p]
        BY <4>1, <1>1
      <4> QED BY <3>1, <4>2, <1>1 DEF Targets
    <3> QED BY <3>2, <3>3
  <2>2. ASSUME NEW q \in 1..(N - 1) PROVE Target(l, t[q]) \in Targets(l, todo)
    BY <1>1 DEF Targets
  <2>3. Target(l, todo[1]) \in Targets(l, todo)
    <3>1. 1 \in DOMAIN todo
      BY <1>1
    <3> QED BY <3>1 DEF Targets
  <2> QED BY <2>1, <2>2, <2>3, <1>1 DEF Targets
<1>4. Removals(l, todo) => Removals(l, t)
  BY <1>1 DEF Removals
<1>5. t # <<>> => t[Len(t)] = todo[N]
  <2>1. SUFFICES ASSUME t # <<>> PROVE t[Len(t)] = todo[N]
    OBVIOUS
  <2>2. N - 1 # 0
    BY <1>1, <2>1, EmptySeq
  <2>3. N - 1 \in 1..(N - 1) /\ (N - 1) + 1 = N
    BY <1>1, <2>2
  <2>4. t[N - 1] = todo[(N - 1) + 1]
    BY ONLY <2>3, <1>1
  <2> QED BY <2>3, <2>4, <1>1
<1>6. t = <<>> => N = 1 /\ Targets(l, t) = {}
  <2>1. Len(<<>>) = 0 /\ Targets(l, <<>>) = {}
    BY DEF Targets
  <2> QED BY <2>1, <1>1
<1>7. N = 1 => t = <<>>
  BY <1>1, EmptySeq
<1> QED BY <1>3, <1>4, <1>5, <1>6, <1>7 DEF N, t

\* The command of the last task says which commands the others have.
LEMMA StarFirst ==
  ASSUME NEW todo \in Seq(TaskType), todo # <<>>, NEW l, Plain(todo) \/ Starry(todo, l),
         todo[Len(todo)].cmd \in Starred
  PROVE  Starry(todo, l) /\ todo[1].cmd \in Starred
<1>1. 1 \in DOMAIN todo /\ Len(todo) \in DOMAIN todo
  BY RestFacts
<1>2. ~Plain(todo)
  BY <1>1 DEF Plain
<1> QED BY <1>1, <1>2 DEF Starry

------------------------------------------------------------------------------
(* The steps of a removal.                                                   *)

\* A record that is used stays.
LEMMA UsedKept ==
  ASSUME NEW R, NEW L, Levelled(R, L), NEW l, NEW todo \in Seq(TaskType), todo # <<>>,
         Plain(todo) \/ Starry(todo, l), todo[1].cmd \notin Starred,
         UsersAt(R, L, Target(l, todo[1])) # {}, NEW G, Comes(R, L, l, todo, G)
  PROVE  Comes(R, L, l, Tail(todo), G)
<1> DEFINE t == Tail(todo)
<1>1. /\ Targets(l, todo) = {Target(l, todo[1])} \cup Targets(l, t)
      /\ Removals(l, t) /\ (Len(todo) = 1 => t = <<>>)
  BY FirstTarget DEF Comes
<1>2. /\ DOMAIN todo = 1..Len(todo) /\ DOMAIN t = 1..(Len(todo) - 1) /\ Len(todo) \in Nat \ {0}
      /\ \A p \in 1..(Len(todo) - 1) : t[p] = todo[p + 1] /\ p + 1 \in DOMAIN todo
  BY RestFacts
<1>3. CASE Ones(R, L, l, todo, G)
  <2>1. Free(R, L, Targets(l, todo)) = Free(R, L, Targets(l, t))
    BY <1>1 DEF Free
  <2>2. \A p \in DOMAIN t : t[p].cmd = "remove"
    BY <1>2, <1>3 DEF Ones
  <2>3. ASSUME NEW p \in DOMAIN t, NEW q \in DOMAIN t, p < q
        PROVE  t[p].lev = 1 /\ t[q].lev = 1 /\ t[p].idx > t[q].idx
    <3>1. p + 1 \in DOMAIN todo /\ q + 1 \in DOMAIN todo /\ p + 1 < q + 1
      BY <1>2, <2>3
    <3> QED BY <3>1, <1>2, <1>3 DEF Ones
  <2>4. Ones(R, L, l, t, G)
    BY <1>3, <2>1, <2>2, <2>3 DEF Ones
  <2> QED BY <1>1, <2>4 DEF Comes
<1>4. CASE Purge(R, L, l, todo, G)
  <2>1. t = <<>> /\ Targets(l, t) = {}
    BY <1>1, <1>4, FirstTarget DEF Purge
  <2>2. Targets(l, todo) = {Target(l, todo[1])}
    BY <1>1, <2>1
  <2>3. G = L
    BY <1>4, <2>2, LooseNone DEF Purge
  <2> QED BY <2>1, <2>3, ComesNone
<1>5. CASE WithUsers(R, L, l, todo, G) \/ Around(R, L, l, todo, G)
  BY <1>5, StarFirst DEF WithUsers, Around, Starred
<1> QED BY <1>3, <1>4, <1>5 DEF Comes

\* The users of a record are to be removed before it.
LEMMA UsersKept ==
  ASSUME NEW R, NEW L, FileOK(R, L), NEW l, l = Read(R, L),
         NEW todo \in Seq(TaskType), todo # <<>>, Starry(todo, l),
         NEW k, k = todo[1].lev, k # 4, NEW i, i = todo[1].idx, i \in DOMAIN l[k],
         NEW n \in Nat, DOMAIN l[k + 1] = 1..n, NEW U, U = UsersIn(l, k, i),
         NEW G, Comes(R, L, l, todo, G)
  PROVE  Comes(R, L, l, Expanded(todo, U), G)
<1> PICK a : a = [j \in 1..Cardinality(U) |-> Removal("*remove", k + 1, Descending(U)[j], TRUE)]
  OBVIOUS
<1> PICK h : h = [todo[1] EXCEPT !.do = "unlink"]
  OBVIOUS
<1> PICK m : m = Cardinality(U)
  OBVIOUS
<1> PICK N : N = Len(todo)
  OBVIOUS
<1> PICK d : d = Descending(U)
  OBVIOUS
<1> PICK t : t = Expanded(todo, U)
  OBVIOUS
<1> PICK o : o = l[k][i].off
  OBVIOUS
<1>1. /\ N \in Nat \ {0} /\ DOMAIN todo = 1..N /\ Len(Tail(todo)) = N - 1
      /\ Tail(todo) \in Seq(TaskType)
      /\ \A p \in 1..(N - 1) : Tail(todo)[p] = todo[p + 1]
      /\ 1 \in 1..N
  <2>1. N \in Nat \ {0} /\ DOMAIN todo = 1..N
    BY RestFacts
  <2>2. Len(Tail(todo)) = N - 1 /\ Tail(todo) \in Seq(TaskType)
    BY RestFacts
  <2>3. \A p \in 1..(N - 1) : Tail(todo)[p] = todo[p + 1]
    BY RestFacts
  <2> QED BY <2>1, <2>2, <2>3
<1>2. /\ todo[1] \in RemoveTask /\ todo[1].cmd \in Starred /\ k \in 1..3 /\ k \in Levels /\ k + 1 \in Levels
  <2>1. todo[1] \in RemoveTask /\ todo[1].cmd \in Starred
    BY <1>1 DEF Starry
  <2>2. k \in Levels
    BY <2>1 DEF RemoveTask
  <2> QED BY <2>1, <2>2 DEF Levels
<1>3. U \in SUBSET (1..n) /\ UsersAt(R, L, o) = OffsOf(l, k + 1, U)
  <2>1. U \in SUBSET (1..n)
    BY <1>2 DEF UsersIn
  <2>2. UsersAt(R, L, l[k][i].off) = OffsOf(l, k + 1, UsersIn(l, k, i))
    <3>1. UsersAt(R, L, l[k][i].off) =
            IF k = 4 THEN {} ELSE OffsOf(l, k + 1, UsersIn(l, k, i))
      BY ONLY <1>2, FileOK(R, L), l = Read(R, L), i \in DOMAIN l[k], ReadUsers
    <3> QED BY ONLY <3>1, <1>2
  <2>3. UsersAt(R, L, o) = OffsOf(l, k + 1, UsersIn(l, k, i))
    BY ONLY <2>2, o = l[k][i].off
  <2> QED BY ONLY <2>1, <2>3, U = UsersIn(l, k, i)
<1>4. /\ m \in Nat /\ d \in Seq(U) /\ Len(d) = m
      /\ \A x \in U : \E j \in 1..m : d[j] = x
      /\ \A j \in 1..m : d[j] \in U
  <2>1. /\ Descending(U) \in Seq(U) /\ Len(Descending(U)) = Cardinality(U)
        /\ \A x \in U : \E j \in 1..Len(Descending(U)) : Descending(U)[j] = x
    BY ONLY n \in Nat, <1>3, DescendingFacts
  <2>2. d \in Seq(U) /\ Len(d) = m
    BY ONLY <2>1, d = Descending(U), m = Cardinality(U)
  <2>3. m \in Nat /\ \A j \in 1..m : d[j] \in U
    BY ONLY <2>2, LenProperties, ElementOfSeq
  <2> QED BY <2>1, <2>2, <2>3
<1>5. /\ \A j \in 1..m : a[j] = Removal("*remove", k + 1, d[j], TRUE)
      /\ h.do = "unlink" /\ h.lev = k /\ h.idx = i /\ h.cmd = todo[1].cmd
      /\ h \in TaskType
  <2>1. \A j \in 1..m : a[j] = Removal("*remove", k + 1, d[j], TRUE)
    OBVIOUS
  <2>2. h \in RemoveTask /\ h.do = "unlink" /\ h.lev = k /\ h.idx = i /\ h.cmd = todo[1].cmd
    BY <1>2 DEF RemoveTask
  <2> QED BY <2>1, <2>2, TaskKinds
<1>6. \A j \in 1..m : /\ a[j].do = "remove" /\ a[j].lev = k + 1 /\ a[j].idx = d[j]
                      /\ a[j].cmd = "*remove" /\ a[j] \in TaskType
  <2>1. SUFFICES ASSUME NEW j \in 1..m
                 PROVE  /\ a[j].do = "remove" /\ a[j].lev = k + 1 /\ a[j].idx = d[j]
                        /\ a[j].cmd = "*remove" /\ a[j] \in TaskType
    OBVIOUS
  <2>2. a[j] = [do |-> "remove", cmd |-> "*remove", lev |-> k + 1, idx |-> d[j], nested |-> TRUE]
    BY ONLY <1>5, j \in 1..m DEF Removal
  <2>3. d[j] \in Nat
    <3>1. U \in SUBSET (1..n) /\ d[j] \in U
      BY ONLY <1>3, <1>4, j \in 1..m
    <3>2. d[j] \in 1..n
      BY ONLY <3>1
    <3> QED BY ONLY <3>2, n \in Nat
  <2>4. /\ a[j].do = "remove" /\ a[j].lev = k + 1 /\ a[j].idx = d[j]
        /\ a[j].cmd = "*remove" /\ a[j] \in RemoveTask
    BY ONLY <2>2, <2>3, <1>2 DEF RemoveTask, Commands
  <2> QED BY ONLY <2>4, TaskKinds
<1>7. /\ t \in Seq(TaskType) /\ Len(t) = m + N
      /\ \A p \in 1..m : t[p] = a[p]
      /\ t[m + 1] = h
      /\ \A q \in 2..N : t[m + q] = todo[q]
  <2> PICK r : r = Tail(todo)
    OBVIOUS
  <2> PICK c : c = <<h>>
    OBVIOUS
  <2>1. c \in Seq(TaskType) /\ Len(c) = 1 /\ c[1] = h
    BY ONLY <1>5, c = <<h>>, OneElement
  <2>2. a \in Seq(TaskType) /\ Len(a) = m
    <3>1. DOMAIN a = 1..m /\ a = [j \in 1..m |-> a[j]]
      OBVIOUS
    <3>2. a \in [1..m -> TaskType]
      BY ONLY <3>1, <1>6
    <3> QED BY ONLY <3>2, <1>4
  <2>3. t = a \o c \o r
    BY DEF Expanded
  <2>4. r \in Seq(TaskType) /\ Len(r) = N - 1
    BY ONLY <1>1, r = Tail(todo)
  <2>5. /\ t \in Seq(TaskType) /\ Len(t) = Len(a) + 1 + Len(r)
        /\ \A p \in 1..Len(a) : t[p] = a[p]
        /\ t[Len(a) + 1] = c[1]
        /\ \A p \in 1..Len(r) : t[Len(a) + 1 + p] = r[p]
    <3> PICK b : b = a \o c
      OBVIOUS
    <3>1. /\ b \in Seq(TaskType) /\ Len(b) = m + 1
          /\ \A p \in 1..(m + 1) : b[p] = IF p <= m THEN a[p] ELSE c[p - m]
      <4>1. /\ b \in Seq(TaskType) /\ Len(b) = Len(a) + Len(c)
            /\ \A p \in 1..(Len(a) + Len(c)) : b[p] = IF p <= Len(a) THEN a[p] ELSE c[p - Len(a)]
        BY ONLY <2>1, <2>2, b = a \o c, ConcatProperties
      <4> QED BY ONLY <4>1, <2>1, <2>2
    <3> PICK e \in Nat : e = Len(r)
      BY ONLY <2>4, LenProperties
    <3>2. /\ t \in Seq(TaskType) /\ Len(t) = m + 1 + e
          /\ \A p \in 1..(m + 1 + e) : t[p] = IF p <= m + 1 THEN b[p] ELSE r[p - (m + 1)]
      <4>1. t = b \o r
        BY ONLY <2>3, b = a \o c
      <4>2. /\ t \in Seq(TaskType) /\ Len(t) = Len(b) + Len(r)
            /\ \A p \in 1..(Len(b) + Len(r)) : t[p] = IF p <= Len(b) THEN b[p] ELSE r[p - Len(b)]
        BY ONLY <4>1, <3>1, <2>4, ConcatProperties
      <4> QED BY ONLY <4>2, <3>1, e = Len(r)
    <3>3. \A p \in 1..m : p \in 1..(m + 1) /\ p \in 1..(m + 1 + e) /\ p <= m /\ p <= m + 1
      BY ONLY <1>4, e \in Nat
    <3>4. /\ m + 1 \in 1..(m + 1) /\ m + 1 \in 1..(m + 1 + e) /\ ~(m + 1 <= m) /\ m + 1 <= m + 1
          /\ (m + 1) - m = 1
      BY ONLY <1>4, e \in Nat
    <3>5. \A p \in 1..e : /\ m + 1 + p \in 1..(m + 1 + e) /\ ~(m + 1 + p <= m + 1)
                          /\ (m + 1 + p) - (m + 1) = p
      BY ONLY <1>4, e \in Nat
    <3>6. \A p \in 1..m : t[p] = a[p]
      BY ONLY <3>1, <3>2, <3>3
    <3>7. t[m + 1] = c[1]
      BY ONLY <3>1, <3>2, <3>4
    <3>8. \A p \in 1..e : t[m + 1 + p] = r[p]
      BY ONLY <3>2, <3>5
    <3> QED BY ONLY <3>2, <3>6, <3>7, <3>8, <2>2, e = Len(r)
  <2>6. ASSUME NEW q \in 2..N PROVE t[m + q] = todo[q]
    <3>1. q - 1 \in 1..(N - 1) /\ m + 1 + (q - 1) = m + q /\ (q - 1) + 1 = q
      BY ONLY q \in 2..N, <1>1, <1>4
    <3>2. t[m + 1 + (q - 1)] = r[q - 1] /\ r[q - 1] = todo[(q - 1) + 1]
      BY ONLY <3>1, <2>2, <2>4, <2>5, <1>1, r = Tail(todo)
    <3> QED BY ONLY <3>1, <3>2
  <2>7. Len(t) = m + N
    BY ONLY <2>2, <2>4, <2>5, <1>1, <1>4
  <2>8. \A p \in 1..m : t[p] = a[p]
    BY ONLY <2>2, <2>5
  <2>9. t[m + 1] = h
    BY ONLY <2>1, <2>2, <2>5
  <2> QED BY ONLY <2>5, <2>6, <2>7, <2>8, <2>9
<1>8. /\ DOMAIN t = 1..(m + N) /\ m + 1 \in 1..(m + N) /\ \A p \in 1..m : p \in 1..(m + N)
      /\ \A q \in 2..N : m + q \in 1..(m + N) /\ q \in 1..N
      /\ \A p \in 1..(m + N) : p \in 1..m \/ p = m + 1 \/ \E q \in 2..N : p = m + q
  <2>1. DOMAIN t = 1..(m + N)
    BY ONLY <1>7, <1>1, <1>4
  <2>2. ASSUME NEW p \in 1..(m + N) PROVE p \in 1..m \/ p = m + 1 \/ \E q \in 2..N : p = m + q
    <3>1. p \in 1..m \/ p = m + 1 \/ (p - m \in 2..N /\ p = m + (p - m))
      BY ONLY p \in 1..(m + N), <1>1, <1>4
    <3> QED BY ONLY <3>1
  <2>3. /\ m + 1 \in 1..(m + N) /\ \A p \in 1..m : p \in 1..(m + N)
        /\ \A q \in 2..N : m + q \in 1..(m + N) /\ q \in 1..N
    BY ONLY <1>1, <1>4
  <2> QED BY <2>1, <2>2, <2>3
<1>9. /\ \A j \in 1..m : Target(l, t[j]) = l[k + 1][d[j]].off
      /\ Target(l, t[m + 1]) = o /\ Target(l, todo[1]) = o
      /\ \A q \in 2..N : Target(l, t[m + q]) = Target(l, todo[q])
  BY ONLY <1>1, <1>5, <1>6, <1>7, o = l[k][i].off, k = todo[1].lev, i = todo[1].idx DEF Target
<1>10. Targets(l, t) = Targets(l, todo) \cup UsersAt(R, L, o)
  <2>1. ASSUME NEW p \in 1..(m + N) PROVE Target(l, t[p]) \in Targets(l, todo) \cup UsersAt(R, L, o)
    <3>1. CASE p \in 1..m
      <4>1. Target(l, t[p]) = l[k + 1][d[p]].off /\ d[p] \in U
        BY ONLY <3>1, <1>4, <1>9
      <4>2. l[k + 1][d[p]].off \in OffsOf(l, k + 1, U)
        BY ONLY <4>1 DEF OffsOf
      <4> QED BY ONLY <4>1, <4>2, <1>3
    <3>2. CASE p = m + 1
      BY ONLY <3>2, <1>1, <1>9 DEF Targets
    <3>3. CASE \E q \in 2..N : p = m + q
      BY ONLY <3>3, <1>1, <1>8, <1>9 DEF Targets
    <3> QED BY <3>1, <3>2, <3>3, <1>8
  <2>2. ASSUME NEW q \in 1..N PROVE Target(l, todo[q]) \in Targets(l, t)
    <3>1. CASE q = 1
      BY ONLY <3>1, <1>8, <1>9 DEF Targets
    <3>2. CASE q # 1
      <4>1. q \in 2..N
        BY ONLY <3>2, <1>1, q \in 1..N
      <4> QED BY ONLY <4>1, <1>8, <1>9 DEF Targets
    <3> QED BY <3>1, <3>2
  <2>3. ASSUME NEW x \in UsersAt(R, L, o) PROVE x \in Targets(l, t)
    <3>1. PICK u \in U : x = l[k + 1][u].off
      BY ONLY <1>3, x \in UsersAt(R, L, o) DEF OffsOf
    <3>2. PICK j \in 1..m : d[j] = u
      BY ONLY <1>4, u \in U
    <3> QED BY ONLY <3>1, <3>2, <1>8, <1>9 DEF Targets
  <2>4. Targets(l, t) \subseteq Targets(l, todo) \cup UsersAt(R, L, o)
    BY ONLY <2>1, <1>8 DEF Targets
  <2>5. Targets(l, todo) \subseteq Targets(l, t)
    BY ONLY <2>2, <1>1 DEF Targets
  <2> QED BY ONLY <2>3, <2>4, <2>5
<1>11. o \in Targets(l, todo)
  BY ONLY <1>1, <1>9 DEF Targets
<1>12. Over(R, L, Targets(l, t)) = Over(R, L, Targets(l, todo))
  <2>1. Over(R, L, Targets(l, todo) \cup UsersAt(R, L, o)) = Over(R, L, Targets(l, todo))
    BY ONLY <1>11, OverUsers
  <2> QED BY ONLY <2>1, <1>10
<1>13. Removals(l, t)
  <2>1. ASSUME NEW p \in 1..(m + N)
        PROVE  /\ t[p].do \in {"remove", "unlink"} /\ t[p].lev \in Levels
               /\ t[p].idx \in DOMAIN l[t[p].lev]
    <3>1. CASE p \in 1..m
      <4>1. /\ t[p] = a[p] /\ a[p].do = "remove" /\ a[p].lev = k + 1 /\ a[p].idx = d[p] /\ d[p] \in 1..n
        BY ONLY <3>1, <1>3, <1>4, <1>6, <1>7
      <4> QED BY ONLY <4>1, <1>2, DOMAIN l[k + 1] = 1..n
    <3>2. CASE p = m + 1
      BY ONLY <3>2, <1>2, <1>5, <1>7, i \in DOMAIN l[k]
    <3>3. CASE \E q \in 2..N : p = m + q
      BY ONLY <3>3, <1>1, <1>7, <1>8, Comes(R, L, l, todo, G) DEF Comes, Removals
    <3> QED BY ONLY <3>1, <3>2, <3>3, <1>8, p \in 1..(m + N)
  <2> QED BY ONLY <2>1, <1>8 DEF Removals
<1>14. t # <<>> /\ t[Len(t)].cmd = todo[N].cmd /\ Target(l, t[Len(t)]) = Target(l, todo[N])
  <2>1. t # <<>>
    <3>1. Len(t) # 0
      BY ONLY <1>1, <1>4, <1>7
    <3> QED BY ONLY <3>1, <1>7, EmptySeq
  <2>2. CASE N = 1
    BY ONLY <2>1, <2>2, <1>5, <1>7, <1>9
  <2>3. CASE N # 1
    <3>1. N \in 2..N
      BY ONLY <2>3, <1>1
    <3> QED BY ONLY <3>1, <2>1, <1>7, <1>9
  <2> QED BY <2>2, <2>3
<1>15. CASE Ones(R, L, l, todo, G) \/ Purge(R, L, l, todo, G)
  BY <1>1, <1>2, <1>15 DEF Ones, Purge, Starred
<1>16. CASE WithUsers(R, L, l, todo, G)
  BY <1>12, <1>13, <1>14, <1>16 DEF Comes, WithUsers
<1>17. CASE Around(R, L, l, todo, G)
  BY <1>12, <1>13, <1>14, <1>17 DEF Comes, Around
<1>18. Comes(R, L, l, t, G)
  BY <1>15, <1>16, <1>17 DEF Comes
<1> QED BY ONLY <1>18, t = Expanded(todo, U)

\* A task that comes after the removal of entry i of level k finds its record as before.
LEMMA TaskLater ==
  ASSUME NEW R, NEW L, FileOK(R, L), NEW l, l = Read(R, L), NEW k \in Levels, NEW i \in DOMAIN l[k],
         NEW x, x.lev \in Levels, x.idx \in DOMAIN l[x.lev],
         x.lev < k \/ (x.lev = k /\ x.idx < i)
  PROVE  LET d == DropList(l, k, i) IN
         /\ x.idx \in DOMAIN d[x.lev] /\ Target(d, x) = Target(l, x)
         /\ Target(l, x) # l[k][i].off /\ Target(l, x) \in L
<1> DEFINE d == DropList(l, k, i)
<1>1. ListsOK(R, l)
  BY ReadOK
<1>2. /\ DOMAIN l[k] = 1..Len(l[k]) /\ Len(l[k]) \in Nat /\ DOMAIN d[k] = 1..(Len(l[k]) - 1)
      /\ \A u \in DOMAIN d[k] : d[k][u] = l[k][Before(u, i)]
      /\ \A m \in Levels : m # k /\ m # k + 1 => d[m] = l[m]
  BY <1>1, DropFacts
<1> HIDE DEF d
<1>3. Target(l, x) \in L /\ R[Target(l, x)].lev = x.lev
  BY ReadHas DEF Target
<1>4. l[k][i].off \in L /\ R[l[k][i].off].lev = k
  BY ReadHas
<1>5. CASE x.lev < k
  <2>1. x.lev # k /\ x.lev # k + 1
    BY <1>5 DEF Levels
  <2>2. d[x.lev] = l[x.lev]
    BY <1>2, <2>1
  <2> QED BY <1>3, <1>4, <2>1, <2>2 DEF Target, d
<1>6. CASE x.lev = k /\ x.idx < i
  <2>1. x.idx \in 1..(Len(l[k]) - 1) /\ Before(x.idx, i) = x.idx
    BY <1>2, <1>6 DEF Before
  <2>2. d[k][x.idx] = l[k][x.idx]
    BY <1>2, <2>1
  <2>3. x.idx # i /\ x.idx \in DOMAIN l[k]
    BY <1>2, <1>6
  <2>4. l[k][x.idx].off # l[k][i].off
    BY <2>3, ReadOnce
  <2> QED BY <1>2, <1>3, <1>6, <2>1, <2>2, <2>4 DEF Target, d
<1> QED BY <1>5, <1>6

LEMMA TargetsLater ==
  ASSUME NEW R, NEW L, FileOK(R, L), NEW l, l = Read(R, L),
         NEW todo \in Seq(TaskType), todo # <<>>, Removals(l, todo),
         NEW k, k = todo[1].lev, NEW i, i = todo[1].idx,
         \A q \in DOMAIN todo : 1 < q =>
            todo[q].lev < k \/ (todo[q].lev = k /\ todo[q].idx < i)
  PROVE  LET d == DropList(l, k, i)
             t == Tail(todo)
         IN  /\ Removals(d, t) /\ Targets(d, t) = Targets(l, t)
             /\ l[k][i].off \notin Targets(l, t) /\ Targets(l, t) \subseteq L
             /\ \A p \in DOMAIN t : Target(d, t[p]) = Target(l, t[p])
<1> DEFINE d == DropList(l, k, i)
           t == Tail(todo)
<1>1. /\ Len(todo) \in Nat \ {0} /\ DOMAIN todo = 1..Len(todo) /\ DOMAIN t = 1..(Len(todo) - 1)
      /\ \A p \in 1..(Len(todo) - 1) : t[p] = todo[p + 1] /\ p + 1 \in DOMAIN todo
  BY RestFacts
<1>2. 1 \in DOMAIN todo /\ \A p \in DOMAIN t : 1 < p + 1
  BY <1>1
<1>3. k \in Levels /\ i \in DOMAIN l[k]
  BY <1>2 DEF Removals
<1>4. ASSUME NEW p \in DOMAIN t
      PROVE  /\ t[p].do \in {"remove", "unlink"} /\ t[p].lev \in Levels
             /\ t[p].idx \in DOMAIN d[t[p].lev] /\ Target(d, t[p]) = Target(l, t[p])
             /\ Target(l, t[p]) # l[k][i].off /\ Target(l, t[p]) \in L
  <2>1. t[p] = todo[p + 1] /\ p + 1 \in DOMAIN todo /\ 1 < p + 1
    BY <1>1, <1>2
  <2>2. /\ t[p].do \in {"remove", "unlink"} /\ t[p].lev \in Levels /\ t[p].idx \in DOMAIN l[t[p].lev]
        /\ t[p].lev < k \/ (t[p].lev = k /\ t[p].idx < i)
    BY <2>1 DEF Removals
  <2> QED BY <2>2, <1>3, TaskLater
<1>5. Removals(d, t) /\ \A p \in DOMAIN t : Target(d, t[p]) = Target(l, t[p])
  BY <1>4 DEF Removals
<1>6. Targets(d, t) = Targets(l, t)
  BY <1>5 DEF Targets
<1>7. l[k][i].off \notin Targets(l, t) /\ Targets(l, t) \subseteq L
  BY <1>4 DEF Targets
<1> QED BY <1>5, <1>6, <1>7

\* What a purge goes on with, when the record itself is gone.
LEMMA PurgeGoesOn ==
  ASSUME NEW R, NEW L, FileOK(R, L), NEW l, l = Read(R, L), NEW k \in Levels, NEW i \in DOMAIN l[k],
         NEW o, o = l[k][i].off, DefinedIn(R, L, o), R[o].lev = 2 => IsInjective(R[o].refs),
         UsersIn(l, k, i) = {}, NEW cmd \in Purging,
         NEW d, d = DropList(l, k, i)
  PROVE  LET M == L \ {o} IN
         Comes(R, M, d, PurgeBelow(cmd, k, l[k][i].refs), M \ Loose(R, M, UsedIn(R, L, o)))
<1> DEFINE M == L \ {o}
           refs == l[k][i].refs
           t == PurgeBelow(cmd, k, refs)
           G == M \ Loose(R, M, UsedIn(R, L, o))
<1>1. FileOK(R, M) /\ ListsOK(R, l)
  BY ReadOK, ReadRemove
<1>2. Levelled(R, L) /\ Levelled(R, M)
  <2>1. R \in Seq(RecordType) /\ L \in SUBSET (1..Len(R))
    BY DEF FileOK
  <2>2. \A p \in L : R[p] \in RecordType
    BY ONLY <2>1
  <2>3. \A p \in L : R[p].lev \in 1..4
    BY ONLY <2>2 DEF RecordType, Levels
  <2> QED BY <2>3 DEF Levelled
<1>3. \A m \in Levels : m < k => d[m] = l[m]
  <2>1. \A m \in Levels : m # k /\ m # k + 1 => d[m] = l[m]
    BY <1>1, DropFacts
  <2> QED BY <2>1 DEF Levels
<1>4. o \in L /\ R[o].lev = k
  BY ReadHas
<1>5. refs \in Seq(Nat) /\ Uses(k, refs)
  <2>1. l[k] \in Seq(Entry) /\ Uses(k, refs)
    BY <1>1 DEF ListsOK
  <2>2. l[k][i] \in Entry
    BY ONLY <2>1, i \in DOMAIN l[k]
  <2> QED BY <2>1, <2>2 DEF Entry
<1>6. CASE k = 1
  <2>1. t = <<>>
    BY <1>6 DEF PurgeBelow
  <2>2. UsedIn(R, L, o) = {}
    BY <1>2, <1>4, <1>6 DEF UsedIn, UsesIt, Levelled
  <2>3. Loose(R, M, {}) = {}
    BY <1>2, LooseNone
  <2>4. G = M
    BY <2>2, <2>3
  <2>5. Comes(R, M, d, <<>>, M)
    BY ComesNone
  <2> HIDE DEF t, G, M
  <2>6. Comes(R, M, d, t, G)
    BY ONLY <2>1, <2>4, <2>5
  <2> QED BY <2>6 DEF t, G, M
<1>7. ASSUME k # 1
      PROVE  /\ \A r \in Range(refs) : r \in DOMAIN d[k - 1] /\ r # 0
             /\ UsedIn(R, L, o) = OffsOf(d, k - 1, Range(refs))
             /\ UsedIn(R, L, o) \subseteq M
             /\ k - 1 \in Levels
             /\ k = 2 => IsInjective(refs)
  <2>1. /\ \A r \in Range(refs) : r \in DOMAIN l[k - 1] /\ r # 0
        /\ UsedIn(R, L, o) = OffsOf(l, k - 1, Range(refs))
        /\ IsInjective(R[o].refs) => IsInjective(refs)
    BY <1>7, ReadUses
  <2>2. k - 1 \in Levels /\ d[k - 1] = l[k - 1]
    BY <1>3, <1>7 DEF Levels
  <2>3. UsedIn(R, L, o) \subseteq M
    BY <1>4 DEF UsedIn, UsesIt, Levels
  <2> QED BY <2>1, <2>2, <2>3, <1>4 DEF OffsOf
<1>8. ASSUME k = 2 PROVE Comes(R, M, d, t, G)
  <2>1. /\ DOMAIN t = DOMAIN refs
        /\ \A j \in DOMAIN refs : t[j] = Removal("remove", 1, Largest(refs, j), TRUE)
    <3>1. t = [j \in DOMAIN refs |-> Removal("remove", 1, Largest(refs, j), TRUE)]
      BY ONLY k = 2, cmd \in Purging DEF PurgeBelow
    <3> HIDE DEF t, refs
    <3> QED BY ONLY <3>1
  <2> HIDE DEF t, refs
  <2>2. \A j \in DOMAIN refs :
          t[j].do = "remove" /\ t[j].cmd = "remove" /\ t[j].lev = 1 /\ t[j].idx = Largest(refs, j)
    <3>1. SUFFICES ASSUME NEW j \in DOMAIN refs
                   PROVE  /\ t[j].do = "remove" /\ t[j].cmd = "remove" /\ t[j].lev = 1
                          /\ t[j].idx = Largest(refs, j)
      OBVIOUS
    <3>2. t[j] = Removal("remove", 1, Largest(refs, j), TRUE)
      BY ONLY <2>1
    <3> QED BY ONLY <3>2 DEF Removal
  <2>3. /\ \A j, m \in DOMAIN refs : j < m => Largest(refs, j) > Largest(refs, m)
        /\ {Largest(refs, j) : j \in DOMAIN refs} = Range(refs)
    BY <1>5, <1>7, <1>8, LargestOrder
  <2>4. \A j \in DOMAIN refs : Target(d, t[j]) = d[1][Largest(refs, j)].off
    BY <2>2 DEF Target
  <2>5. Targets(d, t) = UsedIn(R, L, o)
    <3>1. UsedIn(R, L, o) = OffsOf(d, 1, Range(refs))
      BY <1>7, <1>8
    <3>2. OffsOf(d, 1, Range(refs)) = {d[1][Largest(refs, j)].off : j \in DOMAIN refs}
      BY <2>3 DEF OffsOf
    <3>3. Targets(d, t) = {d[1][Largest(refs, j)].off : j \in DOMAIN refs}
      BY <2>1, <2>4 DEF Targets
    <3> QED BY <3>1, <3>2, <3>3
  <2>6. Removals(d, t)
    BY <2>1, <2>2, <2>3, <1>7, <1>8 DEF Removals, Levels
  <2>7. \A p \in UsedIn(R, L, o) : R[p].lev = 1
    BY <1>4, <1>8 DEF UsedIn, UsesIt
  <2>8. Loose(R, M, UsedIn(R, L, o)) = Free(R, M, UsedIn(R, L, o))
    BY <2>7, <1>2, <1>7, <1>8, LooseElements
  <2>9. G = M \ Free(R, M, Targets(d, t))
    BY <2>5, <2>8
  <2>10. Ones(R, M, d, t, G)
    <3> HIDE DEF G, M
    <3>1. \A p \in DOMAIN t : t[p].cmd = "remove"
      BY ONLY <2>1, <2>2
    <3>2. \A p, q \in DOMAIN t : p < q => t[p].lev = 1 /\ t[q].lev = 1 /\ t[p].idx > t[q].idx
      BY ONLY <2>1, <2>2, <2>3
    <3> QED BY ONLY <3>1, <3>2, <2>9 DEF Ones
  <2> QED BY <2>6, <2>10 DEF Comes
<1>9. CASE k > 2
  <2>1. Len(refs) = 1 /\ refs[1] \in Range(refs) /\ refs = <<refs[1]>> /\ Range(refs) = {refs[1]}
    <3>1. Len(refs) = 1
      BY <1>5, <1>9 DEF Uses
    <3>2. DOMAIN refs = {1}
      BY <1>5, <3>1
    <3> QED BY <1>5, <3>1, <3>2 DEF Range
  <2>2. k # 1 /\ k # 2 /\ k - 1 \in Levels
    BY <1>9 DEF Levels
  <2>3. refs[1] \in DOMAIN d[k - 1] /\ refs[1] > 0 /\ UsedIn(R, L, o) = {d[k - 1][refs[1]].off}
    <3>1. refs[1] \in DOMAIN d[k - 1] /\ refs[1] # 0 /\ UsedIn(R, L, o) = OffsOf(d, k - 1, {refs[1]})
      BY <1>7, <2>1, <2>2
    <3>2. refs[1] \in Nat
      BY <1>5, <2>1
    <3>3. OffsOf(d, k - 1, {refs[1]}) = {d[k - 1][refs[1]].off}
      BY ONLY DEF OffsOf
    <3>4. refs[1] > 0
      BY ONLY <3>1, <3>2
    <3> QED BY ONLY <3>1, <3>3, <3>4
  <2>4. t = <<Removal("purge", k - 1, refs[1], TRUE)>>
    BY <2>2, <2>3 DEF PurgeBelow
  <2> PICK x : x = Removal("purge", k - 1, refs[1], TRUE)
    OBVIOUS
  <2>5. x.do = "remove" /\ x.cmd = "purge" /\ x.lev = k - 1 /\ x.idx = refs[1]
    BY DEF Removal
  <2>6. t = <<x>>
    BY ONLY <2>4, x = Removal("purge", k - 1, refs[1], TRUE)
  <2> HIDE DEF t
  <2>7. Len(t) = 1 /\ DOMAIN t = {1} /\ t[1] = x
    BY ONLY <2>6
  <2>8. Target(d, x) = d[k - 1][refs[1]].off
    BY ONLY <2>5 DEF Target
  <2>9. Targets(d, t) = UsedIn(R, L, o)
    BY ONLY <2>3, <2>7, <2>8 DEF Targets
  <2>10. Removals(d, t)
    BY ONLY <2>2, <2>3, <2>5, <2>7 DEF Removals
  <2>11. Purge(R, M, d, t, G)
    BY ONLY <2>5, <2>7, <2>9 DEF Purge
  <2> QED BY <2>10, <2>11 DEF Comes, t
<1> QED BY <1>6, <1>8, <1>9 DEF Levels

\* A record that nothing uses goes.
LEMMA UnlinkKept ==
  ASSUME NEW R, NEW L, FileOK(R, L), \A p \in L : DefinedIn(R, L, p), NEW l, l = Read(R, L),
         NEW todo \in Seq(TaskType), todo # <<>>, Plain(todo) \/ Starry(todo, l),
         NEW k, k = todo[1].lev, NEW i, i = todo[1].idx, UsersIn(l, k, i) = {},
         NEW o, o = l[k][i].off, R[o].lev = 2 => IsInjective(R[o].refs),
         NEW G, Comes(R, L, l, todo, G)
  PROVE  Comes(R, L \ {o}, DropList(l, k, i),
               PurgeBelow(todo[1].cmd, k, l[k][i].refs) \o Tail(todo), G)
<1> DEFINE M == L \ {o}
           d == DropList(l, k, i)
           t == Tail(todo)
           b == PurgeBelow(todo[1].cmd, k, l[k][i].refs)
           T == Targets(l, t)
<1>1. /\ Len(todo) \in Nat \ {0} /\ DOMAIN todo = 1..Len(todo) /\ DOMAIN t = 1..(Len(todo) - 1)
      /\ \A p \in 1..(Len(todo) - 1) : t[p] = todo[p + 1] /\ p + 1 \in DOMAIN todo
      /\ 1 \in DOMAIN todo /\ Len(todo) \in DOMAIN todo /\ t \in Seq(TaskType)
      /\ \A p \in DOMAIN todo : p = Len(todo) \/ p < Len(todo)
  BY RestFacts
<1>2. Removals(l, todo) /\ k \in Levels /\ i \in DOMAIN l[k]
  BY <1>1 DEF Comes, Removals
<1>3. /\ o \in L /\ R[o].lev = k /\ Target(l, todo[1]) = o /\ DefinedIn(R, L, o)
      /\ UsersAt(R, L, o) = {}
  <2>1. o \in L /\ R[o].lev = k /\ Target(l, todo[1]) = o
    <3>1. Read(R, L)[k][i].off \in L /\ R[Read(R, L)[k][i].off].lev = k
      BY ONLY FileOK(R, L), l = Read(R, L), <1>2, ReadHas
    <3> QED BY ONLY <3>1, l = Read(R, L), o = l[k][i].off, k = todo[1].lev, i = todo[1].idx DEF Target
  <2>2. UsersAt(R, L, o) = IF k = 4 THEN {} ELSE OffsOf(l, k + 1, UsersIn(l, k, i))
    <3>1. UsersAt(R, L, l[k][i].off) = IF k = 4 THEN {} ELSE OffsOf(l, k + 1, UsersIn(l, k, i))
      BY ONLY FileOK(R, L), l = Read(R, L), <1>2, ReadUsers
    <3> QED BY ONLY <3>1, o = l[k][i].off
  <2>3. UsersAt(R, L, o) = {}
    BY <2>2 DEF OffsOf
  <2> QED BY <2>1, <2>3
<1>4. Levelled(R, L) /\ R[o].lev \in 1..4
  <2>1. R \in Seq(RecordType) /\ L \in SUBSET (1..Len(R))
    BY DEF FileOK
  <2>2. \A p \in L : R[p] \in RecordType
    BY ONLY <2>1
  <2>3. \A p \in L : R[p].lev \in 1..4
    BY ONLY <2>2 DEF RecordType, Levels
  <2> QED BY <2>3, <1>3 DEF Levelled
<1>5. /\ Targets(l, todo) = {o} \cup T
      /\ t # <<>> => t[Len(t)] = todo[Len(todo)]
      /\ t = <<>> => Len(todo) = 1 /\ T = {}
      /\ Len(todo) = 1 => t = <<>>
  BY <1>3, FirstTarget
<1>6. todo[1].cmd \notin Purging => b \o t = t
  <2>1. SUFFICES ASSUME todo[1].cmd \notin Purging PROVE b \o t = t
    OBVIOUS
  <2>2. b = <<>>
    BY <2>1 DEF PurgeBelow
  <2> HIDE DEF b, t
  <2> QED BY <2>2, <1>1, ConcatEmptySeq
<1>7. todo[1].cmd \in Purging /\ t = <<>> =>
        Comes(R, M, d, b \o t, M \ Loose(R, M, UsedIn(R, L, o)))
  <2>1. SUFFICES ASSUME todo[1].cmd \in Purging, t = <<>>
                 PROVE  Comes(R, M, d, b \o t, M \ Loose(R, M, UsedIn(R, L, o)))
    OBVIOUS
  <2>2. Comes(R, M, d, b, M \ Loose(R, M, UsedIn(R, L, o)))
    BY <2>1, <1>2, <1>3, PurgeGoesOn
  <2>3. b \in Seq(TaskType)
    <3>1. l[k] \in Seq(Entry) /\ Uses(k, l[k][i].refs)
      BY <1>2, ReadOK DEF ListsOK
    <3>2. l[k][i] \in Entry
      BY ONLY <3>1, <1>2
    <3>3. l[k][i].refs \in Seq(Nat) /\ todo[1].cmd \in Commands
      BY <3>2, <2>1 DEF Entry, Purging, Commands
    <3> QED BY <3>1, <3>3, <1>2, PurgePlain
  <2>4. b \o t = b
    <3> HIDE DEF b, t
    <3> QED BY <2>1, <2>3, ConcatEmptySeq
  <2> QED BY <2>2, <2>4
<1>8. ASSUME \A q \in DOMAIN todo : 1 < q => todo[q].lev < k \/ (todo[q].lev = k /\ todo[q].idx < i)
      PROVE  /\ Removals(d, t) /\ Targets(d, t) = T
             /\ o \notin T /\ T \subseteq L
             /\ \A p \in DOMAIN t : Target(d, t[p]) = Target(l, t[p])
  BY <1>2, <1>8, TargetsLater
<1> HIDE DEF d, t, b, T
<1>9. ASSUME Ones(R, L, l, todo, G) PROVE Comes(R, M, d, b \o t, G)
  <2>1. \A p \in DOMAIN todo : todo[p].cmd = "remove"
    BY <1>9 DEF Ones
  <2>2. b \o t = t
    BY <2>1, <1>1, <1>6 DEF Purging
  <2>3. ASSUME NEW q \in DOMAIN todo, 1 < q PROVE todo[q].lev = k /\ todo[q].idx < i /\ k = 1
    <3>1. todo[1].lev = 1 /\ todo[q].lev = 1 /\ todo[1].idx > todo[q].idx
      BY <1>1, <1>9, <2>3 DEF Ones
    <3> QED BY <3>1
  <2>4. Removals(d, t) /\ Targets(d, t) = T /\ o \notin T /\ T \subseteq L
    BY <1>8, <2>3
  <2>5. T # {} => R[o].lev = 1
    <3>1. SUFFICES ASSUME T # {} PROVE k = 1
      BY <1>3
    <3>2. PICK p \in DOMAIN t : TRUE
      BY <3>1 DEF T, Targets
    <3>3. p + 1 \in DOMAIN todo /\ 1 < p + 1
      BY <1>1, <3>2
    <3> QED BY <2>3, <3>3
  <2>6. Free(R, L, {o} \cup T) = {o} \cup Free(R, M, T)
    BY ONLY <1>3, <1>4, <2>4, <2>5, FreeStep
  <2>7. G = M \ Free(R, M, Targets(d, t))
    BY <1>5, <1>9, <2>4, <2>6 DEF Ones
  <2>8. \A p \in DOMAIN t : t[p].cmd = "remove"
    BY <1>1, <2>1
  <2>9. ASSUME NEW p \in DOMAIN t, NEW q \in DOMAIN t, p < q
        PROVE  t[p].lev = 1 /\ t[q].lev = 1 /\ t[p].idx > t[q].idx
    <3>1. p + 1 \in DOMAIN todo /\ q + 1 \in DOMAIN todo /\ p + 1 < q + 1
      BY <1>1, <2>9
    <3> QED BY <3>1, <1>1, <1>9 DEF Ones
  <2>10. Ones(R, M, d, t, G)
    BY <2>7, <2>8, <2>9 DEF Ones
  <2> QED BY <2>2, <2>4, <2>10 DEF Comes
<1>10. ASSUME Purge(R, L, l, todo, G) PROVE Comes(R, M, d, b \o t, G)
  <2>1. t = <<>> /\ todo[1].cmd \in Purging /\ T = {}
    BY <1>5, <1>10 DEF Purge, Purging
  <2>2. Loose(R, L, {o}) = {o} \cup Loose(R, M, UsedIn(R, L, o))
    BY ONLY <1>3, <1>4, LooseStep
  <2>3. G = M \ Loose(R, M, UsedIn(R, L, o))
    BY ONLY <1>5, <1>10, <2>1, <2>2 DEF Purge
  <2> QED BY <1>7, <2>1, <2>3
<1>11. ASSUME todo[Len(todo)].cmd \in Starred
       PROVE  /\ Removals(d, t) /\ Targets(d, t) = T
              /\ \A p \in DOMAIN t : Target(d, t[p]) = Target(l, t[p])
              /\ L \ Over(R, L, Targets(l, todo)) = M \ Over(R, M, T)
              /\ t # <<>> => b \o t = t
              /\ t = <<>> => Over(R, M, T) = {}
  <2>1. Starry(todo, l)
    BY <1>11, StarFirst
  <2>2. ASSUME NEW q \in DOMAIN todo, 1 < q PROVE todo[q].lev < k \/ (todo[q].lev = k /\ todo[q].idx < i)
    <3>1. \/ todo[1].lev > todo[q].lev
          \/ todo[1].lev = todo[q].lev /\ todo[1].idx > todo[q].idx
      BY <1>1, <2>1, <2>2 DEF Starry
    <3> QED BY <3>1
  <2>3. /\ Removals(d, t) /\ Targets(d, t) = T /\ o \notin T /\ T \subseteq L
        /\ \A p \in DOMAIN t : Target(d, t[p]) = Target(l, t[p])
    BY <1>8, <2>2
  <2>4. Over(R, L, {o} \cup T) = {o} \cup Over(R, M, T)
    <3>1. o \in L /\ o \notin T /\ UsersAt(R, L, o) = {} /\ T \in SUBSET L
      BY ONLY <1>3, <2>3
    <3>2. Over(R, L, {o} \cup T) = {o} \cup Over(R, L \ {o}, T)
      BY ONLY <3>1, OverStep
    <3> QED BY ONLY <3>2
  <2>5. L \ Over(R, L, Targets(l, todo)) = M \ Over(R, M, T)
    BY <1>5, <2>4
  <2>6. t # <<>> => b \o t = t
    <3>1. SUFFICES ASSUME t # <<>> PROVE todo[1].cmd \notin Purging
      BY <1>6
    <3>2. 1 # Len(todo)
      BY <1>5, <3>1
    <3>3. todo[1].cmd = "*remove"
      BY <1>1, <2>1, <3>2 DEF Starry
    <3> QED BY <3>3 DEF Purging
  <2>7. t = <<>> => Over(R, M, T) = {}
    <3>1. Over(R, M, {}) = {}
      BY DEF Over, ClosedUp
    <3> QED BY <3>1, <1>5
  <2> QED BY <2>3, <2>5, <2>6, <2>7
<1>12. ASSUME WithUsers(R, L, l, todo, G) PROVE Comes(R, M, d, b \o t, G)
  <2>1. todo[Len(todo)].cmd = "*remove" /\ todo[Len(todo)].cmd \in Starred
        /\ G = L \ Over(R, L, Targets(l, todo))
    BY <1>12 DEF WithUsers, Starred
  <2>2. /\ Removals(d, t) /\ Targets(d, t) = T /\ G = M \ Over(R, M, T)
        /\ t # <<>> => b \o t = t
        /\ t = <<>> => Over(R, M, T) = {}
    BY <1>11, <2>1
  <2>3. CASE t = <<>>
    <3>1. G = M /\ todo[1].cmd = "*remove"
      BY <2>1, <2>2, <2>3, <1>5
    <3>2. b \o t = <<>>
      BY <3>1, <2>3, <1>6 DEF Purging
    <3> QED BY <3>1, <3>2, ComesNone
  <2>4. CASE t # <<>>
    <3>1. t[Len(t)].cmd = "*remove"
      BY <1>5, <2>1, <2>4
    <3>2. WithUsers(R, M, d, t, G)
      BY <2>2, <2>4, <3>1 DEF WithUsers
    <3> QED BY <2>2, <2>4, <3>2 DEF Comes
  <2> QED BY <2>3, <2>4
<1>13. ASSUME Around(R, L, l, todo, G) PROVE Comes(R, M, d, b \o t, G)
  <2> DEFINE q == Target(l, todo[Len(todo)])
             A == L \ Over(R, L, Targets(l, todo))
  <2>1. /\ todo[Len(todo)].cmd = "*purge" /\ todo[Len(todo)].cmd \in Starred
        /\ G = A \ Loose(R, A, UsedIn(R, L, q))
    BY <1>13 DEF Around, Starred
  <2>2. /\ Removals(d, t) /\ Targets(d, t) = T /\ A = M \ Over(R, M, T)
        /\ \A p \in DOMAIN t : Target(d, t[p]) = Target(l, t[p])
        /\ t # <<>> => b \o t = t
        /\ t = <<>> => Over(R, M, T) = {}
    BY <1>11, <2>1
  <2> HIDE DEF A
  <2>3. CASE t = <<>>
    <3>1. A = M /\ todo[1].cmd \in Purging /\ q = o
      BY <2>1, <2>2, <2>3, <1>3, <1>5 DEF Purging
    <3>2. G = M \ Loose(R, M, UsedIn(R, L, o))
      BY <2>1, <3>1
    <3> QED BY <1>7, <2>3, <3>1, <3>2
  <2>4. CASE t # <<>>
    <3>1. t[Len(t)] = todo[Len(todo)] /\ Len(t) \in DOMAIN t
      <4>1. Len(t) \in DOMAIN t
        BY <1>1, <2>4, EmptySeq
      <4> QED BY <1>5, <2>4, <4>1
    <3>2. Target(d, t[Len(t)]) = q
      BY <2>2, <3>1
    <3>3. q \in L
      <4> PICK x : x = todo[Len(todo)]
        OBVIOUS
      <4>1. x.lev \in Levels /\ x.idx \in DOMAIN l[x.lev]
        BY ONLY <1>1, <1>2, x = todo[Len(todo)] DEF Removals
      <4>2. Read(R, L)[x.lev][x.idx].off \in L
        BY ONLY FileOK(R, L), l = Read(R, L), <4>1, ReadHas
      <4> QED BY ONLY <4>2, l = Read(R, L), x = todo[Len(todo)] DEF q, Target
    <3>4. UsedIn(R, M, q) = UsedIn(R, L, q)
      BY <1>3, <3>3 DEF UsedIn, UsersAt
    <3>5. Around(R, M, d, t, G)
      BY <2>1, <2>2, <2>4, <3>1, <3>2, <3>4 DEF Around
    <3> QED BY <2>2, <2>4, <3>5 DEF Comes
  <2> QED BY <2>3, <2>4
<1> QED BY <1>9, <1>10, <1>12, <1>13 DEF Comes, M, d, t, b

------------------------------------------------------------------------------
(* The calls.                                                                *)

\* A removal is begun with the goal that its first task comes to.
LEMMA GoalComes ==
  ASSUME FileOK(records, live), NEW l, l = Read(records, live), NEW cmd \in Commands,
         NEW k \in Levels, NEW i \in DOMAIN l[k], NEW o, o = l[k][i].off
  PROVE  Comes(records, live, l, <<Removal(cmd, k, i, FALSE)>>, Left(cmd, o))
<1> DEFINE x == Removal(cmd, k, i, FALSE)
           t == <<x>>
           G == Left(cmd, o)
           T == UsedIn(records, live, o)
<1>1. x.do = "remove" /\ x.cmd = cmd /\ x.lev = k /\ x.idx = i
  BY DEF Removal
<1> HIDE DEF x
<1>2. Len(t) = 1 /\ DOMAIN t = {1} /\ t[1] = x /\ t # <<>> /\ t[Len(t)] = x
  OBVIOUS
<1> HIDE DEF t
<1>3. Target(l, x) = o /\ Targets(l, t) = {o} /\ Removals(l, t)
  BY <1>1, <1>2 DEF Target, Targets, Removals
<1>4. o \in live
  BY ReadHas
<1>5. Levelled(records, live)
  <2>1. records \in Seq(RecordType) /\ live \in SUBSET (1..Len(records))
    BY DEF FileOK
  <2>2. \A p \in live : records[p] \in RecordType
    BY ONLY <2>1
  <2>3. \A p \in live : records[p].lev \in 1..4
    BY ONLY <2>2 DEF RecordType, Levels
  <2> QED BY <2>3 DEF Levelled
<1>6. UsersOf(o) = UsersAt(records, live, o)
  BY <1>4, UsesMeanUses
<1>7. /\ Above(o) = Over(records, live, {o})
      /\ Rising(o, Above(o)) /\ ClosedUp(records, live, Above(o)) /\ o \in Above(o)
  BY <1>4, <1>5, AboveIsOver
<1>8. CASE cmd = "remove"
  <2>1. G = live \ Free(records, live, {o})
    BY <1>6, <1>8 DEF Left, Starred, Purging, Free
  <2>2. Ones(records, live, l, t, G)
    <3> HIDE DEF G
    <3>1. \A p \in DOMAIN t : t[p].cmd = "remove"
      BY ONLY <1>1, <1>2, <1>8
    <3>2. \A p, q \in DOMAIN t : ~(p < q)
      BY ONLY <1>2
    <3> QED BY ONLY <3>1, <3>2, <1>3, <2>1 DEF Ones
  <2> QED BY <1>3, <2>2 DEF Comes, t, x
<1>9. CASE cmd = "purge"
  <2>1. G = live \ Loose(records, live, {o})
    <3>1. CASE UsersOf(o) # {}
      <4>1. Loose(records, live, {o}) = {}
        BY <1>5, <1>6, <3>1, LooseNone
      <4> QED BY <4>1, <3>1, <1>9 DEF Left, Starred
    <3>2. CASE UsersOf(o) = {}
      <4>1. Rising(o, {o}) /\ ClosedUp(records, live, {o})
        BY <1>4, <1>6, <3>2 DEF Rising, ClosedUp
      <4>2. Unneeded({o}, o) = {o} \cup Loose(records, live \ {o}, T)
        BY ONLY <1>4, <1>5, <4>1, UnneededIsLoose
      <4>3. Loose(records, live, {o}) = {o} \cup Loose(records, live \ {o}, T)
        BY ONLY <1>4, <1>5, <1>6, <3>2, LooseStep
      <4>4. G = live \ Unneeded({o}, o)
        BY <1>9, <3>2 DEF Left, Starred, Purging
      <4> QED BY ONLY <4>2, <4>3, <4>4
    <3> QED BY <3>1, <3>2
  <2>2. Purge(records, live, l, t, G)
    BY <1>1, <1>2, <1>3, <1>9, <2>1 DEF Purge
  <2> QED BY <1>3, <2>2 DEF Comes, t, x
<1>10. CASE cmd = "*remove"
  <2>1. G = live \ Over(records, live, {o})
    BY <1>7, <1>10 DEF Left, Starred, Purging
  <2>2. WithUsers(records, live, l, t, G)
    BY <1>1, <1>2, <1>3, <1>10, <2>1 DEF WithUsers
  <2> QED BY <1>3, <2>2 DEF Comes, t, x
<1>11. CASE cmd = "*purge"
  <2> DEFINE S == Over(records, live, {o})
             M == live \ S
  <2>1. Unneeded(S, o) = S \cup Loose(records, M, T)
    BY ONLY <1>4, <1>5, <1>7, UnneededIsLoose
  <2>2. G = live \ Unneeded(S, o)
    BY <1>7, <1>11 DEF Left, Starred, Purging
  <2>3. G = M \ Loose(records, M, T)
    <3> HIDE DEF G, T
    <3> QED BY ONLY <2>1, <2>2
  <2>4. Around(records, live, l, t, G)
    BY <1>1, <1>2, <1>3, <1>11, <2>3 DEF Around
  <2> QED BY <1>3, <2>4 DEF Comes, t, x
<1> QED BY <1>8, <1>9, <1>10, <1>11 DEF Commands

------------------------------------------------------------------------------
(* The invariant of the removals.                                            *)

\* No list of elements that the user gives, and no cell of the file to begin with, has an
\* element twice: the removals of a purge are counted by the place in the list, and what the
\* second of two equal ones hits is the element that has moved into the place of the first.
ElementsOnce ==
  /\ \A r \in Lists[2] : IsInjective(r)
  /\ \A o \in DOMAIN Given : Given[o].lev = 2 => IsInjective(Given[o].refs)

OnceIn(todo) ==
  \A p \in DOMAIN todo : todo[p].do = "create" /\ todo[p].lev = 2 => IsInjective(todo[p].refs)

CellsOnce ==
  /\ \A o \in DOMAIN records : records[o].lev = 2 => IsInjective(records[o].refs)
  /\ ~Idle => OnceIn(call.todo)

\* What a call that began with a structure that is up to date has left to do comes to its goal.
Exact ==
  clean /\ ~Idle /\ call.exact /\ ~call.raised =>
    \A G \in call.goal : Comes(records, live, call.vs.list, call.todo, G)

RInv == IInv /\ CellsOnce /\ Exact

LEMMA OnceNone ==
  ASSUME NEW todo, NEW l, Plain(todo) \/ Starry(todo, l) PROVE OnceIn(todo)
BY TaskKinds DEF Plain, Starry, OnceIn

LEMMA OnceRest ==
  ASSUME NEW todo \in Seq(TaskType), todo # <<>>, OnceIn(todo)
  PROVE  /\ OnceIn(Tail(todo))
         /\ todo[1].do = "create" /\ todo[1].lev = 2 => IsInjective(todo[1].refs)
<1>1. /\ DOMAIN todo = 1..Len(todo) /\ DOMAIN Tail(todo) = 1..(Len(todo) - 1) /\ 1 \in DOMAIN todo
      /\ \A p \in 1..(Len(todo) - 1) : Tail(todo)[p] = todo[p + 1] /\ p + 1 \in DOMAIN todo
  BY RestFacts
<1> QED BY <1>1 DEF OnceIn

LEMMA OnceConcat ==
  ASSUME NEW a \in Seq(TaskType), NEW b \in Seq(TaskType), OnceIn(a), OnceIn(b)
  PROVE  OnceIn(a \o b)
<1> DEFINE s == a \o b
<1>1. /\ Len(a) \in Nat /\ Len(b) \in Nat /\ DOMAIN a = 1..Len(a) /\ DOMAIN b = 1..Len(b)
      /\ Len(s) = Len(a) + Len(b) /\ DOMAIN s = 1..(Len(a) + Len(b))
      /\ \A p \in 1..(Len(a) + Len(b)) : s[p] = IF p <= Len(a) THEN a[p] ELSE b[p - Len(a)]
  BY ConcatProperties
<1> HIDE DEF s
<1>2. ASSUME NEW p \in 1..(Len(a) + Len(b))
      PROVE  s[p].do = "create" /\ s[p].lev = 2 => IsInjective(s[p].refs)
  <2>1. CASE p <= Len(a)
    <3>1. p \in DOMAIN a /\ s[p] = a[p]
      BY <1>1, <2>1
    <3> QED BY <3>1 DEF OnceIn
  <2>2. CASE p > Len(a)
    <3>1. p - Len(a) \in DOMAIN b /\ s[p] = b[p - Len(a)]
      BY <1>1, <2>2
    <3> QED BY <3>1 DEF OnceIn
  <2> QED BY <1>1, <2>1, <2>2
<1>3. OnceIn(s)
  BY <1>1, <1>2 DEF OnceIn
<1> QED BY <1>3 DEF s

\* Between two calls there is nothing to come to.
LEMMA IdleExact ==
  ASSUME CellsOnce, records' = records, Idle' PROVE CellsOnce' /\ Exact'
BY DEF CellsOnce, Exact

\* The calls.
LEMMA BeginExact ==
  ASSUME CellsOnce, NEW h, NEW g, NEW todo, NEW goal, Begin(h, g, todo, goal), OnceIn(todo),
         clean /\ h \in fresh => \A G \in goal : Comes(records, live, mem[h].list, todo, G)
  PROVE  CellsOnce' /\ Exact'
<1>1. /\ records' = records /\ live' = live /\ clean' = clean
      /\ call' = [todo |-> todo, vs |-> mem[h], from |-> h, to |-> g, goal |-> goal,
                  exact |-> h \in fresh, err |-> todo = <<>>, raised |-> FALSE, missed |-> FALSE]
  BY DEF Begin, file
<1>2. /\ call'.todo = todo /\ call'.vs = mem[h] /\ (call'.exact <=> h \in fresh)
      /\ call'.goal = goal
  BY ONLY <1>1
<1>3. CellsOnce'
  BY <1>1, <1>2 DEF CellsOnce
<1> QED BY <1>1, <1>2, <1>3 DEF Exact

LEMMA CallCreateExact ==
  ASSUME ElementsOnce, CellsOnce, NEW h, NEW g, NEW k, NEW n, NEW refs \in Lists[k], NEW fits,
         CallCreate(h, g, k, n, refs, fits)
  PROVE  CellsOnce' /\ Exact'
<1> DEFINE s == <<Creation(k, n, refs, fits)>>
<1>1. OnceIn(s)
  <2>1. DOMAIN s = {1} /\ s[1] = Creation(k, n, refs, fits)
    OBVIOUS
  <2>2. s[1].lev = k /\ s[1].refs = refs
    BY ONLY <2>1 DEF Creation
  <2> QED BY ONLY <2>1, <2>2, ElementsOnce, refs \in Lists[k] DEF ElementsOnce, OnceIn
<1>2. Begin(h, g, s, {})
  BY DEF CallCreate
<1> QED BY ONLY <1>1, <1>2, CellsOnce, BeginExact

LEMMA CallEasyExact ==
  ASSUME ElementsOnce, CellsOnce, NEW h, NEW g, NEW n, NEW elms \in Lists[2], NEW fits3, NEW fits4,
         CallEasy(h, g, n, elms, fits3, fits4)
  PROVE  CellsOnce' /\ Exact'
<1> DEFINE s == <<Creation(2, n, elms, TRUE), Creation(3, n, <<n>>, fits3),
                  Creation(4, n, <<n>>, fits4)>>
<1>1. OnceIn(s)
  <2>1. DOMAIN s = {1, 2, 3}
    OBVIOUS
  <2>2. s[1].refs = elms /\ s[2].lev = 3 /\ s[3].lev = 4
    BY DEF Creation
  <2> HIDE DEF s
  <2> QED BY ONLY <2>1, <2>2, ElementsOnce, elms \in Lists[2] DEF ElementsOnce, OnceIn
<1>2. Begin(h, g, s, {})
  BY DEF CallEasy
<1> QED BY ONLY <1>1, <1>2, CellsOnce, BeginExact

LEMMA CallRemoveExact ==
  ASSUME IInv, CellsOnce, NEW h \in Holders, NEW g, NEW cmd \in Commands,
         NEW k \in Levels, NEW n, CallRemove(h, g, cmd, k, n)
  PROVE  CellsOnce' /\ Exact'
<1> DEFINE l == mem[h].list
           i == IndexOf(l[k], n)
           s == <<Removal(cmd, k, i, FALSE)>>
           goal == IF h \in fresh THEN {Left(cmd, l[k][i].off)} ELSE {}
<1>1. CASE i = 0
  <2>1. Begin(h, g, <<>>, {live})
    BY <1>1 DEF CallRemove
  <2>2. OnceIn(<<>>)
    BY DEF OnceIn
  <2>3. \A G \in {live} : Comes(records, live, mem[h].list, <<>>, G)
    BY ComesNone
  <2> QED BY ONLY <2>1, <2>2, <2>3, CellsOnce, BeginExact
<1>2. CASE i # 0
  <2>1. Begin(h, g, s, goal)
    BY <1>2 DEF CallRemove
  <2>2. OnceIn(s)
    <3>1. DOMAIN s = {1} /\ s[1].do = "remove"
      BY DEF Removal
    <3> HIDE DEF s
    <3> QED BY ONLY <3>1 DEF OnceIn
  <2>3. ASSUME clean, h \in fresh PROVE \A G \in goal : Comes(records, live, mem[h].list, s, G)
    <3>1. FileOK(records, live) /\ l = Read(records, live) /\ l \in [Levels -> Seq(Entry)]
      <4>1. /\ FileOK(records, live) /\ mem[h].list = Read(records, live)
            /\ VSOK(mem[h], records)
        BY <2>3, Parts
      <4> QED BY <4>1 DEF VSOK, ListsOK
    <3>2. i \in DOMAIN l[k]
      <4>1. l[k] \in Seq(Entry)
        BY <3>1
      <4>2. 0 \notin DOMAIN l[k]
        BY ONLY <4>1
      <4> QED BY <4>2, <1>2, IndexOfFacts
    <3> HIDE DEF i, l
    <3>3. Comes(records, live, l, s, Left(cmd, l[k][i].off))
      BY <3>1, <3>2, GoalComes
    <3> QED BY <3>3, <2>3 DEF l
  <2> HIDE DEF s, goal
  <2> QED BY ONLY <2>1, <2>2, <2>3, CellsOnce, BeginExact
<1> QED BY <1>1, <1>2

------------------------------------------------------------------------------
(* The steps of a call.                                                      *)

\* A call that creates has no goal.
LEMMA NoGoal ==
  ASSUME IInv, Exact, Creating, clean, call.exact, ~call.raised PROVE call.goal = {}
<1>1. ~Idle /\ call.todo \in Seq(TaskType) /\ call.todo # <<>> /\ call.todo[1].do = "create"
  BY BusyFacts DEF Creating
<1>2. 1 \in DOMAIN call.todo
  BY <1>1, RestFacts
<1>3. \A G \in call.goal : Removals(call.vs.list, call.todo)
  BY <1>1 DEF Exact, Comes
<1>4. \A G \in call.goal : FALSE
  BY <1>1, <1>2, <1>3 DEF Removals
<1> QED BY <1>4

\* What becomes of a call: its goal and the history stay.
LEMMA NextCall ==
  ASSUME NEW c \in CallType, NEW t, NEW v, NEW e, NEW m
  PROVE  \A f \in {[c EXCEPT !.todo = t], [c EXCEPT !.todo = t, !.vs = v],
                    [c EXCEPT !.todo = t, !.err = e], [c EXCEPT !.todo = t, !.err = e, !.vs = v],
                    [c EXCEPT !.todo = t, !.err = e, !.missed = m],
                    [[c EXCEPT !.todo = t, !.err = e, !.vs = v] EXCEPT !.missed = m]} :
           f.todo = t /\ f.goal = c.goal /\ f.exact = c.exact /\ f.raised = c.raised
BY DEF CallType

LEMMA RaisedCall ==
  ASSUME NEW c \in CallType, NEW t
  PROVE  LET f == [c EXCEPT !.todo = t, !.raised = TRUE]
         IN  f.todo = t /\ f.goal = c.goal /\ f.exact = c.exact /\ f.raised
BY DEF CallType

LEMMA CreatingExact ==
  ASSUME RInv, Creating, clean' => clean, records' = records, OnceIn(call'.todo),
         call'.goal = call.goal, call'.exact = call.exact, call.raised => call'.raised
  PROVE  CellsOnce' /\ Exact'
<1>1. CellsOnce'
  BY DEF RInv, CellsOnce
<1>2. clean' /\ call'.exact /\ ~call'.raised => call'.goal = {}
  BY NoGoal DEF RInv
<1>3. Exact'
  BY <1>2 DEF Exact
<1> QED BY <1>1, <1>3

LEMMA TodoFacts ==
  ASSUME RInv, Busy
  PROVE  /\ call \in CallType /\ VS \in VSType /\ OnceIn(call.todo) /\ OnceIn(Rest)
         /\ Task.do = "create" /\ Task.lev = 2 => IsInjective(Task.refs)
         /\ Rest \in Seq(TaskType) /\ <<>> \in Seq(TaskType) /\ OnceIn(<<>>)
<1>1. /\ ~Idle /\ call \in CallType /\ VS \in VSType /\ call.todo \in Seq(TaskType)
      /\ call.todo # <<>> /\ Task = call.todo[1] /\ Rest = Tail(call.todo) /\ Rest \in Seq(TaskType)
  BY BusyFacts DEF RInv
<1>2. OnceIn(call.todo)
  BY <1>1 DEF RInv, CellsOnce
<1>3. <<>> \in Seq(TaskType) /\ OnceIn(<<>>)
  <2>1. <<>> \in Seq(TaskType)
    BY NothingLeft
  <2> QED BY <2>1 DEF OnceIn
<1> QED BY <1>1, <1>2, <1>3, OnceRest

LEMMA CreateExistingExact ==
  ASSUME RInv, CreateExisting \/ CreateInvalid PROVE CellsOnce' /\ Exact'
<1>1. /\ Creating /\ clean' = clean /\ records' = records
      /\ call' = Raised \/ call' = [call EXCEPT !.todo = Rest] \/ call' = Failed(VS)
  BY DEF CreateExisting, CreateInvalid, file
<1>2. /\ call \in CallType /\ VS \in VSType /\ OnceIn(Rest) /\ Rest \in Seq(TaskType)
      /\ <<>> \in Seq(TaskType) /\ OnceIn(<<>>)
  BY <1>1, TodoFacts DEF Creating
<1>3. /\ OnceIn(call'.todo) /\ call'.goal = call.goal /\ call'.exact = call.exact
      /\ call.raised => call'.raised
  <2>1. CASE call' = Raised
    <3>1. call' = [call EXCEPT !.todo = <<>>, !.raised = TRUE]
      BY <2>1 DEF Raised
    <3> QED BY ONLY <3>1, <1>2, RaisedCall
  <2>2. CASE call' = [call EXCEPT !.todo = Rest]
    BY ONLY <2>2, <1>2, NextCall
  <2>3. CASE call' = Failed(VS)
    <3>1. call' = [call EXCEPT !.todo = <<>>, !.err = TRUE, !.vs = VS]
      BY <2>3 DEF Failed
    <3> QED BY ONLY <3>1, <1>2, NextCall
  <2> QED BY <1>1, <2>1, <2>2, <2>3
<1> QED BY <1>1, <1>3, CreatingExact

LEMMA RaisesExact ==
  ASSUME RInv, RemoveRaises PROVE CellsOnce' /\ Exact'
<1>1. Busy /\ records' = records /\ call' = [call EXCEPT !.todo = <<>>, !.raised = TRUE]
  BY DEF RemoveRaises, Removing, Raised, file
<1>2. call \in CallType /\ <<>> \in Seq(TaskType) /\ OnceIn(<<>>)
  BY <1>1, TodoFacts
<1>3. call'.todo = <<>> /\ call'.raised
  BY ONLY <1>1, <1>2, RaisedCall
<1>4. CellsOnce'
  BY <1>1, <1>2, <1>3 DEF RInv, CellsOnce
<1> QED BY <1>3, <1>4 DEF Exact

LEMMA CreateRecordExact ==
  ASSUME RInv, CreateRecord PROVE CellsOnce' /\ Exact'
<1> DEFINE r == [lev |-> Task.lev, name |-> Task.name, refs |-> Task.refs]
           off == Len(records) + 1
           v == IF Taken /\ Task.lev # 4 THEN VS ELSE Added(off)
<1>1. /\ Creating /\ records' = Append(records, r)
      /\ \/ Taken /\ clean' = clean /\ call' = [Failed(v) EXCEPT !.missed = TRUE]
         \/ clean' = (clean /\ call.exact) /\ call' = [call EXCEPT !.todo = Rest, !.vs = v]
  BY DEF CreateRecord, FileChanged
<1> HIDE DEF v
<1>2. /\ call \in CallType /\ OnceIn(Rest) /\ OnceIn(<<>>)
      /\ Task.do = "create" /\ Task.lev = 2 => IsInjective(Task.refs)
  BY <1>1, TodoFacts DEF Creating
<1>3. /\ OnceIn(call'.todo) /\ call'.goal = call.goal /\ call'.exact = call.exact
      /\ call'.raised = call.raised
  <2>1. CASE call' = [Failed(v) EXCEPT !.missed = TRUE]
    <3>1. call' = [[call EXCEPT !.todo = <<>>, !.err = TRUE, !.vs = v] EXCEPT !.missed = TRUE]
      BY <2>1 DEF Failed
    <3> QED BY ONLY <3>1, <1>2, NextCall
  <2>2. CASE call' = [call EXCEPT !.todo = Rest, !.vs = v]
    BY ONLY <2>2, <1>2, NextCall
  <2> QED BY <1>1, <2>1, <2>2
<1>4. \A o \in DOMAIN records' : records'[o].lev = 2 => IsInjective(records'[o].refs)
  <2>1. records \in Seq(RecordType) /\ Len(records) \in Nat
    BY Parts DEF RInv
  <2>2. /\ DOMAIN records = 1..Len(records) /\ DOMAIN records' = 1..(Len(records) + 1)
        /\ \A o \in 1..Len(records) : records'[o] = records[o]
        /\ records'[Len(records) + 1] = r
    BY ONLY <1>1, <2>1, AppendProperties, LenProperties
  <2>3. r.lev = Task.lev /\ r.refs = Task.refs
    OBVIOUS
  <2>4. r.lev = 2 => IsInjective(r.refs)
    BY <2>3, <1>1, <1>2 DEF Creating
  <2>5. \A o \in 1..Len(records) : records[o].lev = 2 => IsInjective(records[o].refs)
    BY <2>2 DEF RInv, CellsOnce
  <2>6. \A o \in 1..(Len(records) + 1) : o \in 1..Len(records) \/ o = Len(records) + 1
    BY <2>1
  <2> HIDE DEF r
  <2> QED BY ONLY <2>2, <2>4, <2>5, <2>6
<1>5. CellsOnce'
  BY <1>3, <1>4 DEF CellsOnce
<1>6. clean' /\ call'.exact /\ ~call'.raised => call'.goal = {}
  BY <1>1, <1>3, NoGoal DEF RInv
<1> QED BY <1>5, <1>6 DEF Exact

\* What a removal starts from.
LEMMA RemovingFacts ==
  ASSUME RInv, Busy, clean, call.exact, ~call.raised
  PROVE  /\ FileOK(records, live) /\ VS.list = Read(records, live) /\ Levelled(records, live)
         /\ \A p \in live : DefinedIn(records, live, p)
         /\ VS = call.vs /\ call.todo \in Seq(TaskType) /\ call.todo # <<>> /\ Task = call.todo[1]
         /\ Rest = Tail(call.todo) /\ Guarded(call.todo, VS.list)
         /\ \A G \in call.goal : Comes(records, live, VS.list, call.todo, G)
<1>1. /\ ~Idle /\ VS = call.vs /\ call.todo \in Seq(TaskType) /\ call.todo # <<>>
      /\ Task = call.todo[1] /\ Rest = Tail(call.todo)
  BY BusyFacts DEF RInv
<1>2. /\ FileOK(records, live) /\ VS.list = Read(records, live) /\ Guarded(call.todo, VS.list)
      /\ FileClean
  BY <1>1, Parts DEF RInv
<1>3. Levelled(records, live)
  <2>1. records \in Seq(RecordType) /\ live \in SUBSET (1..Len(records))
    BY <1>2 DEF FileOK
  <2>2. \A p \in live : records[p] \in RecordType
    BY ONLY <2>1
  <2> QED BY ONLY <2>2 DEF RecordType, Levels, Levelled
<1>4. \A G \in call.goal : Comes(records, live, VS.list, call.todo, G)
  BY <1>1 DEF RInv, Exact
<1> QED BY <1>1, <1>2, <1>3, <1>4 DEF FileClean

LEMMA RemoveUsedExact ==
  ASSUME RInv, RemoveUsed PROVE CellsOnce' /\ Exact'
<1> DEFINE todo == call.todo
           l == VS.list
           k == Task.lev
           i == Task.idx
           e == ~Task.nested
<1>1. /\ Busy /\ Task.do = "remove" /\ ~BadIndex /\ Task.cmd \notin Starred /\ TaskUsers # {}
      /\ records' = records /\ live' = live /\ clean' = clean
      /\ call' = [call EXCEPT !.todo = Rest, !.err = e]
  BY DEF RemoveUsed, Removing, InUse, file
<1> HIDE DEF e
<1>2. call \in CallType /\ OnceIn(Rest)
  BY <1>1, TodoFacts
<1>3. /\ call'.todo = Rest /\ call'.goal = call.goal /\ call'.exact = call.exact
      /\ call'.raised = call.raised
  BY ONLY <1>1, <1>2, NextCall
<1>4. call'.vs = call.vs
  <2>1. [call EXCEPT !.todo = Rest, !.err = e].vs = call.vs
    BY ONLY <1>2 DEF CallType
  <2> QED BY <1>1, <2>1
<1>5. CellsOnce'
  BY <1>1, <1>2, <1>3 DEF RInv, CellsOnce
<1>6. ASSUME clean, call.exact, ~call.raised, NEW G \in call.goal
      PROVE  Comes(records, live, l, Rest, G)
  <2>1. /\ FileOK(records, live) /\ l = Read(records, live) /\ Levelled(records, live)
        /\ todo \in Seq(TaskType) /\ todo # <<>> /\ Task = todo[1] /\ Rest = Tail(todo)
        /\ Comes(records, live, l, todo, G)
    BY <1>1, <1>6, RemovingFacts
  <2>2. Plain(todo) \/ Starry(todo, l)
    BY <1>1, BusyFacts DEF RInv
  <2>3. k \in Levels /\ i \in DOMAIN l[k]
    <3>1. Task \in RemoveTask
      BY <1>1, BusyFacts DEF RInv
    <3> QED BY <3>1, <1>1 DEF RemoveTask, BadIndex, List
  <2>4. UsersAt(records, live, l[k][i].off) = IF k = 4 THEN {} ELSE OffsOf(l, k + 1, UsersIn(l, k, i))
    BY ONLY <2>1, <2>3, ReadUsers
  <2>5. k # 4 /\ UsersIn(l, k, i) = TaskUsers
    BY <1>1 DEF TaskUsers, Users, UsersIn
  <2>6. UsersAt(records, live, l[k][i].off) # {}
    BY ONLY <2>4, <2>5, <1>1 DEF OffsOf
  <2>7. UsersAt(records, live, Target(l, todo[1])) # {}
    BY <2>1, <2>6 DEF Target
  <2>8. todo[1].cmd \notin Starred
    BY <1>1, <2>1
  <2> HIDE DEF todo, l
  <2> QED BY ONLY <2>1, <2>2, <2>7, <2>8, UsedKept
<1>7. VS = call.vs
  BY DEF VS
<1>8. Exact'
  BY <1>1, <1>3, <1>4, <1>6, <1>7 DEF Exact
<1> QED BY <1>5, <1>8

LEMMA RemoveUsersExact ==
  ASSUME RInv, RemoveUsers PROVE CellsOnce' /\ Exact'
<1> PICK todo : todo = call.todo
  OBVIOUS
<1> PICK l : l = VS.list
  OBVIOUS
<1> PICK k : k = todo[1].lev
  OBVIOUS
<1> PICK i : i = todo[1].idx
  OBVIOUS
<1> PICK U : U = TaskUsers
  OBVIOUS
<1> PICK t : t = Expanded(todo, U)
  OBVIOUS
<1>1. /\ Busy /\ Task.do = "remove" /\ Task.cmd \in Starred /\ ~BadIndex /\ TaskUsers # {}
      /\ records' = records /\ live' = live /\ clean' = clean
      /\ call' = [call EXCEPT !.todo = UsersFirst \o Rest]
  BY DEF RemoveUsers, Removing, file
<1>2. /\ ~Idle /\ call \in CallType /\ VS = call.vs /\ VS \in VSType
      /\ todo \in Seq(TaskType) /\ todo # <<>> /\ Task = todo[1] /\ Rest = Tail(todo)
      /\ Task \in RemoveTask /\ (Plain(todo) \/ Starry(todo, l))
  BY <1>1, BusyFacts DEF RInv
<1>3. Starry(todo, l)
  <2>1. 1 \in DOMAIN todo
    BY ONLY <1>2, RestFacts
  <2>2. ~Plain(todo)
    BY ONLY <2>1, <1>1, <1>2 DEF Plain
  <2> QED BY ONLY <2>2, <1>2
<1>4. i \in DOMAIN l[k]
  BY <1>1, <1>2 DEF BadIndex, List
<1>5. k # 4 /\ k \in Levels
  <2>1. k # 4
    BY <1>1, <1>2 DEF TaskUsers, Users
  <2> QED BY <2>1, <1>2 DEF RemoveTask
<1>6. UsersIn(l, k, i) = U
  BY <1>2, <1>5 DEF TaskUsers, Users, UsersIn
<1> PICK n : n = Len(l[k + 1])
  OBVIOUS
<1>7. n \in Nat /\ DOMAIN l[k + 1] = 1..n /\ U \in SUBSET (1..n)
  <2>1. k + 1 \in Levels
    BY <1>5 DEF Levels
  <2>2. l[k + 1] \in Seq(Entry)
    BY <2>1, <1>2 DEF VSType
  <2>3. n \in Nat /\ DOMAIN l[k + 1] = 1..n
    BY ONLY <2>2, n = Len(l[k + 1])
  <2>4. U \subseteq DOMAIN l[k + 1]
    BY ONLY <1>5, <1>6 DEF UsersIn
  <2> QED BY ONLY <2>3, <2>4
<1>8. t = UsersFirst \o Rest
  BY <1>2 DEF UsersFirst, Expanded
<1>9. Starry(t, l)
  <2>1. todo[1].lev # 4 /\ todo[1].idx \in DOMAIN l[todo[1].lev]
    BY ONLY <1>4, <1>5, k = todo[1].lev, i = todo[1].idx
  <2>2. UsersIn(l, todo[1].lev, todo[1].idx) \subseteq U
    BY ONLY <1>6, k = todo[1].lev, i = todo[1].idx
  <2> QED BY ONLY <1>2, <1>3, <1>7, <2>1, <2>2, t = Expanded(todo, U), ExpandStarry
<1>10. /\ call'.todo = t /\ call'.vs = call.vs /\ call'.goal = call.goal
       /\ call'.exact = call.exact /\ call'.raised = call.raised
  <2>1. LET f == [call EXCEPT !.todo = t]
        IN  /\ f.todo = t /\ f.vs = call.vs /\ f.goal = call.goal
            /\ f.exact = call.exact /\ f.raised = call.raised
    BY ONLY <1>2 DEF CallType
  <2> QED BY ONLY <2>1, <1>1, <1>8
<1>11. CellsOnce'
  <2>1. OnceIn(t)
    BY ONLY <1>9, OnceNone
  <2> QED BY <2>1, <1>1, <1>10 DEF RInv, CellsOnce
<1>12. ASSUME clean, call.exact, ~call.raised, NEW G \in call.goal
       PROVE  Comes(records, live, l, t, G)
  <2>1. /\ FileOK(records, live) /\ VS.list = Read(records, live)
        /\ Comes(records, live, VS.list, call.todo, G)
    BY <1>1, <1>12, RemovingFacts
  <2>2. l = Read(records, live) /\ Comes(records, live, l, todo, G) /\ U = UsersIn(l, k, i)
    BY ONLY <2>1, <1>6, todo = call.todo, l = VS.list
  <2>3. Comes(records, live, l, Expanded(todo, U), G)
    BY ONLY <2>1, <2>2, <1>2, <1>3, <1>4, <1>5, <1>7, k = todo[1].lev, i = todo[1].idx, UsersKept
  <2> QED BY ONLY <2>3, t = Expanded(todo, U)
<1>13. Exact'
  <2>1. ASSUME clean', ~Idle', call'.exact, ~call'.raised, NEW G \in call'.goal
        PROVE  Comes(records', live', call'.vs.list, call'.todo, G)
    <3>1. Comes(records, live, l, t, G)
      BY <2>1, <1>1, <1>10, <1>12
    <3>2. l = call'.vs.list
      BY ONLY <1>2, <1>10, l = VS.list
    <3> QED BY ONLY <3>1, <3>2, <1>1, <1>10
  <2> QED BY <2>1 DEF Exact
<1> QED BY <1>11, <1>13

LEMMA UnlinkExact ==
  ASSUME RInv, UnlinkRecord PROVE CellsOnce' /\ Exact'
<1> PICK todo : todo = call.todo
  OBVIOUS
<1> PICK l : l = VS.list
  OBVIOUS
<1> PICK k : k = Task.lev
  OBVIOUS
<1> PICK i : i = Task.idx
  OBVIOUS
<1> PICK o : o = l[k][i].off
  OBVIOUS
<1> PICK w : w = Drop(VS, k, i)
  OBVIOUS
<1> PICK b : b = PurgeBelow(Task.cmd, k, l[k][i].refs)
  OBVIOUS
<1>1. /\ records' = records
      /\ \/ /\ o \in live /\ live' = live \ {o} /\ clean' = (clean /\ call.exact)
            /\ call' = [call EXCEPT !.todo = b \o Rest, !.vs = w, !.err = FALSE]
         \/ /\ o \notin live /\ clean' = clean
            /\ call' = [call EXCEPT !.todo = Rest, !.err = TRUE, !.missed = TRUE]
  BY DEF UnlinkRecord, FileChanged, List
<1>2. /\ Busy /\ Task.do \in {"remove", "unlink"}
      /\ k \in Levels /\ i \in DOMAIN l[k]
      /\ l[k][i] \in Entry /\ Uses(k, l[k][i].refs)
      /\ Guarded(todo, l) => UsersIn(l, k, i) = {}
  BY UnlinkFacts DEF RInv
<1>3. /\ ~Idle /\ call \in CallType /\ VS = call.vs /\ VSOK(VS, records)
      /\ todo \in Seq(TaskType) /\ todo # <<>> /\ Task = todo[1] /\ Rest = Tail(todo)
      /\ Rest \in Seq(TaskType) /\ Task \in RemoveTask /\ (Plain(todo) \/ Starry(todo, l))
  BY <1>2, BusyFacts DEF RInv
<1>4. OnceIn(Rest)
  BY <1>2, TodoFacts
<1>5. b \in Seq(TaskType) /\ OnceIn(b)
  <2>1. l[k][i].refs \in Seq(Nat) /\ Task.cmd \in Commands
    BY ONLY <1>2, <1>3 DEF Entry, RemoveTask
  <2>2. b \in Seq(TaskType) /\ Plain(b)
    BY ONLY <2>1, <1>2, b = PurgeBelow(Task.cmd, k, l[k][i].refs), PurgePlain
  <2> QED BY ONLY <2>2, OnceNone
<1>6. CASE o \notin live
  <2>1. call' = [call EXCEPT !.todo = Rest, !.err = TRUE, !.missed = TRUE] /\ clean' = clean
    BY <1>1, <1>6
  <2>2. call'.todo = Rest /\ call'.exact = call.exact /\ call'.raised = call.raised
    BY ONLY <2>1, <1>3, NextCall
  <2>3. CellsOnce'
    BY <1>1, <1>4, <2>2 DEF RInv, CellsOnce
  <2>4. ~(clean /\ call.exact /\ ~call.raised)
    <3>1. SUFFICES ASSUME clean, call.exact, ~call.raised PROVE FALSE
      OBVIOUS
    <3>2. FileOK(records, live) /\ VS.list = Read(records, live)
      BY <3>1, <1>2, RemovingFacts
    <3>3. Read(records, live)[k][i].off \in live
      BY ONLY <3>2, <1>2, l = VS.list, ReadHas
    <3> QED BY ONLY <3>2, <3>3, <1>6, l = VS.list, o = l[k][i].off
  <2> QED BY <2>1, <2>2, <2>3, <2>4 DEF Exact
<1>7. CASE o \in live
  <2>1. /\ call' = [call EXCEPT !.todo = b \o Rest, !.vs = w, !.err = FALSE]
        /\ clean' = (clean /\ call.exact) /\ live' = live \ {o}
    BY <1>1, <1>7
  <2>2. /\ call'.todo = b \o Rest /\ call'.vs = w /\ call'.goal = call.goal
        /\ call'.exact = call.exact /\ call'.raised = call.raised
    <3>1. LET f == [call EXCEPT !.todo = b \o Rest, !.vs = w, !.err = FALSE]
          IN  /\ f.todo = b \o Rest /\ f.vs = w /\ f.goal = call.goal
              /\ f.exact = call.exact /\ f.raised = call.raised
      BY ONLY <1>3 DEF CallType
    <3> QED BY ONLY <3>1, <2>1
  <2>3. CellsOnce'
    <3>1. OnceIn(b \o Rest)
      BY ONLY <1>3, <1>4, <1>5, OnceConcat
    <3> QED BY <3>1, <1>1, <2>2 DEF RInv, CellsOnce
  <2>4. w.list = DropList(l, k, i)
    BY ONLY <1>2, <1>3, l = VS.list, w = Drop(VS, k, i), DropVS
  <2>5. ASSUME clean, call.exact, ~call.raised, NEW G \in call.goal
        PROVE  Comes(records, live \ {o}, w.list, b \o Rest, G)
    <3>1. /\ FileOK(records, live) /\ VS.list = Read(records, live)
          /\ \A p \in live : DefinedIn(records, live, p)
          /\ Guarded(call.todo, VS.list)
          /\ Comes(records, live, VS.list, call.todo, G)
      BY <1>2, <2>5, RemovingFacts
    <3>2. /\ l = Read(records, live) /\ Comes(records, live, l, todo, G)
          /\ UsersIn(l, k, i) = {} /\ k = todo[1].lev /\ i = todo[1].idx
          /\ b = PurgeBelow(todo[1].cmd, k, l[k][i].refs)
      BY ONLY <3>1, <1>2, <1>3, todo = call.todo, l = VS.list, k = Task.lev, i = Task.idx,
              b = PurgeBelow(Task.cmd, k, l[k][i].refs)
    <3>3. records[o].lev = 2 => IsInjective(records[o].refs)
      <4>1. records \in Seq(RecordType) /\ live \in SUBSET (1..Len(records))
        BY <3>1 DEF FileOK
      <4>2. o \in DOMAIN records
        BY ONLY <4>1, <1>7
      <4> QED BY <4>2 DEF RInv, CellsOnce
    <3>4. Comes(records, live \ {o}, DropList(l, k, i),
                PurgeBelow(todo[1].cmd, k, l[k][i].refs) \o Tail(todo), G)
      <4>1. /\ FileOK(records, live) /\ \A p \in live : DefinedIn(records, live, p)
            /\ todo \in Seq(TaskType) /\ todo # <<>> /\ (Plain(todo) \/ Starry(todo, l))
        BY ONLY <3>1, <1>3
      <4> QED BY ONLY <4>1, <3>2, <3>3, o = l[k][i].off, UnlinkKept
    <3> QED BY ONLY <3>2, <3>4, <2>4, <1>3
  <2>6. ASSUME clean', ~Idle', call'.exact, ~call'.raised, NEW G \in call'.goal
        PROVE  Comes(records', live', call'.vs.list, call'.todo, G)
    <3>1. Comes(records, live \ {o}, w.list, b \o Rest, G)
      BY <2>6, <2>1, <2>2, <2>5
    <3> QED BY ONLY <3>1, <2>1, <2>2, <1>1
  <2>7. Exact'
    BY <2>6 DEF Exact
  <2> QED BY <2>3, <2>7
<1> QED BY <1>6, <1>7

LEMMA InitExact == ElementsOnce /\ Init => RInv
<1>1. SUFFICES ASSUME ElementsOnce, Init PROVE RInv
  OBVIOUS
<1>2. Idle /\ records = Given
  BY <1>1 DEF Init, Idle
<1>3. CellsOnce /\ Exact
  BY <1>1, <1>2 DEF ElementsOnce, CellsOnce, Exact
<1> QED BY <1>1, <1>3, InitInv DEF RInv

LEMMA StepExact ==
  ASSUME ElementsOnce, RInv, [Next]_vars PROVE RInv'
<1>1. IInv /\ CellsOnce /\ IInv'
  BY StepInv DEF RInv
<1>2. CASE UNCHANGED vars
  <2>1. records' = records /\ live' = live /\ call' = call /\ clean' = clean
    BY <1>2 DEF vars
  <2>2. CellsOnce' /\ Exact'
    BY <2>1 DEF RInv, CellsOnce, Exact, Idle
  <2> QED BY <1>1, <2>2 DEF RInv
<1>3. ASSUME Next PROVE CellsOnce' /\ Exact'
  <2>1. CASE \E g \in Vars \cup {Nowhere} : Open(g)
    <3>1. records' = records /\ Idle'
      BY <2>1 DEF Open, Idle, file
    <3> QED BY <3>1, <1>1, IdleExact
  <2>2. CASE \E h \in Holders, g \in Vars \cup {Nowhere}, k \in Levels : \E n \in NamesAt[k] :
               \E refs \in Lists[k], fits \in BOOLEAN : CallCreate(h, g, k, n, refs, fits)
    BY <2>2, <1>1, CallCreateExact
  <2>3. CASE \E h \in Holders, g \in Vars \cup {Nowhere}, k \in Levels : \E n \in NamesAt[k] :
               \E cmd \in {"remove", "purge", "*remove", "*purge"} : CallRemove(h, g, cmd, k, n)
    BY <2>3, <1>1, CallRemoveExact DEF Commands
  <2>4. CASE \E h \in Holders, g \in Vars \cup {Nowhere} :
               \E n \in EasyNames, elms \in Lists[2], fits3, fits4 \in BOOLEAN :
                 CallEasy(h, g, n, elms, fits3, fits4)
    BY <2>4, <1>1, CallEasyExact
  <2>5. CASE CallStep
    <3>1. ASSUME NEW caught \in BOOLEAN, EndCall(caught) PROVE CellsOnce' /\ Exact'
      <4>1. records' = records /\ Idle'
        BY <3>1 DEF EndCall, Idle, file
      <4> QED BY <4>1, <1>1, IdleExact
    <3> QED BY <2>5, <3>1, CreateExistingExact, CreateRecordExact, RaisesExact, RemoveUsedExact,
               RemoveUsersExact, UnlinkExact DEF CallStep
  <2>6. CASE Crash
    <3>1. records' = records /\ Idle'
      BY <2>6 DEF Crash, Idle, file
    <3> QED BY <3>1, <1>1, IdleExact
  <2> QED BY ONLY <1>3, <2>1, <2>2, <2>3, <2>4, <2>5, <2>6 DEF Next
<1> QED BY <1>1, <1>2, <1>3 DEF RInv

\* A removal from a structure that is up to date and that runs to its end has removed exactly
\* what its command stands for, whatever the file, the command and the record: "remove" the
\* record if nothing uses it, "purge" also what it alone used, directly or not, and with a star
\* all that uses the record as well; unless a cell lists an element twice.
THEOREM RemovalsAreExact == ElementsOnce => (Spec => []RemovesExactly)
<1>1. ElementsOnce /\ Init => RInv
  BY InitExact
<1>2. ElementsOnce /\ RInv /\ [Next]_vars => RInv'
  BY StepExact
<1>3. RInv => RemovesExactly
  <2>1. SUFFICES ASSUME RInv, clean, ~Idle, call.todo = <<>>, call.exact, ~call.raised,
                        NEW left \in call.goal
                 PROVE  live = left
    BY DEF RemovesExactly
  <2>2. Comes(records, live, call.vs.list, <<>>, left)
    BY <2>1 DEF RInv, Exact
  <2> QED BY <2>2, ComesTo
<1>4. ASSUME ElementsOnce PROVE Spec => []RemovesExactly
  <2>1. Init => RInv
    BY <1>1, <1>4
  <2>2. RInv /\ [Next]_vars => RInv'
    BY <1>2, <1>4
  <2> QED BY <2>1, <2>2, <1>3, PTL DEF Spec
<1> QED BY <1>4
==============================================================================
