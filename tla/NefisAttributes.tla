--------------------------- MODULE NefisAttributes ---------------------------
(***************************************************************************)
(* The attributes of a data group: vs_put(VS, Group, [], Name, Value, ...) *)
(* sets them in the structure and then writes the six fields that hold     *)
(* them - names and values of integers, reals and strings - one behind the *)
(* other into the header of the group, in front of its data.               *)
(*                                                                         *)
(* The file is followed from the first of these fields on, a name or value *)
(* being one word of it.  The fields are written in one go, which the C    *)
(* library does when the file is closed.                                   *)
(***************************************************************************)
EXTENDS Integers, Sequences, FiniteSets, FiniteSetsExt, SequencesExt

CONSTANTS Slots,    \* attributes of a kind (5 in the code)
          Ints, Reals, Strings,  \* values
          Empty,    \* the value [] that deletes an attribute
          Invalid,  \* a value that is no scalar
          Blank, Zero,   \* the words of an unused name and of an unused number
          Lists,    \* the lists of <<name, value>> given to a call
          Behind,   \* the words behind the header: data of the group
          Vars,     \* the user's variables
          Keep,     \* the lastread structure of vs_use
          Nowhere   \* a call of which the user does not take the result

ASSUME SlotsAssumption  == Slots \in Nat \ {0}
ASSUME HolderAssumption == Keep \notin Vars /\ Nowhere \notin Vars \cup {Keep}

Holders == Vars \cup {Keep}
Kinds   == {"int", "real", "str"}
Names   == UNION {{pair[1] : pair \in Range(list)} : list \in Lists}
Values  == Ints \cup Reals \cup Strings \cup {Empty, Invalid}

\* A call without attributes does nothing, a blank name is refused.
ASSUME ListsAssumption  == Lists \subseteq Seq(Names \X Values) \ {<<>>} /\ Blank \notin Names
ASSUME BehindAssumption == Behind \in Seq(Range(Behind))

VARIABLES
  file,   \* the words of the file
  mem,    \* mem[h]: the attributes in the structure of holder h, or Closed
  \* history, which no step of the code depends on
  want,   \* what the calls that succeeded have asked for
  fresh   \* the holders whose structure is up to date

vars == <<file, mem, want, fresh>>

Closed == <<>>

------------------------------------------------------------------------------
(* val[k] holds the values of kind k in storage order: those of the numbers *)
(* are a matrix of Slots columns, which has one row when it has been read.  *)

Field(f, j) == SubSeq(f, (j - 1) * Slots + 1, j * Slots)

\* vs_use.
Read(f) == [name |-> [int |-> Field(f, 1), real |-> Field(f, 3), str |-> Field(f, 5)],
            val  |-> [int |-> Field(f, 2), real |-> Field(f, 4), str |-> Field(f, 6)]]

\* (slip) Slots are counted from zero.
SetNextRow(m, r, v) ==
  LET old  == Len(m) \div Slots
      rows == Max({old, r + 1})
  IN  [i \in 1..(rows * Slots) |->
         LET row == ((i - 1) % rows) + 1
             col == (i - 1) \div rows
         IN  IF row = r + 1 THEN v ELSE IF row <= old THEN m[col * old + row] ELSE Zero]

\* IAValue(r,:) = v: all of row r is set; the matrix grows to have that row.
SetRow(m, r, v) ==
  LET old  == Len(m) \div Slots
      rows == Max({old, r})
  IN  [i \in 1..(rows * Slots) |->
         LET row == ((i - 1) % rows) + 1
             col == (i - 1) \div rows
         IN  IF row = r THEN v ELSE IF row <= old THEN m[col * old + row] ELSE Zero]

Set(vs, k, i, v) ==
  IF k = "str" THEN [vs EXCEPT !.val.str[i] = v]
               ELSE [vs EXCEPT !.val[k] = SetRow(@, i, v)]

KindOf(v) == IF v \in Strings THEN "str" ELSE IF v \in Reals THEN "real" ELSE "int"

\* (slip) An attribute is looked for among those of the kind of the value.
WhereKind(vs, n, v) ==
  {s \in Kinds \X (1..Slots) : s[1] = KindOf(v) /\ vs.name[s[1]][s[2]] = n}

\* The slots that have name n, whatever the value v is.
Where(vs, n, v) == {s \in Kinds \X (1..Slots) : vs.name[s[1]][s[2]] = n}

Unused(vs, k) == {i \in 1..Slots : vs.name[k][i] = Blank}

\* (slip) A deleted attribute keeps its name.
EraseValue(vs, k, i) == [vs EXCEPT !.val[k][i] = IF k = "str" THEN Blank ELSE Zero]

Erase(vs, k, i) ==
  [vs EXCEPT !.name[k][i] = Blank, !.val[k][i] = IF k = "str" THEN Blank ELSE Zero]

Refusal == [ok |-> FALSE]
Done(vs) == [ok |-> TRUE, vs |-> vs]

\* A value for an attribute that exists.  A whole number may go to a real.
Assign(vs, k, i, v) ==
  IF v = Empty THEN Done(Erase(vs, k, i))
  ELSE IF v = Invalid THEN Refusal
  ELSE IF k = KindOf(v) \/ (k = "real" /\ v \in Ints) THEN Done(Set(vs, k, i, v))
  ELSE Refusal

\* A new attribute goes to the first unused slot of its kind.
Create(vs, n, v) ==
  IF v \in {Empty, Invalid} \/ Unused(vs, KindOf(v)) = {} THEN Refusal
  ELSE LET k == KindOf(v)
           i == Min(Unused(vs, k))
       IN  Done(Set([vs EXCEPT !.name[k][i] = n], k, i, v))

\* What the code makes of a name that stands in several slots depends on the value (an
\* error, or all are set).  None does (NamesApart), and a refusal stands for it.
Change(sofar, pair) ==
  IF ~sofar.ok THEN Refusal
  ELSE LET w == Where(sofar.vs, pair[1], pair[2])
           s == CHOOSE x \in w : TRUE
       IN  IF w = {} THEN Create(sofar.vs, pair[1], pair[2])
           ELSE IF Cardinality(w) > 1 THEN Refusal
           ELSE Assign(sofar.vs, s[1], s[2], pair[2])

Changed(vs, list) ==
  LET upTo[n \in 0..Len(list)] == IF n = 0 THEN Done(vs) ELSE Change(upTo[n - 1], list[n])
  IN  upTo[Len(list)]

\* The fields as they are written.
Image(vs) == vs.name.int \o vs.val.int \o vs.name.real \o vs.val.real
             \o vs.name.str \o vs.val.str

Overwrite(f, w) ==
  [i \in 1..Max({Len(f), Len(w)}) |-> IF i <= Len(w) THEN w[i] ELSE f[i]]

------------------------------------------------------------------------------
(* What a call should come to: attributes are a set of <<name, kind, value>>. *)

InUse(vs)   == {s \in Kinds \X (1..Slots) : vs.name[s[1]][s[2]] # Blank}
Meaning(vs) == {<<vs.name[s[1]][s[2]], s[1], vs.val[s[1]][s[2]]>> : s \in InUse(vs)}

Applied(attrs, pair) ==
  LET old  == {a \in attrs : a[1] = pair[1]}
      kind == IF old = {} THEN KindOf(pair[2]) ELSE (CHOOSE a \in old : TRUE)[2]
  IN  (attrs \ old) \cup IF pair[2] = Empty THEN {} ELSE {<<pair[1], kind, pair[2]>>}

Asked(attrs, list) ==
  LET upTo[n \in 0..Len(list)] == IF n = 0 THEN attrs ELSE Applied(upTo[n - 1], list[n])
  IN  upTo[Len(list)]

------------------------------------------------------------------------------
\* A group that vs_def has created.
Init ==
  /\ LET names == [i \in 1..Slots |-> Blank]
         zeros == [i \in 1..Slots |-> Zero]
     IN  file = names \o zeros \o names \o zeros \o names \o names \o Behind
  /\ mem = [h \in Holders |-> Closed]
  /\ want = {}
  /\ fresh = {}

Open(g) ==
  /\ mem' = [h \in Holders |-> IF h \in {g, Keep} THEN Read(file) ELSE mem[h]]
  /\ fresh' = fresh \cup ({g, Keep} \ {Nowhere})
  /\ UNCHANGED <<file, want>>

\* The attributes are changed in the structure, which is then written.
Put(h, g, list) ==
  /\ mem[h] # Closed
  /\ LET r  == Changed(mem[h], list)
         to == ({g} \ {Nowhere}) \cup ({h} \cap {Keep})
     IN  /\ r.ok
         /\ file' = Overwrite(file, Image(r.vs))
         /\ mem' = [x \in Holders |-> IF x \in to THEN r.vs ELSE mem[x]]
         /\ fresh' = to
  /\ want' = Asked(Meaning(mem[h]), list)

\* The call is refused, or the file cannot be opened: nothing is written and
\* the structure it was given is returned, if the message is asked for.
PutRefused(h, g, list) ==
  /\ mem[h] # Closed
  /\ mem' = [x \in Holders |-> IF x = g THEN mem[h] ELSE mem[x]]
  /\ fresh' = IF h \in fresh THEN fresh \cup ({g} \ {Nowhere}) ELSE fresh \ {g}
  /\ UNCHANGED <<file, want>>

Next ==
  \E g \in Vars \cup {Nowhere} :
     \/ Open(g)
     \/ \E h \in Holders, list \in Lists : Put(h, g, list) \/ PutRefused(h, g, list)

Spec == Init /\ [][Next]_vars

------------------------------------------------------------------------------
(* Properties.                                                             *)

\* Types; the file has kept its length.
TypeOK ==
  /\ file \in Seq(Ints \cup Reals \cup Strings \cup {Blank, Zero} \cup Names \cup Range(Behind))
  /\ Len(file) = 6 * Slots + Len(Behind)
  /\ \A h \in Holders : mem[h] # Closed =>
       \A k \in Kinds : Len(mem[h].name[k]) = Slots
  /\ fresh \subseteq {h \in Holders : mem[h] # Closed}

\* The attributes on file are those that the last successful call found in its
\* structure, with all of its changes made: setting, replacing and deleting
\* one leaves the others, of whatever kind, alone.  A structure that the last
\* call returned, or that was read since, is what reading the file would give.
MeansWhatWasAsked ==
  /\ Meaning(Read(file)) = want
  /\ \A h \in fresh : mem[h] = Read(file)

\* No attribute name stands in two slots, be they of different kinds.
NamesApart ==
  LET vs == Read(file)
  IN  \A s, t \in InUse(vs) : vs.name[s[1]][s[2]] = vs.name[t[1]][t[2]] => s = t

\* Writing attributes never changes what stands behind them.
DataKept == SubSeq(file, 6 * Slots + 1, Len(file)) = Behind
==============================================================================
