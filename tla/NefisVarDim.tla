----------------------------- MODULE NefisVarDim -----------------------------
(***************************************************************************)
(* A data group with a variable dimension: vs_def.m gives it four chained  *)
(* pointer tables, vs_put.m adds records under ever larger indices, growing *)
(* the tree of tables where it has to, vs_use.m finds the dimension by     *)
(* walking the tree and vs_let.m reads through it.                         *)
(*                                                                         *)
(* An index is written in base Radix (256 in the code); its digits, from   *)
(* the fourth to the first, select a pointer in a table of that level.     *)
(* vs_put keeps the last table of each level in memory, works from these   *)
(* copies and writes a copy back whole.  Every write to the file is a step *)
(* of its own, and a call may end after any of them: in an error, with     *)
(* which the structures in memory stay as they were, or in the death of    *)
(* the session.                                                            *)
(***************************************************************************)
EXTENDS Integers, Sequences, FiniteSets, FiniteSetsExt

CONSTANTS Radix,      \* pointers in a table
          Indices,    \* the indices of the variable dimension that are written
          Batches,    \* the sets of indices given to one call
          Data,       \* the data given to a call: Data[k][i] goes under index i
          Handles,    \* the variables that hold a VS structure
          Nowhere,    \* a call of which the user does not take the result
          MaxBlocks,  \* bound on the blocks of the file
          MaxPuts     \* bound on the calls

ASSUME RadixAssumption == Radix \in Nat \ {0, 1}
ASSUME IndexAssumption ==
  /\ Indices \subseteq 1..(Radix * Radix * Radix * Radix - 1)
  /\ \A B \in Batches : B \subseteq Indices /\ B # {}
ASSUME HandleAssumption == Nowhere \notin Handles
ASSUME DataAssumption == \A d \in DOMAIN Data : Data[d] \in [Indices -> Int]
ASSUME BoundAssumption == MaxBlocks \in Nat /\ MaxBlocks >= 4 /\ MaxPuts \in Nat

Nil    == 0          \* all ones in the file
Slots  == 0..(Radix - 1)
Byte   == 1..4       \* the levels of the tables; 4 is the root
Closed == -1         \* no structure
None   == -1         \* no digit: the copy in memory has to be read

VARIABLES
  blocks,   \* the file from the root table on: tables and records
  dim,      \* dim[h]: SizeDim in the structure of handle h, or Closed
  call,     \* the vs_put call in progress
  puts,     \* the calls so far
  \* history, which no step of the code depends on
  written,  \* written[i]: the data last written under index i, 0 for zeros
  torn      \* a call ended between the linking of a table and its first use

vars == <<blocks, dim, call, puts, written, torn>>

NoCall == [stage |-> "idle"]
Idle   == call = NoCall

EmptyTable == [s \in Slots |-> Nil]
Table(t)   == [kind |-> "table", at |-> t]
Record(v)  == [kind |-> "record", val |-> v]
At(a)      == blocks[a].at

Power(n) == IF n = 0 THEN 1 ELSE IF n = 1 THEN Radix
            ELSE IF n = 2 THEN Radix * Radix ELSE Radix * Radix * Radix

\* VDByte: the digit of index i that selects in a table of level bt.
Digit(i, bt) == (i \div Power(bt - 1)) % Radix

\* The pointers of the table at a that are set.
Used(a) == {s \in Slots : At(a)[s] # Nil}

\* (slip) The first pointer that is set is followed.
FirstUsed(a) == Min(Used(a))

LastUsed(a) == Max(Used(a))

\* vs_use: what the table at a adds to the dimension, its pointers being Power(n)
\* indices apart, and the table the scan goes on in.  Where no pointer is set,
\* or no table is left, it stops.
Stops(a)   == a = Nil \/ Used(a) = {}
Part(a, n) == IF Stops(a) THEN 0 ELSE LastUsed(a) * Power(n)
Follow(a)  == IF Stops(a) THEN Nil ELSE At(a)[LastUsed(a)]

Scan ==
  LET table3 == Follow(1)
      table2 == Follow(table3)
      table1 == Follow(table2)
  IN  Part(1, 3) + Part(table3, 2) + Part(table2, 1) + Part(table1, 0)

------------------------------------------------------------------------------
\* vs_def: four tables, each the first that the one before points to.
Init ==
  /\ blocks = <<Table([EmptyTable EXCEPT ![0] = 2]), Table([EmptyTable EXCEPT ![0] = 3]),
                Table([EmptyTable EXCEPT ![0] = 4]), Table(EmptyTable)>>
  /\ dim = [h \in Handles |-> Closed]
  /\ call = NoCall
  /\ puts = 0
  /\ written = [i \in {} |-> 0]
  /\ torn = FALSE

\* vs_use.
Open(h) ==
  /\ Idle
  /\ dim' = [dim EXCEPT ![h] = Scan]
  /\ UNCHANGED <<blocks, call, puts, written, torn>>

\* vs_put(VS, Group, {B}, Element, Data[d]): B is sorted and has no duplicates, so that
\* the least index comes first; the root table is read.
Begin(h, B, d) ==
  /\ Idle
  /\ dim[h] # Closed
  /\ puts < MaxPuts
  /\ puts' = puts + 1
  /\ call' = [stage |-> "locate", todo |-> B, all |-> B, data |-> d,
              from |-> h, exact |-> dim[h] = Scan, update |-> FALSE, bt |-> 4, dest |-> Nil,
              last |-> [b \in Byte |-> None],
              off  |-> [b \in Byte |-> IF b = 4 THEN 1 ELSE Nil],
              tab  |-> [b \in Byte |-> IF b = 4 THEN At(1) ELSE EmptyTable]]
  /\ UNCHANGED <<blocks, dim, written, torn>>

Index == Min(call.todo)
D(bt) == Digit(Index, bt)

\* Digit d of level bt is the last one looked up, and the digit below it is
\* no longer valid.
Moved(last, bt, d) == [last EXCEPT ![bt] = d, ![bt - 1] = None]

\* (slip) A change of digit does not make the copies below it invalid.
ReloadOne(c, bt) ==
  IF c.last[bt] = D(bt) THEN c
  ELSE LET a == c.tab[bt][D(bt)] IN
         [c EXCEPT !.off[bt - 1] = a,
                   !.tab[bt - 1] = IF a = Nil THEN EmptyTable ELSE At(a),
                   !.last[bt] = D(bt)]

\* Where the digit of level bt is not that of the last index, the table below
\* is read, or replaced by an empty one, and what is below that is invalid.
Reload(c, bt) ==
  IF c.last[bt] = D(bt) THEN c
  ELSE LET a == c.tab[bt][D(bt)] IN
         [c EXCEPT !.off[bt - 1] = a,
                   !.tab[bt - 1] = IF a = Nil THEN EmptyTable ELSE At(a),
                   !.last = Moved(@, bt, D(bt))]

\* The copies are brought up to date for the next index.  If its pointer is
\* not set there, the pointers are checked again.
Locate ==
  /\ call.stage = "locate"
  /\ call.todo # {}
  /\ LET c == Reload(Reload(Reload(call, 4), 3), 2)
         a == c.tab[1][D(1)]
     IN  call' = IF a = Nil THEN [c EXCEPT !.stage = "recheck", !.bt = 4]
                 ELSE [c EXCEPT !.stage = "write", !.dest = a]
  /\ UNCHANGED <<blocks, dim, puts, written, torn>>

\* (slip) The position is taken after the block has been written.
PastEnd == Len(blocks) + 2

\* Where a block goes that is added to the file.
EndOfFile == Len(blocks) + 1

\* One level further down, or all tables are there.
Down(c) == IF c.bt = 2 THEN [c EXCEPT !.stage = "point"]
           ELSE [c EXCEPT !.stage = "recheck", !.bt = @ - 1]

\* The table is there: it is read again.
RecheckTable ==
  /\ call.stage = "recheck"
  /\ LET a == call.tab[call.bt][D(call.bt)] IN
       /\ a # Nil
       /\ call' = Down([call EXCEPT !.off[call.bt - 1] = a, !.tab[call.bt - 1] = At(a)])
  /\ UNCHANGED <<blocks, dim, puts, written, torn>>

\* It is not: an empty table goes to the end of the file ...
AppendTable ==
  /\ call.stage = "recheck"
  /\ call.tab[call.bt][D(call.bt)] = Nil
  /\ Len(blocks) < MaxBlocks
  /\ LET a == EndOfFile IN
       /\ blocks' = Append(blocks, Table(EmptyTable))
       /\ call' = [call EXCEPT !.stage = "link", !.off[call.bt - 1] = a,
                               !.tab[call.bt] = [@ EXCEPT ![D(call.bt)] = a]]
  /\ UNCHANGED <<dim, puts, written, torn>>

\* The copy of a table is written back whole.
WriteBack(bt) == blocks' = [blocks EXCEPT ![call.off[bt]] = Table(call.tab[bt])]

\* ... and then the table above it is written with the pointer to it.
LinkTable ==
  /\ call.stage = "link"
  /\ WriteBack(call.bt)
  /\ call' = Down(call)
  /\ UNCHANGED <<dim, puts, written, torn>>

\* Space for the record is added at the end of the file.  The branch for a
\* pointer that is set after all ("Miraculously we have found the requested
\* pointer!") is never reached, which is part of TypeOK.
AppendRecord ==
  /\ call.stage = "point"
  /\ call.tab[1][D(1)] = Nil
  /\ Len(blocks) < MaxBlocks
  /\ LET a == EndOfFile IN
       /\ blocks' = Append(blocks, Record(0))
       /\ call' = [call EXCEPT !.stage = "linkrecord", !.dest = a,
                               !.tab[1] = [@ EXCEPT ![D(1)] = a]]
  /\ UNCHANGED <<dim, puts, written, torn>>

\* (slip) That the dimension has grown is not remembered.
UpdateNever == FALSE

VarDimUpdate == TRUE

\* The pointer to it is written.
LinkRecord ==
  /\ call.stage = "linkrecord"
  /\ WriteBack(1)
  /\ call' = [call EXCEPT !.stage = "write", !.update = VarDimUpdate]
  /\ written' = [i \in DOMAIN written \cup {Index} |-> IF i = Index THEN 0 ELSE written[i]]
  /\ UNCHANGED <<dim, puts, torn>>

WriteData ==
  /\ call.stage = "write"
  /\ blocks' = [blocks EXCEPT ![call.dest] = Record(Data[call.data][Index])]
  /\ written' = [written EXCEPT ![Index] = Data[call.data][Index]]
  /\ call' = [call EXCEPT !.stage = "locate", !.todo = @ \ {Index}]
  /\ UNCHANGED <<dim, puts, torn>>

\* SizeDim in the structure the call returns.
NewDim == IF call.update THEN Max({Max(call.all), dim[call.from]}) ELSE dim[call.from]

AllWritten == call.stage = "locate" /\ call.todo = {}

End(g) ==
  /\ AllWritten
  /\ dim' = [h \in Handles |-> IF h = g THEN NewDim ELSE dim[h]]
  /\ call' = NoCall
  /\ UNCHANGED <<blocks, puts, written, torn>>

\* The tables that are linked but lead to no record, other than the first four.
Tables == {a \in DOMAIN blocks : blocks[a].kind = "table"}
Hollow == {a \in Tables : /\ a > 4 /\ At(a) = EmptyTable
                          /\ \E b \in Tables, s \in Slots : At(b)[s] = a}

\* An error ends the call: the structures stay as they are.
Fail ==
  /\ ~Idle
  /\ torn' = (torn \/ Hollow # {})
  /\ call' = NoCall
  /\ UNCHANGED <<blocks, dim, puts, written>>

\* The session is killed.
Crash ==
  /\ \E h \in Handles : dim[h] # Closed
  /\ torn' = (torn \/ Hollow # {})
  /\ dim' = [h \in Handles |-> Closed]
  /\ call' = NoCall
  /\ UNCHANGED <<blocks, puts, written>>

PutStep == \/ Locate \/ RecheckTable \/ AppendTable \/ LinkTable
           \/ AppendRecord \/ LinkRecord \/ WriteData
           \/ \E g \in Handles \cup {Nowhere} : End(g)

Next ==
  \/ \E h \in Handles : Open(h)
  \/ \E h \in Handles, B \in Batches, d \in DOMAIN Data : Begin(h, B, d)
  \/ PutStep
  \/ Fail
  \/ Crash

Spec == Init /\ [][Next]_vars

------------------------------------------------------------------------------
(* vs_let: reading the records of a list of indices.                       *)

Junk == [s \in Slots |-> -1]   \* what is in the file where no table begins
Unknown == 0                   \* a position inside a record

\* What is read where a file position is, and the position after that.
TableAt(a) == IF a \in Tables THEN At(a) ELSE Junk
After(a)   == IF a \in Tables THEN a + 1 ELSE Unknown

\* (slip) A change of digit does not make the tables below it invalid.
FetchOne(c, i, bt) ==
  IF c.last[bt] = Digit(i, bt) THEN c
  ELSE LET a == c.tab[bt][Digit(i, bt)] IN
         [c EXCEPT !.tab[bt - 1] = TableAt(a), !.last[bt] = Digit(i, bt)]

\* The table below level bt is read where the pointer leads.  If the pointer is
\* not set, moving there fails and the file is read on from where it is.
Fetch(c, i, bt) ==
  IF c.last[bt] = Digit(i, bt) THEN c
  ELSE LET p  == c.tab[bt][Digit(i, bt)]
           at == IF p = Nil THEN c.pos ELSE p
       IN  [c EXCEPT !.tab[bt - 1] = TableAt(at), !.pos = After(at),
                     !.last = Moved(@, bt, Digit(i, bt))]

\* One record: zero if its pointer is not set.
ReadNext(c, i) ==
  LET f == Fetch(Fetch(Fetch(c, i, 4), i, 3), i, 2)
      p == f.tab[1][Digit(i, 1)]
  IN  [f EXCEPT !.got = Append(@, IF p = Nil THEN 0
                                  ELSE IF p \in DOMAIN blocks \ Tables THEN blocks[p].val
                                  ELSE -1),
                !.pos = IF p = Nil THEN @ ELSE Unknown]

\* Before the first record: only the root table has been read.
Start == [last |-> [b \in Byte |-> None], pos |-> 2, got |-> <<>>,
          tab |-> [b \in Byte |-> IF b = 4 THEN At(1) ELSE Junk]]

------------------------------------------------------------------------------
(* Properties.                                                             *)

\* The pointer of index i in the table of level bt at a; from level to level it
\* leads to the record.
Below(a, i, bt) == IF a = Nil THEN Nil ELSE At(a)[Digit(i, bt)]
RecordOf(i)     == Below(Below(Below(Below(1, i, 4), i, 3), i, 2), i, 1)

Pointers == {p \in Tables \X Slots : At(p[1])[p[2]] # Nil}

\* Pointers lead into the file, and a call that is to set one finds it not set:
\* otherwise it would give up a record for a new one.
TypeOK ==
  /\ \A p \in Pointers : At(p[1])[p[2]] \in 2..Len(blocks)
  /\ Len(blocks) <= MaxBlocks
  /\ dim \in [Handles -> Nat \cup {Closed}]
  /\ call # NoCall /\ call.stage = "point" => call.tab[1][D(1)] = Nil
  /\ ~Idle => call.stage \in {"locate", "recheck", "link", "point", "linkrecord", "write"}
  /\ DOMAIN written \subseteq Indices

\* The tables form a tree: no table and no record is pointed to twice, however
\* calls were cut short; two indices never share a record.
PointersApart ==
  \A p, q \in Pointers : At(p[1])[p[2]] = At(q[1])[q[2]] => p = q

\* What was written under an index is what its pointers lead to, and the
\* pointers of all other indices are not set.
WrittenIsFound ==
  \A i \in Indices :
    IF i \in DOMAIN written
    THEN RecordOf(i) # Nil /\ blocks[RecordOf(i)] = Record(written[i])
    ELSE RecordOf(i) = Nil

\* The scan never finds fewer indices than were written, and no more unless a
\* call was cut short between the linking of a table and the pointer to its
\* first record.
ScanExact ==
  LET largest == Max(DOMAIN written \cup {0})
  IN  largest <= Scan /\ (Idle /\ ~torn => Scan = largest)

\* A call from a structure with the right dimension returns one: it agrees
\* with what reading the file again would find.
NewDimExact == AllWritten /\ call.exact => NewDim = Scan

\* vs_let finds what was written under any two indices that were: the tables
\* it keeps from the first do not spoil the second.
ReadsBack ==
  Idle => \A i, j \in DOMAIN written :
            i < j => ReadNext(ReadNext(Start, i), j).got = <<written[i], written[j]>>

\* It returns zeros for an index inside the dimension that was not written.
ReadsZeros ==
  Idle /\ ~torn => \A i \in (1..Scan) \ DOMAIN written : ReadNext(Start, i).got = <<0>>
==============================================================================
