-------------------------------- MODULE Dbf --------------------------------
(***************************************************************************)
(* Attribute tables (shapelib.c, DBF...): a table in a .dbf file, of which *)
(* a handle keeps one record in a buffer.                                  *)
(*                                                                         *)
(* Records are numbered from 1, and 0 is the value -1 that nCurrentRecord  *)
(* has when no record is in the buffer.                                    *)
(*                                                                         *)
(* Only the first digits of a value fit a field, so numbers and texts are  *)
(* both given by their digits: [k |-> "val", v |-> 12] is "12".            *)
(***************************************************************************)
EXTENDS Integers, Sequences, Stdio

CONSTANTS
  Fields,       \* the fields that are added: records [kind, w] of a kind and a width
  Values,       \* the values that are written
  MaxFields,
  MaxRows,
  MaxWrites,    \* bound on the writes of one table
  NoRow         \* a place beyond the end of the file

ASSUME BoundsAssumption == MaxRows \in Nat \ {0} /\ MaxFields \in Nat /\ MaxWrites \in Nat
ASSUME ValuesAssumption == Values \subseteq Nat
ASSUME FieldsAssumption == Fields \subseteq [kind : {"N", "C", "L"}, w : Nat \ {0}]

Rows    == 1 .. MaxRows
Blank   == [k |-> "blank", v |-> 0]
Null    == [k |-> "null", v |-> 0]
Val(v)  == [k |-> "val", v |-> v]

VARIABLES
  tab,        \* [now, safe], each [made, hdr, fields, count, rows]
  d,          \* the handle, DBFInfo
  dphase,     \* "none", "open", "closed" or "killed"
  rowsTold,   \* the number of rows that the table was given
  told,       \* what each row was told to hold, field by field
  rowDrafts,  \* all that each row was told to hold since the last DBFClose
  writes

dbfVars == <<tab, d, dphase, rowsTold, told, rowDrafts, writes>>

NoRows      == [r \in Rows |-> NoRow]
NoDrafts    == [r \in Rows |-> {}]
BlankRow(f) == [i \in DOMAIN f |-> Blank]

----------------------------------------------------------------------------
(* The content of the file.                                                *)

WriteHeaderTo(t, h) == [t EXCEPT !.hdr = TRUE, !.fields = h.fields, !.count = 0]
WriteRow(t, r, row) == [t EXCEPT !.rows[r] = row]

----------------------------------------------------------------------------
(* The operations, on [t, h]: the file and the handle.                     *)

DBFWriteHeader(s) ==
  IF s.h.noHeader THEN [t |-> Put(s.t, WriteHeaderTo(s.t.now, s.h)), h |-> [s.h EXCEPT !.noHeader = FALSE]]
  ELSE s

DBFFlushRecord(s) ==
  IF s.h.modified /\ s.h.cur > 0
  THEN [t |-> Put(s.t, WriteRow(s.t.now, s.h.cur, s.h.buf)), h |-> [s.h EXCEPT !.modified = FALSE]]
  ELSE s

FetchRow(s, r) == [t |-> Sync(s.t), h |-> [s.h EXCEPT !.cur = r, !.buf = s.t.now.rows[r]]]
ReadRowUnflushed(s, r) == IF s.h.cur = r THEN s ELSE FetchRow(s, r)
ReadRow(s, r)  == IF s.h.cur = r THEN s ELSE FetchRow(DBFFlushRecord(s), r)

BlankBuffer(s, r) == [t |-> s.t, h |-> [s.h EXCEPT !.n = r, !.buf = BlankRow(s.h.fields), !.cur = r]]
AddRowCounted(s, r) ==
  LET f == DBFFlushRecord(s)
  IN  BlankBuffer([t |-> Put(f.t, [f.t.now EXCEPT !.count = r]), h |-> f.h], r)
AddRow(s, r)      == BlankBuffer(DBFFlushRecord(s), r)

\* What every write begins with: the record r is brought to the buffer.
SeekRow(s, r) == IF r = s.h.n + 1 THEN AddRow(DBFWriteHeader(s), r) ELSE ReadRow(DBFWriteHeader(s), r)

Changed(s, row) == [t |-> s.t, h |-> [s.h EXCEPT !.buf = row, !.modified = TRUE, !.updated = TRUE]]

\* The digits that fit, as a function of the value: a text or a number too
\* wide is cut on the right.
Cut(w) == LET cut[v \in Nat] == IF v < 10 ^ w THEN v ELSE cut[v \div 10]
          IN  cut

\* What DBFWriteAttribute leaves in a field of the kind f that held old.
Stored(f, v, old) == IF f.kind # "L" THEN Val(Cut(f.w)[v])
                     ELSE IF v \in {0, 1} THEN Val(v)    \* F or T
                     ELSE old

Table == [t |-> tab, h |-> d]

----------------------------------------------------------------------------
NoTable  == [made |-> FALSE, hdr |-> FALSE, fields |-> <<>>, count |-> 0, rows |-> NoRows]
NoDbf    == [fields |-> <<>>, n |-> 0, cur |-> 0, buf |-> <<>>, modified |-> FALSE,
             updated |-> FALSE, noHeader |-> FALSE]

DbfInit ==
  /\ tab = Saved(NoTable)
  /\ d = NoDbf
  /\ dphase = "none"
  /\ rowsTold = 0 /\ told = NoRows /\ rowDrafts = NoDrafts
  /\ writes = 0

\* bUpdated is not set: the memory of the handle is what malloc returns.
DBFCreate ==
  /\ dphase # "open"
  /\ tab' = Saved([NoTable EXCEPT !.made = TRUE])
  /\ \E garbage \in BOOLEAN : d' = [NoDbf EXCEPT !.updated = garbage, !.noHeader = TRUE]
  /\ dphase' = "open"
  /\ rowsTold' = 0 /\ told' = NoRows /\ rowDrafts' = NoDrafts
  /\ UNCHANGED writes

DBFAddField(f) ==
  /\ dphase = "open"
  /\ d.n = 0 /\ d.noHeader
  /\ Len(d.fields) < MaxFields
  /\ d' = [d EXCEPT !.fields = Append(d.fields, f), !.updated = FALSE]
  /\ UNCHANGED <<tab, dphase, rowsTold, told, rowDrafts, writes>>

\* What was on the disk when a program was killed counts as told.
DBFOpen ==
  /\ dphase \in {"closed", "killed"}
  /\ tab.now.hdr
  /\ d' = [NoDbf EXCEPT !.fields = tab.now.fields, !.n = tab.now.count]
  /\ dphase' = "open"
  /\ IF dphase = "closed" THEN UNCHANGED <<rowsTold, told, rowDrafts>>
     ELSE /\ rowsTold' = tab.now.count
          /\ told' = [r \in Rows |-> IF r <= tab.now.count THEN tab.now.rows[r] ELSE NoRow]
          /\ rowDrafts' = [r \in Rows |-> IF r <= tab.now.count THEN {tab.now.rows[r]} ELSE {}]
  /\ UNCHANGED <<tab, writes>>

WriteCount(s) ==
  IF s.h.updated THEN Put(s.t, [s.t.now EXCEPT !.count = s.h.n]) ELSE s.t

DBFClose ==
  /\ dphase = "open"
  /\ tab' = Sync(WriteCount(DBFFlushRecord(DBFWriteHeader(Table))))
  /\ d' = NoDbf
  /\ dphase' = "closed"
  /\ rowDrafts' = [r \in Rows |-> IF r <= rowsTold THEN {told[r]} ELSE {}]
  /\ UNCHANGED <<rowsTold, told, writes>>

----------------------------------------------------------------------------
Became(s) == tab' = s.t /\ d' = s.h

\* A new row begins blank.
ToldRow(r) == IF r <= rowsTold THEN told[r] ELSE BlankRow(d.fields)

\* The user's side of a write: the row r is now to hold row.
Told(r, row) ==
  /\ rowsTold' = IF r <= rowsTold THEN rowsTold ELSE r
  /\ told' = [told EXCEPT ![r] = row]
  /\ rowDrafts' = [rowDrafts EXCEPT ![r] = @ \cup {row}]
  /\ writes' = writes + 1

MayWriteRow(r) ==
  /\ dphase = "open" /\ writes < MaxWrites
  /\ r <= d.n + 1
  /\ Len(d.fields) > 0

DBFWriteAttribute(r, i, v) ==
  /\ MayWriteRow(r) /\ i \in DOMAIN d.fields
  /\ LET s == SeekRow(Table, r)
     IN  Became(Changed(s, [s.h.buf EXCEPT ![i] = Stored(d.fields[i], v, @)]))
  /\ Told(r, [ToldRow(r) EXCEPT ![i] = Stored(d.fields[i], v, @)])
  /\ UNCHANGED dphase

DBFWriteNULLAttribute(r, i) ==
  /\ MayWriteRow(r) /\ i \in DOMAIN d.fields
  /\ LET s == SeekRow(Table, r)
     IN  Became(Changed(s, [s.h.buf EXCEPT ![i] = Null]))
  /\ Told(r, [ToldRow(r) EXCEPT ![i] = Null])
  /\ UNCHANGED dphase

\* The text is taken as it is, whatever the kind of the field.
DBFWriteAttributeDirectly(r, i, v) ==
  /\ MayWriteRow(r) /\ i \in DOMAIN d.fields
  /\ LET s == SeekRow(Table, r)
     IN  Became(Changed(s, [s.h.buf EXCEPT ![i] = Val(Cut(d.fields[i].w)[v])]))
  /\ Told(r, [ToldRow(r) EXCEPT ![i] = Val(Cut(d.fields[i].w)[v])])
  /\ UNCHANGED dphase

\* DBFReadTuple of the row q, the copy of which is given to DBFWriteTuple.
CopyTuple(q, r) ==
  /\ MayWriteRow(r) /\ q <= d.n
  /\ LET read == ReadRow(Table, q)
     IN  Became(Changed(SeekRow(read, r), read.h.buf))
  /\ Told(r, told[q])
  /\ UNCHANGED dphase

\* DBFReadAttribute and DBFReadTuple: the row moves into the buffer.
DBFReadAttribute(r) ==
  /\ dphase = "open"
  /\ r <= d.n
  /\ Became(ReadRow(Table, r))
  /\ UNCHANGED <<dphase, rowsTold, told, rowDrafts, writes>>

\* The program goes on with the copy, a file of its own.
DBFCloneEmpty ==
  /\ dphase = "open"
  /\ Len(d.fields) > 0    \* the copy of a table without fields cannot be opened
  /\ tab' = Saved(WriteHeaderTo([NoTable EXCEPT !.made = TRUE], d))
  /\ d' = [NoDbf EXCEPT !.fields = d.fields]
  /\ rowsTold' = 0 /\ told' = NoRows /\ rowDrafts' = NoDrafts
  /\ UNCHANGED <<dphase, writes>>

KillTable ==
  /\ dphase = "open"
  /\ tab' \in AfterKill(tab)
  /\ d' = NoDbf
  /\ dphase' = "killed"
  /\ UNCHANGED <<rowsTold, told, rowDrafts, writes>>

DbfNext ==
  \/ DBFCreate
  \/ DBFOpen
  \/ DBFClose
  \/ DBFCloneEmpty
  \/ KillTable
  \/ \E f \in Fields : DBFAddField(f)
  \/ \E r \in Rows : DBFReadAttribute(r)
  \/ \E r \in Rows, i \in 1 .. MaxFields, v \in Values : DBFWriteAttribute(r, i, v)
  \/ \E r \in Rows, i \in 1 .. MaxFields, v \in Values : DBFWriteAttributeDirectly(r, i, v)
  \/ \E r \in Rows, i \in 1 .. MaxFields : DBFWriteNULLAttribute(r, i)
  \/ \E q, r \in Rows : CopyTuple(q, r)

\* Where a reader finds the row r.
RowAt(r) == IF d.cur = r THEN d.buf ELSE tab.now.rows[r]

\* Every row reads as what it was last told to hold, in the handle that wrote
\* it, whichever row is in the buffer, and in the file once it is closed.
RowsReadBack ==
  /\ dphase = "open" => d.n = rowsTold /\ \A r \in 1 .. rowsTold : RowAt(r) = told[r]
  /\ dphase = "closed" =>
       /\ tab.now.hdr
       /\ tab.now.count = rowsTold
       /\ \A r \in 1 .. rowsTold : tab.now.rows[r] = told[r]

\* Whatever is on the disk when a program is killed, or when another program
\* reads the table beside it, the rows that the header counts are whole: each
\* is one that this row was told to hold since the table was last closed.
KillKeepsRows ==
  \A t \in {tab.now, tab.safe} :
    t.hdr => \A r \in Rows : r <= t.count => t.rows[r] \in rowDrafts[r]

DbfSpec == DbfInit /\ [][DbfNext]_dbfVars
===============================================================================
