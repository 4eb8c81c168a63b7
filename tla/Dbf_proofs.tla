----------------------------- MODULE Dbf_proofs -----------------------------
(***************************************************************************)
(* For every set of fields and values and any bounds: rows read back as    *)
(* they were told, and the rows of the file are whole.                     *)
(*                                                                         *)
(* The operations are followed on states [t, h].  What matters of a state  *)
(* is which row is in the buffer, whether the file has it too, and that    *)
(* all others are in the file: Holds.  One lemma for each operation says   *)
(* that it keeps this, and where it leaves the buffer.                     *)
(***************************************************************************)
EXTENDS Dbf, TLAPS

Rec(x, names) == DOMAIN x = names /\ x = [k \in names |-> x[k]]

GoodTable(t) ==
  /\ Rec(t, {"made", "hdr", "fields", "count", "rows"})
  /\ t.hdr \in BOOLEAN
  /\ t.count \in 0 .. MaxRows
  /\ t.rows = [r \in Rows |-> t.rows[r]]

GoodFile(f) == GoodTable(f.now) /\ GoodTable(f.safe)

GoodHandle(g) ==
  /\ Rec(g, {"fields", "n", "cur", "buf", "modified", "updated", "noHeader"})
  /\ g.n \in 0 .. MaxRows /\ g.cur \in 0 .. g.n
  /\ g.modified \in BOOLEAN /\ g.updated \in BOOLEAN /\ g.noHeader \in BOOLEAN

\* A file and a handle of it.  The header is written before the first row.
GoodState(s) ==
  /\ GoodFile(s.t) /\ GoodHandle(s.h)
  /\ s.h.n > 0 => ~s.h.noHeader
  /\ ~s.h.noHeader => s.t.now.hdr /\ s.t.now.count <= s.h.n

\* T are the rows of the state s.
Reads(s, T) == \A r \in 1 .. s.h.n : T[r] = IF s.h.cur = r THEN s.h.buf ELSE s.t.now.rows[r]

\* The row in the buffer is that of the file, too.
Settled(s)  == s.h.cur > 0 /\ ~s.h.modified => s.t.now.rows[s.h.cur] = s.h.buf

\* All rows of the file f are among the drafts D.
Kept(f, D)  == \A t \in {f.now, f.safe} : t.hdr => \A r \in Rows : r <= t.count => t.rows[r] \in D[r]

\* The rows T of a table of n rows are drafts themselves.
Drafted(T, n, D) == \A r \in 1 .. n : T[r] \in D[r]

\* The count in the header is right unless the handle knows that it is not.
Counted(s) == ~s.h.noHeader /\ ~s.h.updated => s.t.now.count = s.h.n

Holds(s, T, D) ==
  /\ GoodState(s)
  /\ Reads(s, T)
  /\ Settled(s)
  /\ Kept(s.t, D)
  /\ Drafted(T, s.h.n, D)
  /\ Counted(s)

IInv ==
  /\ GoodFile(tab)
  /\ rowsTold \in 0 .. MaxRows
  /\ told = [r \in Rows |-> told[r]]
  /\ rowDrafts = [r \in Rows |-> rowDrafts[r]]
  /\ Kept(tab, rowDrafts)
  /\ dphase = "open" => Holds(Table, told, rowDrafts) /\ d.n = rowsTold
  /\ dphase # "open" => tab.safe = tab.now
  /\ dphase = "closed" => /\ tab.now.hdr /\ tab.now.count = rowsTold
                          /\ \A r \in 1 .. rowsTold : tab.now.rows[r] = told[r]
                          /\ Drafted(told, rowsTold, rowDrafts)

----------------------------------------------------------------------------
(* One lemma for each operation.                                           *)

\* The handle g is that of h but for whether the header and the row in the
\* buffer are still to be written.
SameBuffer(h, g) == /\ g.n = h.n /\ g.cur = h.cur /\ g.buf = h.buf
                    /\ g.fields = h.fields /\ g.updated = h.updated

LEMMA HeaderWritten ==
  ASSUME NEW s, NEW T, NEW D, Holds(s, T, D)
  PROVE  LET u == DBFWriteHeader(s)
         IN  Holds(u, T, D) /\ SameBuffer(s.h, u.h) /\ ~u.h.noHeader
PROOF
<1> DEFINE u == DBFWriteHeader(s)
<1>1. CASE ~s.h.noHeader
  BY <1>1 DEF DBFWriteHeader, SameBuffer
<1>2. CASE s.h.noHeader
  <2> DEFINE w == WriteHeaderTo(s.t.now, s.h)
             g == [s.h EXCEPT !.noHeader = FALSE]
  <2>1. /\ Rec(w, {"made", "hdr", "fields", "count", "rows"})
        /\ w.hdr = TRUE /\ w.count = 0 /\ w.rows = s.t.now.rows
    BY DEF WriteHeaderTo, Holds, GoodState, GoodFile, GoodTable, Rec
  <2>2. /\ Rec(g, {"fields", "n", "cur", "buf", "modified", "updated", "noHeader"})
        /\ SameBuffer(s.h, g) /\ g.modified = s.h.modified /\ g.noHeader = FALSE
    BY DEF Holds, GoodState, GoodHandle, Rec, SameBuffer
  <2>3. s.h.n = 0 /\ s.h.cur = 0
    BY <1>2 DEF Holds, GoodState, GoodHandle
  <2>4. u.t.now = w /\ u.t.safe = s.t.now /\ u.h = g
    BY <1>2 DEF DBFWriteHeader, Put
  <2> HIDE DEF w, g, u
  <2>5. GoodTable(w) /\ GoodHandle(g)
    <3>1. w.rows = [r \in Rows |-> w.rows[r]]
      BY <2>1 DEF Holds, GoodState, GoodFile, GoodTable
    <3>2. w.count \in 0 .. MaxRows
      BY <2>1, BoundsAssumption DEF BoundsAssumption
    <3>3. GoodHandle(g)
      BY <2>2 DEF Holds, GoodState, GoodHandle, SameBuffer
    <3> QED
      BY <2>1, <3>1, <3>2, <3>3 DEF GoodTable
  <2>6. GoodState(u)
    BY <2>1, <2>2, <2>3, <2>4, <2>5 DEF Holds, GoodState, GoodFile, SameBuffer
  <2>7. Kept(u.t, D)
    BY <2>1, <2>4 DEF Holds, Kept, Rows
  <2> QED
    BY <2>1, <2>2, <2>3, <2>4, <2>6, <2>7 DEF Holds, Reads, Settled, Drafted, Counted, SameBuffer, u
<1> QED
  BY <1>1, <1>2

LEMMA RecordFlushed ==
  ASSUME NEW s, NEW T, NEW D, Holds(s, T, D)
  PROVE  LET u == DBFFlushRecord(s)
         IN  /\ Holds(u, T, D) /\ SameBuffer(s.h, u.h) /\ u.h.noHeader = s.h.noHeader
             /\ \A r \in 1 .. s.h.n : u.t.now.rows[r] = T[r]
PROOF
<1> DEFINE u == DBFFlushRecord(s)
<1> USE DEF Rows
<1>0. s.h.n \in 0 .. MaxRows /\ s.h.cur \in 0 .. s.h.n /\ MaxRows \in Nat
  BY BoundsAssumption DEF Holds, GoodState, GoodHandle, BoundsAssumption
<1>1. CASE ~(s.h.modified /\ s.h.cur > 0)
  <2>1. u = s
    BY <1>1 DEF DBFFlushRecord
  <2>2. \A r \in 1 .. s.h.n : s.t.now.rows[r] = T[r]
    BY <1>0, <1>1 DEF Holds, Reads, Settled
  <2> HIDE DEF u
  <2> QED
    BY <2>1, <2>2 DEF SameBuffer, u
<1>2. CASE s.h.modified /\ s.h.cur > 0
  <2> DEFINE w == WriteRow(s.t.now, s.h.cur, s.h.buf)
             g == [s.h EXCEPT !.modified = FALSE]
  <2>1. /\ Rec(w, {"made", "hdr", "fields", "count", "rows"})
        /\ w.hdr = s.t.now.hdr /\ w.count = s.t.now.count
        /\ w.rows = [s.t.now.rows EXCEPT ![s.h.cur] = s.h.buf]
    BY DEF WriteRow, Holds, GoodState, GoodFile, GoodTable, Rec
  <2>2. /\ Rec(g, {"fields", "n", "cur", "buf", "modified", "updated", "noHeader"})
        /\ SameBuffer(s.h, g) /\ g.modified = FALSE /\ g.noHeader = s.h.noHeader
    BY DEF Holds, GoodState, GoodHandle, Rec, SameBuffer
  <2>3. u.t.now = w /\ u.t.safe = s.t.now /\ u.h = g
    BY <1>2 DEF DBFFlushRecord, Put
  <2> HIDE DEF w, g, u
  <2>4. /\ w.rows = [r \in Rows |-> w.rows[r]]
        /\ \A r \in Rows : w.rows[r] = IF r = s.h.cur THEN s.h.buf ELSE s.t.now.rows[r]
    BY <2>1 DEF Holds, GoodState, GoodFile, GoodTable
  <2>5. GoodTable(w) /\ GoodHandle(g)
    BY <2>1, <2>2, <2>4 DEF Holds, GoodState, GoodFile, GoodTable, GoodHandle, SameBuffer
  <2>6. GoodState(u)
    BY <2>1, <2>2, <2>3, <2>5 DEF Holds, GoodState, GoodFile, SameBuffer
  <2>7. \A r \in 1 .. s.h.n : w.rows[r] = T[r]
    BY <1>0, <2>4 DEF Holds, Reads
  <2>8. \A r \in Rows : w.hdr /\ r <= w.count => w.rows[r] \in D[r]
    <3> SUFFICES ASSUME NEW r \in Rows, w.hdr, r <= w.count
                 PROVE  w.rows[r] \in D[r]
      OBVIOUS
    <3>1. CASE r = s.h.cur
      BY <1>0, <1>2, <3>1, <2>7 DEF Holds, Drafted
    <3>2. CASE r # s.h.cur
      BY <3>2, <2>1, <2>4 DEF Holds, Kept
    <3> QED
      BY <3>1, <3>2
  <2>9. Kept(u.t, D)
    BY <2>3, <2>8 DEF Holds, Kept
  <2>10. w.rows[s.h.cur] = s.h.buf
    BY <1>0, <1>2, <2>4
  <2>11. Reads(u, T) /\ Settled(u) /\ Drafted(T, u.h.n, D) /\ Counted(u)
    BY <2>1, <2>2, <2>3, <2>7, <2>10, <1>0, <1>2, ZenonT(40) DEF Holds, Reads, Settled, Drafted, Counted, SameBuffer
  <2> QED
    BY <2>2, <2>3, <2>6, <2>7, <2>9, <2>11 DEF Holds, SameBuffer, u
<1> QED
  BY <1>1, <1>2

LEMMA RowFetched ==
  ASSUME NEW s, NEW T, NEW D, Holds(s, T, D), NEW r \in 1 .. s.h.n
  PROVE  LET u == ReadRow(s, r)
         IN  /\ Holds(u, T, D)
             /\ u.h.cur = r /\ u.h.buf = T[r] /\ u.h.n = s.h.n
             /\ u.h.fields = s.h.fields /\ u.h.noHeader = s.h.noHeader
             /\ \A q \in (1 .. s.h.n) \ {r} : u.t.now.rows[q] = T[q]
PROOF
<1> DEFINE u == ReadRow(s, r)
<1>1. CASE s.h.cur = r
  BY <1>1 DEF ReadRow, Holds, Reads
<1>2. CASE s.h.cur # r
  <2> DEFINE f == DBFFlushRecord(s)
             g == [f.h EXCEPT !.cur = r, !.buf = f.t.now.rows[r]]
  <2>1. /\ Holds(f, T, D) /\ SameBuffer(s.h, f.h) /\ f.h.noHeader = s.h.noHeader
        /\ \A q \in 1 .. s.h.n : f.t.now.rows[q] = T[q]
    BY RecordFlushed
  <2>2. u.t.now = f.t.now /\ u.t.safe = f.t.now /\ u.h = g
    BY <1>2 DEF ReadRow, FetchRow, Sync, Saved
  <2> HIDE DEF f
  <2>3. /\ Rec(g, {"fields", "n", "cur", "buf", "modified", "updated", "noHeader"})
        /\ g.cur = r /\ g.buf = f.t.now.rows[r] /\ g.n = f.h.n /\ g.fields = f.h.fields
        /\ g.modified = f.h.modified /\ g.updated = f.h.updated /\ g.noHeader = f.h.noHeader
    BY <2>1 DEF Holds, GoodState, GoodHandle, Rec
  <2> HIDE DEF g, u
  <2>4. f.h.n = s.h.n /\ f.h.fields = s.h.fields /\ s.h.n \in 0 .. MaxRows
    BY <2>1 DEF SameBuffer, Holds, GoodState, GoodHandle
  <2>5. GoodState(u)
    BY <2>1, <2>2, <2>3, <2>4 DEF Holds, GoodState, GoodFile, GoodHandle
  <2>6. Kept(u.t, D)
    BY <2>1, <2>2 DEF Holds, Kept
  <2>7. Reads(u, T) /\ Settled(u) /\ Drafted(T, u.h.n, D) /\ Counted(u)
    BY <2>1, <2>2, <2>3, <2>4 DEF Holds, Reads, Settled, Drafted, Counted
  <2> QED
    BY <2>1, <2>2, <2>3, <2>4, <2>5, <2>6, <2>7 DEF Holds, u
<1> QED
  BY <1>1, <1>2

Larger(n, r) == IF r <= n THEN n ELSE r

LEMMA RowSought ==
  ASSUME NEW s, NEW T, NEW D, Holds(s, T, D), NEW r \in Rows, r <= s.h.n + 1
  PROVE  LET u == SeekRow(s, r)
         IN  /\ GoodState(u) /\ Kept(u.t, D)
             /\ ~u.h.noHeader
             /\ u.h.cur = r /\ u.h.n = Larger(s.h.n, r)
             /\ u.h.buf = IF r <= s.h.n THEN T[r] ELSE BlankRow(s.h.fields)
             /\ \A q \in (1 .. s.h.n) \ {r} : u.t.now.rows[q] = T[q]
PROOF
<1> DEFINE u == SeekRow(s, r)
           e == DBFWriteHeader(s)
<1> USE DEF Rows
<1>0. s.h.n \in 0 .. MaxRows /\ MaxRows \in Nat
  BY BoundsAssumption DEF Holds, GoodState, GoodHandle, BoundsAssumption
<1>1. Holds(e, T, D) /\ e.h.n = s.h.n /\ e.h.fields = s.h.fields /\ ~e.h.noHeader
  BY HeaderWritten DEF SameBuffer
<1>2. CASE r = s.h.n + 1
  <2> DEFINE f == DBFFlushRecord(e)
             g == [f.h EXCEPT !.n = r, !.buf = BlankRow(f.h.fields), !.cur = r]
  <2> HIDE DEF e
  <2>1. /\ Holds(f, T, D) /\ f.h.n = s.h.n /\ f.h.fields = s.h.fields /\ ~f.h.noHeader
        /\ \A q \in 1 .. s.h.n : f.t.now.rows[q] = T[q]
    <3>1. /\ Holds(f, T, D) /\ SameBuffer(e.h, f.h) /\ f.h.noHeader = e.h.noHeader
          /\ \A q \in 1 .. e.h.n : f.t.now.rows[q] = T[q]
      BY <1>1, RecordFlushed
    <3> HIDE DEF f
    <3> QED
      BY <1>1, <3>1 DEF SameBuffer
  <2>2. u.t = f.t /\ u.h = g
    BY <1>2 DEF SeekRow, AddRow, BlankBuffer, e
  <2> HIDE DEF f
  <2>3. /\ Rec(g, {"fields", "n", "cur", "buf", "modified", "updated", "noHeader"})
        /\ g.cur = r /\ g.buf = BlankRow(s.h.fields) /\ g.n = r
        /\ g.modified = f.h.modified /\ g.updated = f.h.updated /\ g.noHeader = f.h.noHeader
    BY <2>1 DEF Holds, GoodState, GoodHandle, Rec
  <2> HIDE DEF g, u
  <2>4. GoodHandle(g)
    BY <2>1, <2>3 DEF Holds, GoodState, GoodHandle
  <2>5. GoodState(u) /\ Kept(u.t, D)
    BY <1>0, <1>2, <2>1, <2>2, <2>3, <2>4 DEF Holds, GoodState, GoodFile, GoodTable
  <2> QED
    BY <1>0, <1>2, <2>1, <2>2, <2>3, <2>5 DEF Larger, u
<1>3. CASE r # s.h.n + 1
  <2> HIDE DEF e
  <2>1. r \in 1 .. e.h.n /\ r <= s.h.n
    BY <1>0, <1>1, <1>3
  <2>2. u = ReadRow(e, r)
    BY <1>3 DEF SeekRow, e
  <2>3. /\ Holds(ReadRow(e, r), T, D)
        /\ ReadRow(e, r).h.cur = r /\ ReadRow(e, r).h.buf = T[r] /\ ReadRow(e, r).h.n = e.h.n
        /\ ReadRow(e, r).h.noHeader = e.h.noHeader
        /\ \A q \in (1 .. e.h.n) \ {r} : ReadRow(e, r).t.now.rows[q] = T[q]
    BY <1>1, <2>1, RowFetched
  <2> HIDE DEF u
  <2> QED
    BY <1>1, <2>1, <2>2, <2>3 DEF Holds, Larger, u
<1> QED
  BY <1>2, <1>3

\* A whole write of one row.
LEMMA RowWritten ==
  ASSUME NEW s, NEW T, NEW D, Holds(s, T, D),
         T = [q \in Rows |-> T[q]], D = [q \in Rows |-> D[q]],
         NEW r \in Rows, r <= s.h.n + 1, NEW row
  PROVE  LET u == Changed(SeekRow(s, r), row)
         IN  /\ Holds(u, [T EXCEPT ![r] = row], [D EXCEPT ![r] = @ \cup {row}])
             /\ u.h.n = Larger(s.h.n, r)
PROOF
<1> DEFINE e == SeekRow(s, r)
           u == Changed(e, row)
           g == [e.h EXCEPT !.buf = row, !.modified = TRUE, !.updated = TRUE]
           T1 == [T EXCEPT ![r] = row]
           D1 == [D EXCEPT ![r] = @ \cup {row}]
<1>1. /\ GoodState(e) /\ Kept(e.t, D) /\ ~e.h.noHeader
      /\ e.h.cur = r /\ e.h.n = Larger(s.h.n, r)
      /\ \A q \in (1 .. s.h.n) \ {r} : e.t.now.rows[q] = T[q]
  BY RowSought
<1> USE DEF Rows
<1>0. s.h.n \in 0 .. MaxRows /\ MaxRows \in Nat
  BY BoundsAssumption DEF Holds, GoodState, GoodHandle, BoundsAssumption
<1>2. u.t = e.t /\ u.h = g
  BY DEF Changed
<1> HIDE DEF e, u
<1>3. /\ Rec(g, {"fields", "n", "cur", "buf", "modified", "updated", "noHeader"})
      /\ g.cur = r /\ g.buf = row /\ g.n = e.h.n
      /\ g.modified = TRUE /\ g.updated = TRUE /\ g.noHeader = e.h.noHeader
  BY <1>1 DEF GoodState, GoodHandle, Rec
<1> HIDE DEF g
<1>4. GoodState(u)
  BY <1>1, <1>2, <1>3 DEF GoodState, GoodHandle
<1>5. /\ \A q \in Rows : T1[q] = IF q = r THEN row ELSE T[q]
      /\ \A q \in Rows : D[q] \subseteq D1[q]
      /\ row \in D1[r]
  OBVIOUS
<1> HIDE DEF T1, D1
<1>6. Kept(u.t, D1)
  BY <1>1, <1>2, <1>5 DEF Kept
<1>7. \A q \in 1 .. u.h.n : q \in Rows /\ (q = r \/ q \in (1 .. s.h.n) \ {r})
  BY <1>0, <1>1, <1>2, <1>3 DEF Larger
<1>8. Reads(u, T1)
  BY <1>1, <1>2, <1>3, <1>5, <1>7 DEF Reads
<1>9. Drafted(T1, u.h.n, D1)
  BY <1>5, <1>7 DEF Drafted, Holds
<1>10. Settled(u) /\ Counted(u)
  BY <1>2, <1>3 DEF Settled, Counted
<1> QED
  BY <1>1, <1>2, <1>3, <1>4, <1>6, <1>8, <1>9, <1>10 DEF Holds, u, e, T1, D1

\* Only the file and the handle of a state matter.
LEMMA HoldsOfParts ==
  ASSUME NEW s, NEW T, NEW D, Holds(s, T, D), NEW u, u.t = s.t, u.h = s.h
  PROVE  Holds(u, T, D)
PROOF
  BY DEF Holds, GoodState, Reads, Settled, Counted

----------------------------------------------------------------------------
(* The invariant.                                                          *)

LEMMA NewFile ==
  ASSUME NEW t, GoodTable(t), ~t.hdr, NEW D
  PROVE  GoodFile(Saved(t)) /\ Kept(Saved(t), D) /\ Saved(t).safe = Saved(t).now
PROOF
  BY DEF Saved, GoodFile, Kept

\* A table that is made has nothing in it.
LEMMA NewTable ==
  ASSUME NEW b \in BOOLEAN
  PROVE  GoodTable([NoTable EXCEPT !.made = b]) /\ [NoTable EXCEPT !.made = b].hdr = FALSE
         /\ GoodTable(NoTable) /\ NoTable.hdr = FALSE
PROOF
<1> DEFINE w == [NoTable EXCEPT !.made = b]
<1>1. /\ Rec(NoTable, {"made", "hdr", "fields", "count", "rows"})
      /\ NoTable.hdr = FALSE /\ NoTable.count = 0 /\ NoTable.rows = NoRows
  BY DEF NoTable, Rec
<1>2. /\ Rec(w, {"made", "hdr", "fields", "count", "rows"})
      /\ w.hdr = FALSE /\ w.count = 0 /\ w.rows = NoRows
  BY <1>1 DEF Rec
<1> HIDE DEF w
<1>3. NoRows = [r \in Rows |-> NoRows[r]] /\ 0 \in 0 .. MaxRows
  BY BoundsAssumption DEF NoRows, BoundsAssumption
<1>4. GoodTable(NoTable) /\ GoodTable(w)
  BY <1>1, <1>2, <1>3 DEF GoodTable
<1> QED
  BY <1>1, <1>2, <1>4 DEF w

THEOREM InitEstablishes == DbfInit => IInv
PROOF
<1> SUFFICES ASSUME DbfInit PROVE IInv
  OBVIOUS
<1>1. GoodTable(NoTable) /\ ~NoTable.hdr
  BY NewTable
<1>2. GoodFile(tab) /\ Kept(tab, rowDrafts) /\ tab.safe = tab.now
  BY <1>1, NewFile DEF DbfInit
<1> QED
  BY <1>2, BoundsAssumption DEF DbfInit, IInv, NoRows, NoDrafts, BoundsAssumption

LEMMA CreateKeeps ==
  ASSUME IInv, DBFCreate
  PROVE  IInv'
PROOF
<1> DEFINE w == [NoTable EXCEPT !.made = TRUE]
<1>1. GoodTable(w) /\ w.hdr = FALSE
  BY NewTable
<1> HIDE DEF w
<1>2. tab' = Saved(w) /\ dphase' = "open" /\ rowsTold' = 0 /\ told' = NoRows /\ rowDrafts' = NoDrafts
  BY DEF DBFCreate, w
<1>3. GoodFile(tab') /\ Kept(tab', rowDrafts') /\ tab'.now.hdr = FALSE
  BY <1>1, <1>2, NewFile DEF Saved
<1>4. PICK garbage \in BOOLEAN : d' = [NoDbf EXCEPT !.updated = garbage, !.noHeader = TRUE]
  BY DEF DBFCreate
<1>5. d' = [fields |-> <<>>, n |-> 0, cur |-> 0, buf |-> <<>>, modified |-> FALSE,
            updated |-> garbage, noHeader |-> TRUE]
  BY <1>4 DEF NoDbf
<1>6. GoodHandle(d') /\ d'.n = 0 /\ d'.cur = 0 /\ d'.noHeader = TRUE
  BY <1>5, BoundsAssumption DEF GoodHandle, Rec, BoundsAssumption
<1>7. Holds(Table', told', rowDrafts')
  BY <1>3, <1>6 DEF Holds, GoodState, Reads, Settled, Drafted, Counted, Table
<1> QED
  BY <1>2, <1>3, <1>6, <1>7, BoundsAssumption DEF IInv, NoRows, NoDrafts, BoundsAssumption

LEMMA AddFieldKeeps ==
  ASSUME IInv, NEW f \in Fields, DBFAddField(f)
  PROVE  IInv'
PROOF
<1>1. Holds(Table, told, rowDrafts) /\ d.n = 0 /\ d.noHeader /\ rowsTold = 0
  BY DEF IInv, DBFAddField
<1>2. /\ d' = [d EXCEPT !.fields = Append(d.fields, f), !.updated = FALSE]
      /\ tab' = tab /\ dphase' = "open" /\ dphase = "open"
      /\ rowsTold' = rowsTold /\ told' = told /\ rowDrafts' = rowDrafts
  BY DEF DBFAddField
<1>3. GoodHandle(d) /\ GoodFile(tab) /\ Kept(tab, rowDrafts)
  BY <1>1 DEF Holds, GoodState, Table
<1>4. GoodHandle(d') /\ d'.n = 0 /\ d'.cur = 0 /\ d'.noHeader = d.noHeader
  <2> DEFINE a == Append(d.fields, f)
             g == [d EXCEPT !.fields = a, !.updated = FALSE]
  <2> HIDE DEF a
  <2>1. /\ Rec(g, {"fields", "n", "cur", "buf", "modified", "updated", "noHeader"})
        /\ g.n = d.n /\ g.cur = d.cur /\ g.modified = d.modified /\ g.updated = FALSE
        /\ g.noHeader = d.noHeader
    BY <1>3 DEF GoodHandle, Rec
  <2>2. d' = g
    BY <1>2 DEF a
  <2> HIDE DEF g
  <2>3. d.n = 0 /\ d.cur = 0 /\ d.n \in 0 .. MaxRows /\ d.modified \in BOOLEAN /\ d.noHeader \in BOOLEAN
    BY <1>1, <1>3 DEF GoodHandle
  <2>4. g.n \in 0 .. MaxRows /\ g.cur \in 0 .. g.n
    BY <2>1, <2>3
  <2>5. g.modified \in BOOLEAN /\ g.updated \in BOOLEAN /\ g.noHeader \in BOOLEAN
    BY <2>1, <2>3
  <2>6. GoodHandle(g)
    BY <2>1, <2>4, <2>5 DEF GoodHandle
  <2> QED
    BY <2>1, <2>2, <2>3, <2>6
<1>5. Holds(Table', told', rowDrafts')
  <2>1. Table'.t = tab /\ Table'.h = d'
    BY <1>2 DEF Table
  <2> QED
    BY <1>1, <1>2, <1>3, <1>4, <2>1 DEF Holds, GoodState, Reads, Settled, Drafted, Counted
<1> QED
  BY <1>1, <1>2, <1>4, <1>5 DEF IInv

LEMMA OpenKeeps ==
  ASSUME IInv, DBFOpen
  PROVE  IInv'
PROOF
<1> USE DEF Rows
<1>1. GoodFile(tab) /\ Kept(tab, rowDrafts) /\ tab.now = tab.safe /\ tab.now.hdr
  BY DEF IInv, DBFOpen
<1>2. tab' = tab /\ dphase' = "open" /\ dphase \in {"closed", "killed"}
  BY DEF DBFOpen
<1>3. d' = [fields |-> tab.now.fields, n |-> tab.now.count, cur |-> 0, buf |-> <<>>,
            modified |-> FALSE, updated |-> FALSE, noHeader |-> FALSE]
  BY DEF DBFOpen, NoDbf
<1>4. tab.now.count \in 0 .. MaxRows /\ MaxRows \in Nat
  BY <1>1, BoundsAssumption DEF GoodFile, GoodTable, BoundsAssumption
<1>5. GoodHandle(d') /\ d'.n = tab.now.count /\ d'.cur = 0 /\ ~d'.noHeader /\ ~d'.modified /\ ~d'.updated
  BY <1>3, <1>4 DEF GoodHandle, Rec
<1>6. GoodState(Table') /\ Settled(Table') /\ Counted(Table')
  BY <1>1, <1>2, <1>4, <1>5 DEF GoodState, Settled, Counted, Table
<1>7. CASE dphase = "closed"
  <2>1. rowsTold' = rowsTold /\ told' = told /\ rowDrafts' = rowDrafts
    BY <1>7 DEF DBFOpen
  <2>2. /\ tab.now.count = rowsTold /\ Drafted(told, rowsTold, rowDrafts)
        /\ \A r \in 1 .. rowsTold : tab.now.rows[r] = told[r]
    BY <1>7 DEF IInv
  <2>3. Reads(Table', told') /\ Kept(Table'.t, rowDrafts') /\ Drafted(told', Table'.h.n, rowDrafts')
    BY <1>1, <1>2, <1>5, <2>1, <2>2 DEF Reads, Table
  <2> QED
    BY <1>1, <1>2, <1>5, <1>6, <2>1, <2>2, <2>3 DEF IInv, Holds, Table
<1>8. CASE dphase = "killed"
  <2>1. /\ rowsTold' = tab.now.count
        /\ told' = [r \in Rows |-> IF r <= tab.now.count THEN tab.now.rows[r] ELSE NoRow]
        /\ rowDrafts' = [r \in Rows |-> IF r <= tab.now.count THEN {tab.now.rows[r]} ELSE {}]
    BY <1>8 DEF DBFOpen
  <2>2. \A r \in 1 .. tab.now.count : /\ r \in Rows
                                      /\ told'[r] = tab.now.rows[r]
                                      /\ rowDrafts'[r] = {tab.now.rows[r]}
    BY <1>4, <2>1
  <2>3. Kept(tab', rowDrafts')
    BY <1>1, <1>2, <2>1 DEF Kept
  <2>4. Reads(Table', told') /\ Drafted(told', Table'.h.n, rowDrafts')
    BY <1>2, <1>5, <2>2 DEF Reads, Drafted, Table
  <2>5. told' = [r \in Rows |-> told'[r]] /\ rowDrafts' = [r \in Rows |-> rowDrafts'[r]]
    BY <2>1
  <2> QED
    BY <1>1, <1>2, <1>4, <1>5, <1>6, <2>1, <2>3, <2>4, <2>5 DEF IInv, Holds, Table
<1> QED
  BY <1>2, <1>7, <1>8

LEMMA CloseKeeps ==
  ASSUME IInv, DBFClose
  PROVE  IInv'
PROOF
<1> DEFINE e == DBFWriteHeader(Table)
           u == DBFFlushRecord(e)
           c == WriteCount(u)
<1> USE DEF Rows
<1>1. Holds(Table, told, rowDrafts) /\ d.n = rowsTold
  BY DEF IInv, DBFClose
<1>2. Holds(e, told, rowDrafts) /\ e.h.n = rowsTold /\ ~e.h.noHeader
  <2>1. Holds(e, told, rowDrafts) /\ SameBuffer(Table.h, e.h) /\ ~e.h.noHeader
    BY <1>1, HeaderWritten
  <2> QED
    BY <1>1, <2>1 DEF SameBuffer, Table
<1> HIDE DEF e
<1>3. /\ Holds(u, told, rowDrafts) /\ u.h.n = rowsTold /\ ~u.h.noHeader
      /\ \A r \in 1 .. rowsTold : u.t.now.rows[r] = told[r]
  <2>1. /\ Holds(u, told, rowDrafts) /\ SameBuffer(e.h, u.h) /\ u.h.noHeader = e.h.noHeader
        /\ \A r \in 1 .. e.h.n : u.t.now.rows[r] = told[r]
    BY <1>2, RecordFlushed
  <2> HIDE DEF u
  <2> QED
    BY <1>2, <2>1 DEF SameBuffer
<1> HIDE DEF u
<1>4. /\ tab' = Sync(c) /\ dphase' = "closed" /\ rowsTold' = rowsTold /\ told' = told
      /\ rowDrafts' = [r \in Rows |-> IF r <= rowsTold THEN {told[r]} ELSE {}]
  BY DEF DBFClose, c, u, e
<1>5. rowsTold \in 0 .. MaxRows /\ MaxRows \in Nat /\ told = [r \in Rows |-> told[r]]
  BY BoundsAssumption DEF IInv, BoundsAssumption
<1>6. GoodTable(c.now) /\ c.now.hdr /\ c.now.count = rowsTold /\ c.now.rows = u.t.now.rows
  <2>1. CASE u.h.updated
    BY <1>3, <1>5, <2>1 DEF c, WriteCount, Put, Holds, GoodState, GoodFile, GoodTable, Rec
  <2>2. CASE ~u.h.updated
    BY <1>3, <2>2 DEF c, WriteCount, Holds, GoodState, GoodFile, Counted
  <2> QED
    BY <2>1, <2>2
<1> HIDE DEF c
<1>7. tab'.now = c.now /\ tab'.safe = c.now
  BY <1>4 DEF Sync, Saved
<1>8. \A r \in 1 .. rowsTold : r \in Rows /\ c.now.rows[r] = told[r] /\ rowDrafts'[r] = {told[r]}
  <2> TAKE r \in 1 .. rowsTold
  <2>1. r \in Rows /\ r <= rowsTold
    BY <1>5
  <2>2. rowDrafts'[r] = {told[r]}
    BY <1>4, <2>1
  <2> QED
    BY <1>3, <1>6, <2>1, <2>2
<1>9. Kept(tab', rowDrafts')
  <2> SUFFICES ASSUME NEW r \in Rows, r <= rowsTold
               PROVE  c.now.rows[r] \in rowDrafts'[r]
    BY <1>6, <1>7 DEF Kept
  <2>1. r \in 1 .. rowsTold
    BY <1>5
  <2> QED
    BY <1>8, <2>1
<1>10. Drafted(told', rowsTold', rowDrafts')
  BY <1>4, <1>8 DEF Drafted
<1>11. rowDrafts' = [r \in Rows |-> rowDrafts'[r]]
  BY <1>4
<1>12. tab'.now.hdr /\ tab'.now.count = rowsTold' /\ \A r \in 1 .. rowsTold' : tab'.now.rows[r] = told'[r]
  BY <1>4, <1>6, <1>7, <1>8
<1>13. GoodFile(tab') /\ tab'.safe = tab'.now
  BY <1>6, <1>7 DEF GoodFile
<1>14. rowsTold' \in 0 .. MaxRows /\ told' = [r \in Rows |-> told'[r]] /\ dphase' = "closed"
  BY <1>4, <1>5
<1> QED
  BY <1>9, <1>10, <1>11, <1>12, <1>13, <1>14 DEF IInv

LEMMA CloneKeeps ==
  ASSUME IInv, DBFCloneEmpty
  PROVE  IInv'
PROOF
<1> DEFINE v == [NoTable EXCEPT !.made = TRUE]
           w == WriteHeaderTo(v, d)
<1>1. GoodTable(v)
  BY NewTable
<1> HIDE DEF v
<1>2. GoodTable(w) /\ w.count = 0 /\ w.hdr = TRUE
  <2>1. Rec(w, {"made", "hdr", "fields", "count", "rows"}) /\ w.count = 0 /\ w.hdr = TRUE /\ w.rows = v.rows
    BY <1>1 DEF WriteHeaderTo, GoodTable, Rec
  <2> HIDE DEF w
  <2>2. w.rows = [r \in Rows |-> w.rows[r]]
    BY <1>1, <2>1 DEF GoodTable
  <2>3. 0 \in 0 .. MaxRows
    BY BoundsAssumption DEF BoundsAssumption
  <2> QED
    BY <2>1, <2>2, <2>3 DEF GoodTable
<1>3. /\ tab' = Saved(w) /\ dphase' = "open"
      /\ rowsTold' = 0 /\ told' = NoRows /\ rowDrafts' = NoDrafts
  BY DEF DBFCloneEmpty, w, v
<1> HIDE DEF w
<1>4. d' = [fields |-> d.fields, n |-> 0, cur |-> 0, buf |-> <<>>, modified |-> FALSE,
            updated |-> FALSE, noHeader |-> FALSE]
  BY DEF DBFCloneEmpty, NoDbf
<1>5. GoodHandle(d') /\ d'.n = 0 /\ d'.cur = 0
  BY <1>4, BoundsAssumption DEF GoodHandle, Rec, BoundsAssumption
<1>6. tab'.now = w /\ tab'.safe = w
  BY <1>3 DEF Saved
<1>7. Kept(tab', rowDrafts')
  BY <1>2, <1>6 DEF Kept, Rows
<1>8. Holds(Table', told', rowDrafts')
  BY <1>2, <1>5, <1>6, <1>7 DEF Holds, GoodState, GoodFile, Reads, Settled, Drafted, Counted, Table
<1> QED
  BY <1>2, <1>3, <1>5, <1>6, <1>7, <1>8, BoundsAssumption DEF IInv, GoodFile, NoRows, NoDrafts, BoundsAssumption

LEMMA KillKeeps ==
  ASSUME IInv, KillTable
  PROVE  IInv'
PROOF
<1>1. /\ tab' \in {Saved(tab.now), Saved(tab.safe)} /\ dphase' = "killed"
      /\ rowsTold' = rowsTold /\ told' = told /\ rowDrafts' = rowDrafts
  BY DEF KillTable, AfterKill
<1>2. GoodFile(tab') /\ Kept(tab', rowDrafts') /\ tab'.safe = tab'.now
  BY <1>1 DEF IInv, GoodFile, Kept, Saved
<1> QED
  BY <1>1, <1>2 DEF IInv

\* The four writes of a row.
LEMMA WriteKeeps ==
  ASSUME IInv, NEW s, Holds(s, told, rowDrafts), s.h.n = d.n,
         NEW r \in Rows, MayWriteRow(r), NEW row,
         Became(Changed(SeekRow(s, r), row)), Told(r, row), UNCHANGED dphase
  PROVE  IInv'
PROOF
<1> DEFINE u == Changed(SeekRow(s, r), row)
<1>1. /\ dphase = "open" /\ dphase' = "open" /\ r <= s.h.n + 1 /\ s.h.n = rowsTold
      /\ told = [q \in Rows |-> told[q]] /\ rowDrafts = [q \in Rows |-> rowDrafts[q]]
  BY DEF IInv, MayWriteRow
<1>2. /\ told' = [told EXCEPT ![r] = row]
      /\ rowDrafts' = [rowDrafts EXCEPT ![r] = @ \cup {row}]
      /\ rowsTold' = Larger(rowsTold, r)
  BY DEF Told, Larger
<1>3. Holds(u, told', rowDrafts') /\ u.h.n = rowsTold'
  <2>1. /\ Holds(u, [told EXCEPT ![r] = row], [rowDrafts EXCEPT ![r] = @ \cup {row}])
        /\ u.h.n = Larger(s.h.n, r)
    BY ONLY <1>1, Holds(s, told, rowDrafts), r \in Rows, RowWritten
  <2> QED
    BY <1>1, <1>2, <2>1
<1>4. Table'.t = u.t /\ Table'.h = u.h /\ tab' = u.t /\ d' = u.h
  BY DEF Became, Table
<1> HIDE DEF u
<1>5. Holds(Table', told', rowDrafts') /\ d'.n = rowsTold'
  BY <1>3, <1>4, HoldsOfParts
<1>6. GoodFile(tab') /\ Kept(tab', rowDrafts') /\ rowsTold' \in 0 .. MaxRows
  BY <1>3, <1>4 DEF Holds, GoodState, GoodHandle
<1>7. told' = [q \in Rows |-> told'[q]] /\ rowDrafts' = [q \in Rows |-> rowDrafts'[q]]
  BY <1>1, <1>2
<1> QED
  BY <1>1, <1>5, <1>6, <1>7 DEF IInv

LEMMA TableHolds ==
  ASSUME IInv, dphase = "open"
  PROVE  Holds(Table, told, rowDrafts) /\ Table.h.n = d.n /\ d.n = rowsTold
PROOF
  BY DEF IInv, Table

LEMMA ReadKeeps ==
  ASSUME IInv, NEW r \in Rows, DBFReadAttribute(r)
  PROVE  IInv'
PROOF
<1> DEFINE u == ReadRow(Table, r)
<1>1. /\ dphase = "open" /\ dphase' = "open" /\ r <= d.n /\ tab' = u.t /\ d' = u.h
      /\ rowsTold' = rowsTold /\ told' = told /\ rowDrafts' = rowDrafts
  BY DEF DBFReadAttribute, Became
<1>2. Holds(Table, told, rowDrafts) /\ Table.h.n = d.n /\ d.n = rowsTold /\ d.n \in 0 .. MaxRows
  BY <1>1, TableHolds DEF Holds, GoodState, GoodHandle, Table
<1>3. r \in 1 .. Table.h.n
  BY <1>1, <1>2, BoundsAssumption DEF Rows, BoundsAssumption
<1>4. Holds(u, told, rowDrafts) /\ u.h.n = Table.h.n
  BY <1>2, <1>3, RowFetched
<1> HIDE DEF u
<1>5. Table'.t = u.t /\ Table'.h = u.h
  BY <1>1 DEF Table
<1>6. Holds(Table', told', rowDrafts')
  BY <1>1, <1>4, <1>5, HoldsOfParts
<1>7. GoodFile(tab') /\ Kept(tab', rowDrafts')
  BY <1>1, <1>4 DEF Holds, GoodState
<1> QED
  BY <1>1, <1>2, <1>4, <1>6, <1>7 DEF IInv

LEMMA CopyKeeps ==
  ASSUME IInv, NEW q \in Rows, NEW r \in Rows, CopyTuple(q, r)
  PROVE  IInv'
PROOF
<1> DEFINE u == ReadRow(Table, q)
<1>1. /\ MayWriteRow(r) /\ q <= d.n /\ dphase = "open"
      /\ Became(Changed(SeekRow(u, r), u.h.buf)) /\ Told(r, told[q]) /\ UNCHANGED dphase
  BY DEF CopyTuple, MayWriteRow
<1>2. Holds(Table, told, rowDrafts) /\ Table.h.n = d.n /\ d.n \in 0 .. MaxRows
  BY <1>1, TableHolds DEF Holds, GoodState, GoodHandle, Table
<1>3. q \in 1 .. Table.h.n
  BY <1>1, <1>2, BoundsAssumption DEF Rows, BoundsAssumption
<1>4. Holds(u, told, rowDrafts) /\ u.h.n = d.n /\ u.h.buf = told[q]
  BY <1>2, <1>3, RowFetched
<1> HIDE DEF u
<1> QED
  BY <1>1, <1>4, WriteKeeps

\* The row that a write begins with.
LEMMA SoughtRow ==
  ASSUME IInv, NEW r \in Rows, MayWriteRow(r)
  PROVE  SeekRow(Table, r).h.buf = ToldRow(r)
PROOF
<1>1. Holds(Table, told, rowDrafts) /\ Table.h.n = rowsTold /\ r <= Table.h.n + 1 /\ Table.h.fields = d.fields
  BY TableHolds DEF MayWriteRow, Table
<1>2. SeekRow(Table, r).h.buf = IF r <= Table.h.n THEN told[r] ELSE BlankRow(Table.h.fields)
  BY <1>1, RowSought
<1> QED
  BY <1>1, <1>2 DEF ToldRow

LEMMA NextKeeps == IInv /\ [DbfNext]_dbfVars => IInv'
PROOF
<1> SUFFICES ASSUME IInv, [DbfNext]_dbfVars PROVE IInv'
  OBVIOUS
<1>1. CASE DBFCreate
  BY <1>1, CreateKeeps
<1>2. CASE DBFOpen
  BY <1>2, OpenKeeps
<1>3. CASE DBFClose
  BY <1>3, CloseKeeps
<1>4. CASE DBFCloneEmpty
  BY <1>4, CloneKeeps
<1>5. CASE KillTable
  BY <1>5, KillKeeps
<1>6. ASSUME NEW f \in Fields, DBFAddField(f)
      PROVE  IInv'
  BY <1>6, AddFieldKeeps
<1>7. ASSUME NEW r \in Rows, DBFReadAttribute(r)
      PROVE  IInv'
  BY <1>7, ReadKeeps
<1>8. ASSUME NEW r \in Rows, NEW i \in 1 .. MaxFields, NEW v \in Values, DBFWriteAttribute(r, i, v)
      PROVE  IInv'
  <2> DEFINE row == [ToldRow(r) EXCEPT ![i] = Stored(d.fields[i], v, @)]
  <2>1. MayWriteRow(r) /\ SeekRow(Table, r).h.buf = ToldRow(r)
    BY <1>8, SoughtRow DEF DBFWriteAttribute
  <2>2. Became(Changed(SeekRow(Table, r), row)) /\ Told(r, row) /\ UNCHANGED dphase
    BY <1>8, <2>1 DEF DBFWriteAttribute
  <2> QED
    BY <2>1, <2>2, WriteKeeps, TableHolds DEF MayWriteRow
<1>9. ASSUME NEW r \in Rows, NEW i \in 1 .. MaxFields, NEW v \in Values, DBFWriteAttributeDirectly(r, i, v)
      PROVE  IInv'
  <2> DEFINE row == [ToldRow(r) EXCEPT ![i] = Val(Cut(d.fields[i].w)[v])]
  <2>1. MayWriteRow(r) /\ SeekRow(Table, r).h.buf = ToldRow(r)
    BY <1>9, SoughtRow DEF DBFWriteAttributeDirectly
  <2>2. Became(Changed(SeekRow(Table, r), row)) /\ Told(r, row) /\ UNCHANGED dphase
    BY <1>9, <2>1 DEF DBFWriteAttributeDirectly
  <2> QED
    BY <2>1, <2>2, WriteKeeps, TableHolds DEF MayWriteRow
<1>10. ASSUME NEW r \in Rows, NEW i \in 1 .. MaxFields, DBFWriteNULLAttribute(r, i)
       PROVE  IInv'
  <2> DEFINE row == [ToldRow(r) EXCEPT ![i] = Null]
  <2>1. MayWriteRow(r) /\ SeekRow(Table, r).h.buf = ToldRow(r)
    BY <1>10, SoughtRow DEF DBFWriteNULLAttribute
  <2>2. Became(Changed(SeekRow(Table, r), row)) /\ Told(r, row) /\ UNCHANGED dphase
    BY <1>10, <2>1 DEF DBFWriteNULLAttribute
  <2> QED
    BY <2>1, <2>2, WriteKeeps, TableHolds DEF MayWriteRow
<1>11. ASSUME NEW q \in Rows, NEW r \in Rows, CopyTuple(q, r)
       PROVE  IInv'
  BY <1>11, CopyKeeps
<1>12. CASE UNCHANGED dbfVars
  BY <1>12, SMTT(30) DEF dbfVars, IInv, Table, Holds, GoodState, GoodFile, GoodTable, GoodHandle, Reads, Settled,
               Kept, Drafted, Counted
<1> QED
  BY <1>1, <1>2, <1>3, <1>4, <1>5, <1>6, <1>7, <1>8, <1>9, <1>10, <1>11, <1>12 DEF DbfNext

THEOREM Invariance == DbfSpec => []IInv
PROOF
  BY InitEstablishes, NextKeeps, PTL DEF DbfSpec

\* Whichever row is in the one buffer of the handle, and whatever was written
\* before, every row reads as it was last told (DBFFlushRecord, DBFReadAttribute).
THEOREM RowsAlwaysReadBack == DbfSpec => []RowsReadBack
PROOF
<1>1. IInv => RowsReadBack
  <2> SUFFICES ASSUME IInv PROVE RowsReadBack
    OBVIOUS
  <2>1. ASSUME dphase = "open"
        PROVE  d.n = rowsTold /\ \A r \in 1 .. rowsTold : RowAt(r) = told[r]
    BY <2>1 DEF IInv, Holds, Reads, Table, RowAt
  <2> QED
    BY <2>1 DEF IInv, RowsReadBack
<1> QED
  BY <1>1, Invariance, PTL

\* The rows that the header of the file counts are whole, at any moment at
\* which a program may be killed (DBFFlushRecord, DBFClose).
THEOREM KillAlwaysKeepsRows == DbfSpec => []KillKeepsRows
PROOF
<1>1. IInv => KillKeepsRows
  BY DEF IInv, Kept, KillKeepsRows
<1> QED
  BY <1>1, Invariance, PTL
===============================================================================
