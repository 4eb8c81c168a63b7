----------------------------- MODULE ShapeLayer -----------------------------
(***************************************************************************)
(* A layer is the shapes of a .shp and .shx file and the rows of a .dbf    *)
(* file.  The two halves share nothing in shapelib.c, so a program works   *)
(* on either; shp_read.c reads the shapes for Matlab.                      *)
(***************************************************************************)
EXTENDS Shapefile, Dbf

CONSTANT Separator   \* the NaN of shp_read

VARIABLE half

layerVars == <<half, shpVars, dbfVars>>

----------------------------------------------------------------------------
(* shp_read.c: the vertices of a layer, each part followed by a separator. *)

SeparatedShapes(o, s) == s \o <<Separator>>

\* A separator is put where a part other than the first begins and behind the
\* shape.
Separated(o, s) ==
  FlattenSeq([v \in DOMAIN s |-> IF v > 1 /\ \E k \in DOMAIN o.parts \ {1} : o.parts[k] + 1 = v
                                 THEN <<Separator, s[v]>> ELSE <<s[v]>>]) \o <<Separator>>

\* The arrays are made before they are filled, and are zero where they are not.
ReadSize(os) ==
  MapThenSumSet(LAMBDA i : Len(os[i].x) + (IF Len(os[i].parts) > 1 THEN Len(os[i].parts) ELSE 0) + 1,
                DOMAIN os)
Filled(n, s) == s \o Zeros(n - Len(s))

shp_read(body, recs) ==
  LET os == Read(body, recs)
      column(c) == Filled(ReadSize(os), FlattenSeq([i \in DOMAIN os |-> Separated(os[i], c[i])]))
  IN  [cartex |-> column([i \in DOMAIN os |-> os[i].x]),
       cartey |-> column([i \in DOMAIN os |-> os[i].y]),
       nparts |-> [i \in DOMAIN os |-> Len(os[i].parts)]]

----------------------------------------------------------------------------
Init ==
  /\ ShpInit
  /\ DbfInit
  /\ half \in {"shapes", "table"}

Next ==
  \/ half = "shapes" /\ ShpNext /\ UNCHANGED <<half, dbfVars>>
  \/ half = "table" /\ DbfNext /\ UNCHANGED <<half, shpVars>>

Spec == Init /\ [][Next]_layerVars

----------------------------------------------------------------------------
IsFile(f) == DOMAIN f = {"now", "safe"}
IsRow(row) == \A i \in DOMAIN row : row[i] \in {Blank, Null} \cup {Val(v) : v \in 0 .. Max(Values)}

\* Type correctness: the records of an index lie in the file that it is kept
\* for, the index in memory has room, and a table has no row that is not whole.
TypeOK ==
  /\ phase \in {"none", "open", "closing", "closed", "killed"} \cup Creating
  /\ harm \in {"none", "killed"} \cup Harmful
  /\ IsFile(shp) /\ IsFile(tab)
  /\ Len(h.recs) <= h.maxRecords
  /\ harm \notin Harmful =>
       \A i \in DOMAIN h.recs : h.recs[i].off >= 100 /\ h.recs[i].off + 8 + h.recs[i].len <= h.size
  /\ wound \subseteq DOMAIN last \ failed /\ failed \subseteq DOMAIN last
  /\ dphase \in {"none", "open", "closed", "killed"}
  /\ d.n \in 0 .. MaxRows /\ d.cur \in 0 .. d.n
  /\ \A r \in Rows : tab.now.rows[r] # NoRow => IsRow(tab.now.rows[r])

\* The sequences between the separators of s.
Pieces(s) ==
  LET ends == {i \in DOMAIN s : s[i] = Separator}
      from(i) == IF \E k \in ends : k < i THEN Max({k \in ends : k < i}) + 1 ELSE 1
      piece(i) == SubSeq(s, from(i), i - 1)
  IN  [n \in 1 .. Cardinality(ends) |->
         piece(CHOOSE i \in ends : Cardinality({k \in ends : k < i}) = n - 1)]

PartOf(o, s, r) == SubSeq(s, RingFirst(o, r), RingFirst(o, r) + RingCount(o, r) - 1)
PartsOf(o, s)   == IF o.parts = <<>> THEN <<s>> ELSE [r \in DOMAIN o.parts |-> PartOf(o, s, r)]

\* What shp_read finds between its separators in a closed layer are the parts of
\* the shapes as they were last written, in order, if no write has failed.
ReaderFindsParts ==
  phase = "closed" /\ harm # "torn" /\ failed = {} =>
    LET found == shp_read(shp.now.body, shx.recs)
    IN  /\ Pieces(found.cartex) = FlattenSeq([i \in DOMAIN last |-> PartsOf(last[i], last[i].x)])
        /\ Pieces(found.cartey) = FlattenSeq([i \in DOMAIN last |-> PartsOf(last[i], last[i].y)])
===============================================================================
