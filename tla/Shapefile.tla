----------------------------- MODULE Shapefile -----------------------------
(***************************************************************************)
(* Shapes (shapelib.c, SHP...): the records of a .shp file, placed by the  *)
(* offsets and sizes of the .shx file, which a handle holds in memory and  *)
(* writes when it is closed.                                               *)
(*                                                                         *)
(* The content of a .shp file is a function from the byte at which a field *)
(* begins to its value; a byte at which none begins reads as Junk.  Shapes *)
(* are numbered from 1, and 0 is the -1 of a shape to be appended.  The    *)
(* coordinates of a shape are four sequences.                              *)
(***************************************************************************)
EXTENDS Integers, Sequences, FiniteSetsExt, SequencesExt, Functions, Stdio

CONSTANTS
  LayerTypes,   \* the shape types of the layers that are created
  Shapes,       \* Shapes[t]: the objects that are written to a layer of type t, or NullShape
  MaxShapes,
  MaxPuts,      \* bound on the writes of a layer
  Junk          \* what is read where nothing was written: a number no shape has

NULL        == 0
POINT       == 1
ARC         == 3
POLYGON     == 5
MULTIPOINT  == 8
POINTZ      == 11
ARCZ        == 13
POLYGONZ    == 15
MULTIPOINTZ == 18
POINTM      == 21
ARCM        == 23
POLYGONM    == 25
MULTIPOINTM == 28
MULTIPATCH  == 31

Polygons   == {POLYGON, POLYGONZ, POLYGONM}
WithParts  == Polygons \cup {ARC, ARCZ, ARCM, MULTIPATCH}
MultiPoints == {MULTIPOINT, MULTIPOINTZ, MULTIPOINTM}
Points     == {POINT, POINTZ, POINTM}
HasZ(t)    == t \in {POINTZ, ARCZ, POLYGONZ, MULTIPOINTZ, MULTIPATCH}
HasM(t)    == HasZ(t) \/ t \in {POINTM, ARCM, POLYGONM, MULTIPOINTM}

VARIABLES
  shp,      \* [now, safe], each [size, body]: nFileSize in the header, and the content
  shx,      \* [type, recs, min, max]: the index file
  h,        \* the handle, SHPInfo
  phase,    \* "none", "emptied", "bare", "headed", "open", "closing", "closed" or "killed"
  last,     \* the object last written to each shape
  drafts,   \* of each shape that was whole when the layer was closed: the objects since
  wound,    \* the shapes that were last written from SHPRewindObject
  puts,     \* the writes so far, those that failed included
  failed,   \* the shapes that a failing write has left behind their last object
  harm      \* "none", "killed", "torn" when the index is newer than the header,
            \* or "emptied" when SHPCreate has not come to its end

shpVars == <<shp, shx, h, phase, last, drafts, wound, puts, failed, harm>>

Lowest(s)  == Min(ToSet(s))
Highest(s) == Max(ToSet(s))
Zeros(n)   == [i \in 1 .. n |-> 0]

----------------------------------------------------------------------------
(* Objects.  All parts are of the type RING.                               *)

\* The box of an object: xmin, ymin, xmax, ymax.
SHPComputeExtents(x, y) ==
  IF x = <<>> THEN Zeros(4) ELSE <<Lowest(x), Lowest(y), Highest(x), Highest(y)>>

RING == 5
SHPCreateObject(t, starts, x, y, z, m) ==
  [type |-> t,
   parts |-> IF t \notin WithParts THEN <<>> ELSE IF starts = <<>> THEN <<0>> ELSE starts,
   x |-> x, y |-> y,
   z |-> IF HasZ(t) THEN z ELSE Zeros(Len(x)),
   m |-> IF HasM(t) THEN m ELSE Zeros(Len(x)),
   box |-> SHPComputeExtents(x, y)]

NullShape == SHPCreateObject(NULL, <<>>, <<>>, <<>>, <<>>, <<>>)

----------------------------------------------------------------------------
(* Records.  A field is <<width, value>>.                                  *)

Ints(s)     == [i \in DOMAIN s |-> <<4, s[i]>>]
Doubles(s)  == [i \in DOMAIN s |-> <<8, s[i]>>]
Vertices(o) == FlattenSeq([i \in DOMAIN o.x |-> Doubles(<<o.x[i], o.y[i]>>)])
Ranged(s)   == Doubles(<<Lowest(s), Highest(s)>> \o s)
If(c, s)    == IF c THEN s ELSE <<>>

\* DISABLE_MULTIPATCH_MEASURE is defined.
WritesM(t) == HasM(t) /\ t # MULTIPATCH

Record(o) ==
  Ints(<<o.type>>) \o
  (CASE o.type \in WithParts ->
          Doubles(o.box) \o Ints(<<Len(o.parts), Len(o.x)>> \o o.parts)
            \o If(o.type = MULTIPATCH, Ints([i \in DOMAIN o.parts |-> RING]))
            \o Vertices(o) \o If(HasZ(o.type), Ranged(o.z)) \o If(WritesM(o.type), Ranged(o.m))
     [] o.type \in MultiPoints ->
          Doubles(o.box) \o Ints(<<Len(o.x)>>)
            \o Vertices(o) \o If(HasZ(o.type), Ranged(o.z)) \o If(HasM(o.type), Ranged(o.m))
     [] o.type \in Points ->
          Vertices(o) \o If(HasZ(o.type), Doubles(o.z)) \o If(HasM(o.type), Doubles(o.m))
     [] OTHER -> <<>>)

\* Every record begins with its number and its size.
Widths(fields) == 4 * (Len(fields) + Cardinality({i \in DOMAIN fields : fields[i][1] = 8}))
RecordSize(o)  == 8 + Widths(Record(o))

\* The content b after the record of o was written from byte p on.
WriteAt(b, p, o) ==
  LET fields == Record(o)
      start  == [i \in DOMAIN fields |-> p + 8 + Widths(SubSeq(fields, 1, i - 1))]
      kept   == {q \in DOMAIN b : q < p \/ q >= p + RecordSize(o)}
  IN  [q \in kept \cup Range(start) |->
         IF q \in kept THEN b[q] ELSE fields[CHOOSE i \in DOMAIN fields : start[i] = q][2]]

At(b, q)             == IF q \in DOMAIN b THEN b[q] ELSE Junk
Run(b, q, step, n)   == [i \in 1 .. n |-> At(b, q + step * (i - 1))]

\* SHPReadObject of the record at rec, which has the size of the index and not
\* that of the record: measures are taken from whatever follows the vertices,
\* if there is room for them.
SHPReadObject(b, rec) ==
  LET p    == rec.off
      t    == At(b, p + 8)
      np   == IF t \in WithParts THEN At(b, p + 44) ELSE 0
      n    == IF t \in WithParts THEN At(b, p + 48)
              ELSE IF t \in MultiPoints THEN At(b, p + 44)
              ELSE IF t \in Points THEN 1 ELSE 0
      xy   == IF t \in WithParts THEN 52 + 4 * np * (IF t = MULTIPATCH THEN 2 ELSE 1)
              ELSE IF t \in MultiPoints THEN 48 ELSE 12
      rng  == IF t \in Points THEN 0 ELSE 16      \* the range before the values
      zs   == xy + 16 * n
      ms   == zs + IF HasZ(t) THEN rng + 8 * n ELSE 0
      room == t # NULL /\ rec.len + 8 >= ms + rng + 8 * n
      x    == Run(b, p + xy, 16, n)
      y    == Run(b, p + xy + 8, 16, n)
  IN  [type |-> t,
       parts |-> Run(b, p + 52, 4, np),
       x |-> x, y |-> y,
       z |-> IF HasZ(t) THEN Run(b, p + zs + rng, 8, n) ELSE Zeros(n),
       m |-> IF room THEN Run(b, p + ms + rng, 8, n) ELSE Zeros(n),
       box |-> IF t \in Points THEN <<x[1], y[1], x[1], y[1]>>
               ELSE IF t \in WithParts \cup MultiPoints THEN Run(b, p + 12, 8, 4) ELSE Zeros(4)]

\* A copy in memory of what was read from a file with that index and content.
Read(b, recs) == [i \in DOMAIN recs |-> SHPReadObject(b, recs[i])]

----------------------------------------------------------------------------
(* SHPRewindObject: outer rings clockwise, inner ones counter-clockwise.   *)

RingFirst(o, r) == o.parts[r] + 1
RingCount(o, r) == (IF r = Len(o.parts) THEN Len(o.x) ELSE o.parts[r + 1]) - o.parts[r]
RingOf(o, r)    == RingFirst(o, r) .. RingFirst(o, r) + RingCount(o, r) - 1
Follows(o, r, i) == IF i + 1 \in RingOf(o, r) THEN i + 1 ELSE RingFirst(o, r)

\* The edge from vertex i of ring q crosses the half line to the left of (tx, ty).
\* The quotient of the code is multiplied out.
Crosses(o, q, i, tx, ty) ==
  LET k  == Follows(o, q, i)
      dx == o.x[k] - o.x[i]
      dy == o.y[k] - o.y[i]
  IN  \/ o.y[i] < ty /\ o.y[k] >= ty /\ o.x[i] * dy + (ty - o.y[i]) * dx < tx * dy
      \/ o.y[k] < ty /\ o.y[i] >= ty /\ o.x[i] * dy + (ty - o.y[i]) * dx > tx * dy

Crossings(o, r) ==
  {<<q, i>> \in (DOMAIN o.parts \ {r}) \X DOMAIN o.x :
     i \in RingOf(o, q) /\ Crosses(o, q, i, o.x[RingFirst(o, r)], o.y[RingFirst(o, r)])}

IsInnerAny(o, r) == Crossings(o, r) # {}
IsInner(o, r) == Cardinality(Crossings(o, r)) % 2 = 1

\* Twice the area of a ring, positive when it is counter-clockwise.
RingSum(o, r) ==
  MapThenSumSet(LAMBDA i : o.x[i] * o.y[Follows(o, r, i)] - o.y[i] * o.x[Follows(o, r, i)], RingOf(o, r))

Misdirected(o, r) == IF IsInner(o, r) THEN RingSum(o, r) < 0 ELSE RingSum(o, r) > 0

Turned(o, r, s) ==
  [i \in DOMAIN s |-> IF i \in RingOf(o, r) THEN s[2 * RingFirst(o, r) + RingCount(o, r) - 1 - i] ELSE s[i]]
Reversed(o, r) == [o EXCEPT !.x = Turned(o, r, @), !.y = Turned(o, r, @),
                            !.z = Turned(o, r, @), !.m = Turned(o, r, @)]

SHPRewindObject(o) ==
  IF o.type \notin Polygons THEN o
  ELSE FoldLeftDomain(LAMBDA c, r : IF Misdirected(c, r) THEN Reversed(c, r) ELSE c, o, o.parts)

----------------------------------------------------------------------------
(* The calls of a program on one layer.                                    *)

NoLayer  == [size |-> 0, body |-> [q \in {} |-> 0]]
NoShp == [type |-> NULL, size |-> 0, recs |-> <<>>, min |-> Zeros(4), max |-> Zeros(4),
             updated |-> FALSE, maxRecords |-> 0]

NoIndex == [type |-> NULL, recs |-> <<>>, min |-> Zeros(4), max |-> Zeros(4)]

Opened(file, index) ==
  [type |-> index.type, size |-> file.size, recs |-> index.recs, min |-> index.min,
   max |-> index.max, updated |-> FALSE, maxRecords |-> Len(index.recs)]

ShpInit ==
  /\ shp = Saved(NoLayer)
  /\ shx = NoIndex
  /\ h = NoShp
  /\ phase = "none"
  /\ last = <<>> /\ drafts = <<>>
  /\ wound = {}
  /\ puts = 0
  /\ failed = {}
  /\ harm = "none"

Harmful  == {"torn", "emptied"}
Creating == {"emptied", "bare", "headed"}

\* SHPCreate empties the .shp file, then the .shx file, and writes their headers
\* as it closes one after the other; until the second file is empty the old index
\* is beside an empty .shp file.
SHPCreate(t) ==
  /\ phase \notin {"open", "closing"} \cup Creating
  /\ shp' = Saved(NoLayer)
  /\ h' = [NoShp EXCEPT !.type = t]
  /\ phase' = "emptied"
  /\ last' = <<>> /\ drafts' = <<>>
  /\ wound' = {}
  /\ puts' = 0
  /\ failed' = {}
  /\ harm' = "emptied"
  /\ UNCHANGED shx

EmptyIndex ==
  /\ phase = "emptied"
  /\ shx' = NoIndex
  /\ phase' = "bare"
  /\ UNCHANGED <<shp, h, last, drafts, wound, puts, failed, harm>>

HeadShapes ==
  /\ phase = "bare"
  /\ shp' = Saved([NoLayer EXCEPT !.size = 100])
  /\ phase' = "headed"
  /\ UNCHANGED <<shx, h, last, drafts, wound, puts, failed, harm>>

\* ... and the two are opened.
HeadIndex ==
  /\ phase = "headed"
  /\ shx' = [NoIndex EXCEPT !.type = h.type]
  /\ h' = Opened(shp.now, shx')
  /\ phase' = "open"
  /\ harm' = "none"
  /\ UNCHANGED <<shp, last, drafts, wound, puts, failed>>

\* The same object, measures apart where the file has none.
Same(o, w) == /\ o.type = w.type /\ o.parts = w.parts /\ o.box = w.box
              /\ o.x = w.x /\ o.y = w.y /\ o.z = w.z
              /\ WritesM(o.type) => o.m = w.m

\* What was on the disk when a program was killed counts as written.  Of a layer
\* that was killed in its creation the header would be memory nobody wrote: it is
\* created anew.
SHPOpen ==
  /\ phase \in {"closed", "killed"} /\ harm # "emptied"
  /\ h' = Opened(shp.now, shx)
  /\ phase' = "open"
  /\ IF phase = "closed" THEN UNCHANGED <<last, drafts, wound, failed>>
     ELSE LET found == Read(shp.now.body, shx.recs)
          IN  /\ last' = found
              /\ drafts' = [i \in DOMAIN drafts |-> {found[i]}]
              /\ wound' = {}
              /\ failed' = DOMAIN found \ DOMAIN drafts
  /\ UNCHANGED <<shp, shx, puts, harm>>

\* More room for the index, a third and a hundred at a time.
GrownNever(n) == n
Grown(n) == IF Len(h.recs) + 1 > n THEN (n * 13) \div 10 + 100 ELSE n

Coordinates(o) == <<o.x, o.y, o.z, o.m>>
NoBoundsBelow  == \A k \in {1, 2} : h.min[k] = 0
NoBounds       == \A k \in {1, 2} : h.min[k] = 0 /\ h.max[k] = 0

\* The bounds of the layer when o has been written: they begin anew where they
\* are all zero.
From(o, old)  == IF NoBounds /\ o.type # NULL THEN [k \in 1 .. 4 |-> Coordinates(o)[k][1]] ELSE old
Lower(o)      == [k \in 1 .. 4 |-> Min({From(o, h.min)[k]} \cup ToSet(Coordinates(o)[k]))]
Upper(o)      == [k \in 1 .. 4 |-> Max({From(o, h.max)[k]} \cup ToSet(Coordinates(o)[k]))]

\* The record of shape i cannot stay where it is.
MovesNever(i, o) == i = 0
MovesSmaller(i, o) == i = 0 \/ h.recs[i].len > RecordSize(o) - 8
Moves(i, o) == i = 0 \/ h.recs[i].len < RecordSize(o) - 8

Target(i) == IF i = 0 THEN Len(last) + 1 ELSE i

\* The handle when a place has been found for the record.
Placed(i, o) ==
  LET new == [off |-> h.size, len |-> RecordSize(o) - 8]
      rec == IF Moves(i, o) THEN new ELSE h.recs[i]
  IN  [h EXCEPT !.recs = IF i = 0 THEN Append(@, rec) ELSE [@ EXCEPT ![i] = rec],
                !.size = IF Moves(i, o) THEN @ + RecordSize(o) ELSE @,
                !.maxRecords = IF i = 0 THEN Grown(@) ELSE @,
                !.updated = TRUE]

\* What the user knows of a write, and the bound on their number.
ShapeTold(i, o) ==
  /\ last' = IF i = 0 THEN Append(last, o) ELSE [last EXCEPT ![i] = o]
  /\ drafts' = [j \in DOMAIN drafts |-> IF j = i THEN drafts[j] \cup {o} ELSE drafts[j]]
  /\ puts' = puts + 1

WriteInto(i, o) ==
  /\ h' = [Placed(i, o) EXCEPT !.min = Lower(o), !.max = Upper(o)]
  /\ shp' = Put(shp, [shp.now EXCEPT !.body = WriteAt(@, h'.recs[Target(i)].off, o)])
  /\ ShapeTold(i, o)
  /\ failed' = failed \ {Target(i)}
  /\ UNCHANGED <<shx, phase, harm>>

MayWrite(i) ==
  /\ phase = "open" /\ puts < MaxPuts
  /\ i = 0 => Len(h.recs) < MaxShapes

SHPWriteObject(i, o) ==
  /\ MayWrite(i)
  /\ WriteInto(i, o)
  /\ wound' = wound \ {Target(i)}

\* fseek or fwrite fails, and takes the write before along if that is what cannot
\* be flushed: index and sizes have changed by then, the bounds have not.  That no
\* second write fails while the first is not made good is a bound of the model.
SHPWriteFails(i, o) ==
  /\ MayWrite(i) /\ failed = {}
  /\ h' = Placed(i, o)
  /\ shp' \in {Sync(shp), Saved(shp.safe)}
  /\ ShapeTold(i, o)
  /\ failed' = {Target(i)} \cup {j \in DOMAIN last : ~Same(SHPReadObject(shp'.now.body, h.recs[j]), last[j])}
  /\ wound' = wound \ failed'
  /\ UNCHANGED <<shx, phase, harm>>

\* A shape is read, rewound and written back.
RewindShape(i) ==
  LET o == SHPRewindObject(SHPReadObject(shp.now.body, h.recs[i]))
  IN  /\ MayWrite(i) /\ i \notin failed
      /\ WriteInto(i, o)
      /\ wound' = wound \cup {i}

\* SHPClose has written both files and closed the .shx; the header of the .shp
\* is still in the buffer of stdio.
CloseIndex ==
  /\ phase = "open"
  /\ IF h.updated
     THEN /\ shp' = Put(shp, [shp.now EXCEPT !.size = h.size])
          /\ shx' = [type |-> h.type, recs |-> h.recs, min |-> h.min, max |-> h.max]
     ELSE UNCHANGED <<shp, shx>>
  /\ h' = NoShp
  /\ phase' = "closing"
  /\ drafts' = [i \in DOMAIN last \ failed |-> {last[i]}]
  /\ UNCHANGED <<last, wound, puts, failed, harm>>

CloseShapes ==
  /\ phase = "closing"
  /\ shp' = Saved(shp.now)
  /\ phase' = "closed"
  /\ UNCHANGED <<shx, h, last, drafts, wound, puts, failed, harm>>

KillShapes ==
  /\ phase \in {"open", "closing"} \cup Creating
  /\ shp' \in AfterKill(shp)
  /\ h' = NoShp
  /\ phase' = "killed"
  /\ harm' = IF phase = "closing" /\ shp'.now.size # shp.now.size THEN "torn"
             ELSE IF harm \in Harmful THEN harm ELSE "killed"
  /\ UNCHANGED <<shx, last, drafts, wound, puts, failed>>

ShpNext ==
  \/ \E t \in LayerTypes : SHPCreate(t)
  \/ EmptyIndex
  \/ HeadShapes
  \/ HeadIndex
  \/ SHPOpen
  \/ phase = "open" /\ \E i \in 0 .. Len(h.recs), o \in Shapes[h.type] :
        SHPWriteObject(i, o) \/ SHPWriteFails(i, o)
  \/ \E i \in DOMAIN h.recs : RewindShape(i)
  \/ CloseIndex
  \/ CloseShapes
  \/ KillShapes

----------------------------------------------------------------------------
(* Properties.  A layer that is torn is left out of them, as its next      *)
(* shapes are placed over the last ones; so is one in its creation, where  *)
(* the old index may be beside an empty file; and the shapes of a write    *)
(* that failed, until they are written again.                              *)

\* Every shape reads back as it was last written, unless that write failed or was
\* lost with one that did: through the handle that wrote it and from the closed
\* files, however records were replaced in place, moved to the end, or written
\* where others were before a kill.
ShapesReadBack ==
  harm \notin Harmful =>
    /\ phase = "open" => /\ Len(h.recs) = Len(last)
                         /\ \A i \in DOMAIN last \ failed : Same(SHPReadObject(shp.now.body, h.recs[i]), last[i])
    /\ phase = "closed" => /\ Len(shx.recs) = Len(last)
                           /\ \A i \in DOMAIN last \ failed : Same(SHPReadObject(shp.now.body, shx.recs[i]), last[i])

\* Wherever a program is killed, and whenever another one reads the layer beside
\* it, but not while SHPCreate replaces a layer nor after a kill that leaves it torn,
\* each shape of the index on disk reads as one that it held when the layer was last
\* closed or was written to it since, unless the layer was closed with a write of it
\* that had failed.
KillKeepsShapes ==
  harm \notin Harmful =>
    \A file \in AfterKill(shp), i \in DOMAIN drafts :
      \E o \in drafts[i] : Same(SHPReadObject(file.now.body, shx.recs[i]), o)

AtOrigin(o) == \A v \in DOMAIN o.x : o.x[v] = 0 /\ o.y[v] = 0
Within(o, b) ==
  \A k \in 1 .. 4 : \A c \in ToSet(Coordinates(o)[k]) : b.min[k] <= c /\ c <= b.max[k]

\* The bounds of the layer cover every shape, in memory and in the index, unless
\* a program was killed, its write failed or all of the shape is at (0, 0).
BoundsCover ==
  harm = "none" /\ phase \in {"open", "closed"} =>
    \A i \in DOMAIN last \ failed : AtOrigin(last[i]) \/ Within(last[i], IF phase = "open" THEN h ELSE shx)

RingBox(o, r) == SHPComputeExtents(SubSeq(o.x, RingFirst(o, r), RingFirst(o, r) + RingCount(o, r) - 1),
                                   SubSeq(o.y, RingFirst(o, r), RingFirst(o, r) + RingCount(o, r) - 1))
Encloses(a, b) == a[1] < b[1] /\ a[2] < b[2] /\ b[3] < a[3] /\ b[4] < a[4]
IsHole(o, r)   == Cardinality({q \in DOMAIN o.parts : Encloses(RingBox(o, q), RingBox(o, r))}) % 2 = 1

\* A rectangle goes clockwise when it goes up from its lower left corner.
UpFromCorner(o, r) ==
  \E i \in RingOf(o, r) : LET k == Follows(o, r, i)
                          IN  /\ o.x[i] = RingBox(o, r)[1] /\ o.x[k] = o.x[i]
                              /\ o.y[i] < o.y[k]

\* Of a polygon of nested rectangles that was written from SHPRewindObject, the
\* file has the outer rings clockwise, the holes counter-clockwise and the
\* islands in them clockwise again.
RingsWound ==
  harm \notin Harmful /\ phase = "open" =>
    \A i \in wound :
      LET o == SHPReadObject(shp.now.body, h.recs[i])
      IN  o.type \in Polygons => \A r \in DOMAIN o.parts : UpFromCorner(o, r) # IsHole(o, r)
===============================================================================
