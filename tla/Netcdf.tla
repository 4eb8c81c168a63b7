------------------------------- MODULE Netcdf -------------------------------
(***************************************************************************)
(* The netCDF library, as the gateway of src/io/netcdf/mexnc uses it: what *)
(* a call of nc_... (or of the netCDF-2 interface, nc... without the       *)
(* underscore) does to the open datasets and what it returns.  The library *)
(* is not part of the repository.  An operator takes the state s of the    *)
(* library and returns [s, st, out]: the new state, the status and the     *)
(* output arguments, which a call that fails leaves unassigned.            *)
(*                                                                         *)
(* Values of attributes and variables are numbers in quarters (4 * x), so  *)
(* that the conversion to an integer type can be seen to round.            *)
(***************************************************************************)
EXTENDS Integers, Sequences, FiniteSets, SequencesExt

CONSTANTS Ids,      \* the file ids the library can give out
          Undef,    \* a value nobody has assigned
          Fill,     \* the fill value of a cell that was not written
          NaN,      \* the double that is not a number
          NoFile    \* the content of a path where there is no file

Marks == {Undef, Fill, NaN}
ASSUME MarksAreNoNumbers == \A mark \in Marks : mark \notin Int

NC_NOERR == 0
NC_EBADID == -33
NC_ENFILE == -34
NC_EEXIST == -35
NC_EINVAL == -36
NC_EPERM == -37
NC_ENOTINDEFINE == -38
NC_EINDEFINE == -39
NC_EINVALCOORDS == -40
NC_ENAMEINUSE == -42
NC_ENOTATT == -43
NC_EBADTYPE == -45
NC_EBADDIM == -46
NC_EUNLIMPOS == -47
NC_ENOTVAR == -49
NC_EUNLIMIT == -54
NC_ECHAR == -56
NC_EEDGE == -57
NC_ESTRIDE == -58
NC_ERANGE == -60
ENOENT == 2
NC_GLOBAL == -1
NC_UNLIMITED == 0

NC_BYTE == 1
NC_CHAR == 2
NC_SHORT == 3
NC_INT == 4
NC_FLOAT == 5
NC_DOUBLE == 6
Types == NC_BYTE .. NC_DOUBLE

Fails(s, code) == [s |-> s, st |-> code, out |-> Undef]
Gives(s, out)  == [s |-> s, st |-> NC_NOERR, out |-> out]

IsOpen(s, id)   == id \in DOMAIN s.open
Defining(s, id) == s.open[id].mode # "data"
Dataset(s, id)  == s.open[id].dset
WithDataset(s, id, d) == [s EXCEPT !.open[id].dset = d]

\* The position of the element called n in a list of named elements; 0: none.
At(list, n) == LET hits == {i \in DOMAIN list : list[i].name = n}
               IN  IF hits = {} THEN 0 ELSE CHOOSE i \in hits : TRUE
IsVar(d, v)    == v \in 0 .. Len(d.vars) - 1
IsHolder(d, v) == v = NC_GLOBAL \/ IsVar(d, v)
Atts(d, v)     == IF v = NC_GLOBAL THEN d.atts ELSE d.vars[v + 1].atts
WithAtts(d, v, list) == IF v = NC_GLOBAL THEN [d EXCEPT !.atts = list]
                                         ELSE [d EXCEPT !.vars[v + 1].atts = list]
Length(d, i)   == IF d.dims[i + 1].len = NC_UNLIMITED THEN d.numrecs ELSE d.dims[i + 1].len
Shape(d, v)    == [j \in DOMAIN d.vars[v + 1].dims |-> Length(d, d.vars[v + 1].dims[j])]
IsRecord(d, v) == /\ d.vars[v + 1].dims # <<>>
                  /\ d.dims[d.vars[v + 1].dims[1] + 1].len = NC_UNLIMITED

EmptyDataset(fmt) == [dims |-> <<>>, vars |-> <<>>, atts |-> <<>>, numrecs |-> 0, fmt |-> fmt]

----------------------------------------------------------------------------
(* Files.                                                                  *)

nc_create(s, path, clobber, fmt) ==
  LET free == {i \in Ids : ~IsOpen(s, i)}
      id   == CHOOSE i \in free : \A j \in free : i <= j
  IN  IF free = {} THEN Fails(s, NC_ENFILE)
      ELSE IF ~clobber /\ s.disk[path] # NoFile THEN Fails(s, NC_EEXIST)
      ELSE LET h == [path |-> path, dset |-> EmptyDataset(fmt), saved |-> NoFile,
                     mode |-> "new", writable |-> TRUE, fill |-> TRUE]
           IN  Gives([s EXCEPT !.disk[path] = EmptyDataset(fmt),
                               !.open = [i \in DOMAIN s.open \cup {id} |->
                                            IF i = id THEN h ELSE s.open[i]]], id)

nc_open(s, path, write) ==
  LET free == {i \in Ids : ~IsOpen(s, i)}
      id   == CHOOSE i \in free : \A j \in free : i <= j
  IN  IF free = {} THEN Fails(s, NC_ENFILE)
      ELSE IF s.disk[path] = NoFile THEN Fails(s, ENOENT)
      ELSE LET h == [path |-> path, dset |-> s.disk[path], saved |-> NoFile,
                     mode |-> "data", writable |-> write, fill |-> TRUE]
           IN  Gives([s EXCEPT !.open = [i \in DOMAIN s.open \cup {id} |->
                                            IF i = id THEN h ELSE s.open[i]]], id)

Flushed(s, id)  == [s EXCEPT !.disk[s.open[id].path] = s.open[id].dset]
Released(s, id) == [s EXCEPT !.open = [i \in DOMAIN s.open \ {id} |-> s.open[i]]]

nc_redef(s, id) ==
  IF ~IsOpen(s, id) THEN Fails(s, NC_EBADID)
  ELSE IF ~s.open[id].writable THEN Fails(s, NC_EPERM)
  ELSE IF Defining(s, id) THEN Fails(s, NC_EINDEFINE)
  ELSE Gives([s EXCEPT !.open[id].mode = "redef", !.open[id].saved = s.open[id].dset], <<>>)

nc_enddef(s, id) ==
  IF ~IsOpen(s, id) THEN Fails(s, NC_EBADID)
  ELSE IF ~Defining(s, id) THEN Fails(s, NC_ENOTINDEFINE)
  ELSE Gives(Flushed([s EXCEPT !.open[id].mode = "data", !.open[id].saved = NoFile], id), <<>>)

nc_sync(s, id) ==
  IF ~IsOpen(s, id) THEN Fails(s, NC_EBADID)
  ELSE IF Defining(s, id) THEN Fails(s, NC_EINDEFINE)
  ELSE Gives(IF s.open[id].writable THEN Flushed(s, id) ELSE s, <<>>)

nc_close(s, id) ==
  IF ~IsOpen(s, id) THEN Fails(s, NC_EBADID)
  ELSE Gives(Released(IF s.open[id].writable THEN Flushed(s, id) ELSE s, id), <<>>)

nc_abort(s, id) ==
  IF ~IsOpen(s, id) THEN Fails(s, NC_EBADID)
  ELSE LET h == s.open[id]
       IN  Gives(Released(
             CASE h.mode = "new"   -> [s EXCEPT !.disk[h.path] = NoFile]
               [] h.mode = "redef" -> [s EXCEPT !.disk[h.path] = h.saved]
               [] OTHER            -> IF h.writable THEN Flushed(s, id) ELSE s, id), <<>>)

nc_set_fill(s, id, fill) ==
  IF ~IsOpen(s, id) THEN Fails(s, NC_EBADID)
  ELSE IF ~s.open[id].writable THEN Fails(s, NC_EPERM)
  ELSE IF fill \notin {0, 256} THEN Fails(s, NC_EINVAL)
  ELSE Gives([s EXCEPT !.open[id].fill = (fill = 0)], IF s.open[id].fill THEN 0 ELSE 256)

----------------------------------------------------------------------------
(* Dimensions, variables and attributes.                                   *)

Inquiry(s, id, ok, code, out) ==
  IF ~IsOpen(s, id) THEN Fails(s, NC_EBADID) ELSE IF ~ok THEN Fails(s, code) ELSE Gives(s, out)
Definition(s, id, must, fail, d) ==   \* fail: the code of a refusal, or 0
  IF ~IsOpen(s, id) THEN Fails(s, NC_EBADID)
  ELSE IF ~s.open[id].writable THEN Fails(s, NC_EPERM)
  ELSE IF must /\ ~Defining(s, id) THEN Fails(s, NC_ENOTINDEFINE)
  ELSE IF fail # NC_NOERR THEN Fails(s, fail)
  ELSE Gives(WithDataset(s, id, d.dset), d.out)

nc_def_dim(s, id, n, len) ==
  LET d == Dataset(s, id)
  IN  Definition(s, id, TRUE,
        IF At(d.dims, n) # 0 THEN NC_ENAMEINUSE
        ELSE IF len = NC_UNLIMITED /\ \E i \in DOMAIN d.dims : d.dims[i].len = NC_UNLIMITED
             THEN NC_EUNLIMIT ELSE NC_NOERR,
        [dset |-> [d EXCEPT !.dims = Append(@, [name |-> n, len |-> len])], out |-> Len(d.dims)])

nc_def_var(s, id, n, type, dims) ==
  LET d   == Dataset(s, id)
      new == [name |-> n, type |-> type, dims |-> dims, data |-> <<>>, atts |-> <<>>,
              deflate |-> <<0, 0, 0>>, chunks |-> <<>>]
  IN  Definition(s, id, TRUE,
        IF type \notin Types THEN NC_EBADTYPE
        ELSE IF At(d.vars, n) # 0 THEN NC_ENAMEINUSE
        ELSE IF \E j \in DOMAIN dims : dims[j] \notin 0 .. Len(d.dims) - 1 THEN NC_EBADDIM
        ELSE IF \E j \in DOMAIN dims : j > 1 /\ d.dims[dims[j] + 1].len = NC_UNLIMITED
             THEN NC_EUNLIMPOS ELSE NC_NOERR,
        [dset |-> [d EXCEPT !.vars = Append(@, new)], out |-> Len(d.vars)])

\* A new name is never longer than the old one, so that data mode allows it.
nc_rename_dim(s, id, i, n) ==
  LET d == Dataset(s, id)
  IN  Definition(s, id, FALSE,
        IF i \notin 0 .. Len(d.dims) - 1 THEN NC_EBADDIM
        ELSE IF At(d.dims, n) # 0 THEN NC_ENAMEINUSE ELSE NC_NOERR,
        [dset |-> [d EXCEPT !.dims[i + 1].name = n], out |-> <<>>])
nc_rename_var(s, id, v, n) ==
  LET d == Dataset(s, id)
  IN  Definition(s, id, FALSE,
        IF ~IsVar(d, v) THEN NC_ENOTVAR
        ELSE IF At(d.vars, n) # 0 THEN NC_ENAMEINUSE ELSE NC_NOERR,
        [dset |-> [d EXCEPT !.vars[v + 1].name = n], out |-> <<>>])
nc_rename_att(s, id, v, n, new) ==
  LET d == Dataset(s, id)
  IN  Definition(s, id, FALSE,
        IF ~IsHolder(d, v) THEN NC_ENOTVAR
        ELSE IF At(Atts(d, v), n) = 0 THEN NC_ENOTATT
        ELSE IF At(Atts(d, v), new) # 0 THEN NC_ENAMEINUSE ELSE NC_NOERR,
        [dset |-> WithAtts(d, v, [Atts(d, v) EXCEPT ![At(Atts(d, v), n)].name = new]),
         out |-> <<>>])
nc_del_att(s, id, v, n) ==
  LET d == Dataset(s, id)
  IN  Definition(s, id, TRUE,
        IF ~IsHolder(d, v) THEN NC_ENOTVAR
        ELSE IF At(Atts(d, v), n) = 0 THEN NC_ENOTATT ELSE NC_NOERR,
        [dset |-> WithAtts(d, v, RemoveAt(Atts(d, v), At(Atts(d, v), n))), out |-> <<>>])

\* A new attribute needs define mode, and so does a value longer than the old one.
StoreAtt(s, id, v, att) ==
  LET d == Dataset(s, id)  list == Atts(d, v)  i == At(list, att.name)
  IN  IF ~IsOpen(s, id) THEN Fails(s, NC_EBADID)
      ELSE Definition(s, id, IsHolder(d, v) /\ (IF i = 0 THEN TRUE ELSE Len(list[i].val) < Len(att.val)),
        IF IsHolder(d, v) THEN NC_NOERR ELSE NC_ENOTVAR,
        [dset |-> WithAtts(d, v, IF i = 0 THEN Append(list, att) ELSE [list EXCEPT ![i] = att]),
         out |-> <<>>])
nc_copy_att(s, id, v, n, id2, v2) ==
  IF ~IsOpen(s, id) THEN Fails(s, NC_EBADID)
  ELSE IF ~IsHolder(Dataset(s, id), v) THEN Fails(s, NC_ENOTVAR)
  ELSE LET list == Atts(Dataset(s, id), v)
       IN  IF At(list, n) = 0 THEN Fails(s, NC_ENOTATT) ELSE StoreAtt(s, id2, v2, list[At(list, n)])

nc_inq(s, id) ==
  LET d == Dataset(s, id)  u == {i \in DOMAIN d.dims : d.dims[i].len = NC_UNLIMITED}
  IN  Inquiry(s, id, TRUE, 0, <<Len(d.dims), Len(d.vars), Len(d.atts),
                               IF u = {} THEN -1 ELSE (CHOOSE i \in u : TRUE) - 1>>)
nc_inq_dim(s, id, i) ==
  Inquiry(s, id, i \in 0 .. Len(Dataset(s, id).dims) - 1, NC_EBADDIM,
          <<Dataset(s, id).dims[i + 1].name, Length(Dataset(s, id), i)>>)
nc_inq_dimid(s, id, n) ==
  Inquiry(s, id, At(Dataset(s, id).dims, n) # 0, NC_EBADDIM, At(Dataset(s, id).dims, n) - 1)
nc_inq_varid(s, id, n) ==
  Inquiry(s, id, At(Dataset(s, id).vars, n) # 0, NC_ENOTVAR, At(Dataset(s, id).vars, n) - 1)
nc_inq_var(s, id, v) ==   \* name, type, dimids, number of attributes
  Inquiry(s, id, IsVar(Dataset(s, id), v), NC_ENOTVAR,
          LET x == Dataset(s, id).vars[v + 1] IN <<x.name, x.type, x.dims, Len(x.atts)>>)
nc_inq_att(s, id, v, n) ==   \* the attribute
  LET d == Dataset(s, id)
  IN  IF ~IsOpen(s, id) THEN Fails(s, NC_EBADID)
      ELSE IF ~IsHolder(d, v) THEN Fails(s, NC_ENOTVAR)
      ELSE Inquiry(s, id, At(Atts(d, v), n) # 0, NC_ENOTATT, Atts(d, v)[At(Atts(d, v), n)])
nc_inq_attid(s, id, v, n) ==
  LET r == nc_inq_att(s, id, v, n)
  IN  IF r.st = NC_NOERR THEN Gives(s, At(Atts(Dataset(s, id), v), n) - 1) ELSE r
nc_inq_attname(s, id, v, k) ==
  LET d == Dataset(s, id)
  IN  IF ~IsOpen(s, id) THEN Fails(s, NC_EBADID)
      ELSE IF ~IsHolder(d, v) THEN Fails(s, NC_ENOTVAR)
      ELSE Inquiry(s, id, k \in 0 .. Len(Atts(d, v)) - 1, NC_ENOTATT, Atts(d, v)[k + 1].name)
nc_inq_format(s, id) == Inquiry(s, id, TRUE, 0, Dataset(s, id).fmt)

\* netCDF-4 storage settings: of a netCDF-4 dataset only, in define mode.
Setting(s, id, v, d) ==
  Definition(s, id, TRUE,
    IF Dataset(s, id).fmt # "netcdf4" THEN -111
    ELSE IF ~IsVar(Dataset(s, id), v) THEN NC_ENOTVAR ELSE NC_NOERR, [dset |-> d, out |-> <<>>])
nc_def_var_deflate(s, id, v, shuffle, deflate, level) ==
  Setting(s, id, v, [Dataset(s, id) EXCEPT !.vars[v + 1].deflate =
    <<shuffle, deflate, IF deflate = 0 THEN 0 ELSE level>>])
nc_def_var_chunking(s, id, v, chunks) ==   \* <<>>: contiguous
  Setting(s, id, v, [Dataset(s, id) EXCEPT !.vars[v + 1].chunks = chunks])

----------------------------------------------------------------------------
(* Data.  sel is [start, count, stride, imap]; the k-th element (from 0, in *)
(* the order of C) is found at the offset the imap gives in the buffer.     *)

Product(seq) == FoldLeft(LAMBDA a, b : a * b, 1, seq)
Index(k, count) == [j \in DOMAIN count |->
  (k \div Product(SubSeq(count, j + 1, Len(count)))) % count[j]]
RowMajor(count) == [j \in DOMAIN count |-> Product(SubSeq(count, j + 1, Len(count)))]
Cell(sel, k)   == [j \in DOMAIN sel.count |->
                    sel.start[j] + Index(k, sel.count)[j] * sel.stride[j]]
Offset(sel, k) == FoldLeft(LAMBDA a, b : a + b, 0,
                    [j \in DOMAIN sel.count |-> Index(k, sel.count)[j] * sel.imap[j]])
Elements(sel)  == 0 .. Product(sel.count) - 1

\* The conversions of C: towards zero, and round the range of the type; that of a
\* NaN to an integer is not defined.
Truncated(q) == IF q >= 0 THEN (q \div 4) * 4 ELSE -(((-q) \div 4) * 4)
Width(type)  == CASE type = NC_BYTE -> 256 [] type = NC_SHORT -> 65536
                  [] type = NC_CHAR -> 256 [] OTHER -> 0
Low(type)    == IF type = NC_CHAR THEN 0 ELSE -(Width(type) \div 2)
Integral(type) == type \in {NC_BYTE, NC_CHAR, NC_SHORT, NC_INT}
Cast(type, q) ==
  IF q \in {Fill, Undef} \/ ~Integral(type) THEN q
  ELSE IF q = NaN THEN Undef
  ELSE IF Width(type) = 0 THEN Truncated(q)
  ELSE 4 * (((Truncated(q) \div 4 - Low(type)) % Width(type)) + Low(type))
\* The type of a value in memory; "own": that of the variable itself.
Memory(type, mem) == CASE mem = "double" -> NC_DOUBLE [] mem = "float" -> NC_FLOAT
                       [] mem = "int" -> NC_INT [] mem = "short" -> NC_SHORT
                       [] mem = "schar" -> NC_BYTE [] mem = "own" -> type [] OTHER -> NC_CHAR
OutOfRange(type, q) == q \notin Marks /\ Integral(type) /\ Cast(type, q) # Truncated(q)
Mixed(type, mem) == mem # "own" /\ (type = NC_CHAR) # (mem = "text")

nc_put_att(s, id, v, n, type, mem, vals) ==
  IF ~IsOpen(s, id) THEN Fails(s, NC_EBADID)
  ELSE IF type \notin Types THEN Fails(s, NC_EBADTYPE)
  ELSE IF Mixed(type, mem) THEN Fails(s, NC_ECHAR)
  ELSE LET r == StoreAtt(s, id, v, [name |-> n, type |-> type,
                                    val |-> [i \in DOMAIN vals |-> Cast(type, vals[i])]])
       IN  IF r.st = NC_NOERR /\ \E i \in DOMAIN vals : OutOfRange(type, vals[i])
           THEN [r EXCEPT !.st = NC_ERANGE] ELSE r
\* The values in buf in memory.
Converted(s, type, buf) ==
  [s |-> s, out |-> [o \in DOMAIN buf |-> Cast(type, buf[o])],
   st |-> IF \E o \in DOMAIN buf : OutOfRange(type, buf[o]) THEN NC_ERANGE ELSE NC_NOERR]
AttIn(r, mem) ==
  IF r.st # NC_NOERR THEN r
  ELSE IF Mixed(r.out.type, mem) THEN Fails(r.s, NC_ECHAR)
  ELSE Converted(r.s, Memory(r.out.type, mem), r.out.val)
nc_get_att(s, id, v, n, mem) == AttIn(nc_inq_att(s, id, v, n), mem)

Refusal(s, id, v, mem, sel, write) ==
  LET d == Dataset(s, id)  shape == Shape(d, v)
      free(j) == write /\ j = 1 /\ IsRecord(d, v)
  IN  IF ~IsOpen(s, id) THEN NC_EBADID
      ELSE IF write /\ ~s.open[id].writable THEN NC_EPERM
      ELSE IF Defining(s, id) THEN NC_EINDEFINE
      ELSE IF ~IsVar(d, v) THEN NC_ENOTVAR
      ELSE IF Mixed(d.vars[v + 1].type, mem) THEN NC_ECHAR
      ELSE IF \E j \in DOMAIN shape : sel.stride[j] < 1 THEN NC_ESTRIDE
      ELSE IF \E j \in DOMAIN shape : ~free(j) /\ sel.start[j] + (IF sel.count[j] = 0 THEN 0 ELSE 1) > shape[j]
           THEN NC_EINVALCOORDS
      ELSE IF \E j \in DOMAIN shape : ~free(j) /\ sel.count[j] > 0
                /\ sel.start[j] + (sel.count[j] - 1) * sel.stride[j] >= shape[j] THEN NC_EEDGE
      ELSE NC_NOERR

Unless(s, bad, answer) == IF bad # NC_NOERR THEN Fails(s, bad) ELSE answer

\* buf: a function from offsets to values.
PutVar(s, id, v, mem, sel, buf) ==
  LET d     == Dataset(s, id)
      type  == d.vars[v + 1].type
      value == [k \in Elements(sel) |-> buf[Offset(sel, k)]]
      cells == {Cell(sel, k) : k \in Elements(sel)}
      old   == d.vars[v + 1].data
      data  == [c \in cells \cup DOMAIN old |->
                  IF c \in cells THEN Cast(type, value[CHOOSE k \in Elements(sel) : Cell(sel, k) = c])
                  ELSE old[c]]
      recs  == IF IsRecord(d, v) THEN {c[1] + 1 : c \in cells} \cup {d.numrecs} ELSE {d.numrecs}
      d2    == [d EXCEPT !.vars[v + 1].data = data,
                         !.numrecs = CHOOSE n \in recs : \A m \in recs : n >= m]
  IN  Unless(s, Refusal(s, id, v, mem, sel, TRUE),
        [s |-> WithDataset(s, id, d2), out |-> <<>>,
         st |-> IF \E k \in Elements(sel) : OutOfRange(type, value[k]) THEN NC_ERANGE ELSE NC_NOERR])

GetVar(s, id, v, mem, sel) ==   \* out: the buffer
  LET x    == Dataset(s, id).vars[v + 1]
      raw(k) == IF Cell(sel, k) \in DOMAIN x.data THEN x.data[Cell(sel, k)]
                ELSE IF s.open[id].fill THEN Fill ELSE Undef
      buf  == [o \in {Offset(sel, k) : k \in Elements(sel)} |->
                 raw(CHOOSE k \in Elements(sel) : Offset(sel, k) = o)]
  IN  Unless(s, Refusal(s, id, v, mem, sel, FALSE), Converted(s, Memory(x.type, mem), buf))

----------------------------------------------------------------------------
(* The netCDF-2 interface: a call that succeeds returns a value of its own   *)
(* (an id, the number of an attribute, 0 or 1), one that fails notes the     *)
(* status in ncerr and returns -1; with NC_FATAL among the options it ends   *)
(* the process.                                                             *)

NC_FATAL == 1
Noting(s, code) ==
  [disk |-> s.disk, open |-> s.open, opts |-> s.opts, err |-> code,
   dead |-> IF s.opts % 2 = NC_FATAL THEN "fatal" ELSE s.dead]
Two(r, value) ==
  IF r.st = NC_NOERR THEN [s |-> r.s, st |-> value, out |-> r.out]
  ELSE [s |-> Noting(r.s, r.st), st |-> -1, out |-> r.out]
TwoId(r) == Two(r, r.out)   \* the id that the call has given

nctypelen(type) == CASE type \in {NC_BYTE, NC_CHAR} -> 1 [] type = NC_SHORT -> 2
                     [] type \in {NC_INT, NC_FLOAT} -> 4 [] type = NC_DOUBLE -> 8 [] OTHER -> -1
\* The variables along the record dimension and the elements of a record of each.
ncrecinq(s, id) ==
  LET d == Dataset(s, id)
      ids == SetToSortSeq({v \in 0 .. Len(d.vars) - 1 : IsRecord(d, v)}, <)
  IN  Two(Inquiry(s, id, TRUE, 0, [i \in DOMAIN ids |->
        [v |-> ids[i], type |-> d.vars[ids[i] + 1].type, size |-> Product(Tail(Shape(d, ids[i])))]]), 0)
OneRecord(d, v, rec) ==
  LET shape == Shape(d, v)
  IN  [start |-> [j \in DOMAIN shape |-> IF j = 1 THEN rec ELSE 0],
       count |-> [j \in DOMAIN shape |-> IF j = 1 THEN 1 ELSE shape[j]],
       stride |-> [j \in DOMAIN shape |-> 1],
       imap  |-> RowMajor([j \in DOMAIN shape |-> IF j = 1 THEN 1 ELSE shape[j]])]
\* The record variables are written one after the other, up to a first failure:
\* r is what has become of the dataset.
Written(r, id) == [dset |-> Dataset(r.s, id), st |-> r.st]
ncrecput(s, id, rec, bufs) ==
  LET vars == ncrecinq(s, id).out
      put(r, i) == IF r.st # NC_NOERR THEN r
                   ELSE Written(PutVar(WithDataset(s, id, r.dset), id, vars[i].v, "own",
                                       OneRecord(r.dset, vars[i].v, rec), bufs[i]), id)
      r == FoldLeft(put, Written(Gives(s, <<>>), id), [i \in DOMAIN vars |-> i])
  IN  Two([s |-> WithDataset(s, id, r.dset), st |-> r.st, out |-> <<>>], 0)
AllRead(s, got) ==
  LET bad == {i \in DOMAIN got : got[i].st # NC_NOERR}
  IN  IF bad = {} THEN Gives(s, [i \in DOMAIN got |-> got[i].out])
      ELSE Fails(s, got[CHOOSE i \in bad : \A j \in bad : i <= j].st)
RecordsRead(s, id, vars, rec) ==
  AllRead(s, [i \in DOMAIN vars |->
                GetVar(s, id, vars[i].v, "own", OneRecord(Dataset(s, id), vars[i].v, rec))])
ncrecget(s, id, rec) == Two(RecordsRead(s, id, ncrecinq(s, id).out, rec), 0)
=============================================================================
