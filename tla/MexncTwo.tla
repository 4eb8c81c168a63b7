----------------------------- MODULE MexncTwo -----------------------------
(***************************************************************************)
(* The operations of mexnc that follow the netCDF-2 interface (netcdf2.c,  *)
(* handle_netcdf2_api), one operator per case of its switch.  Here a       *)
(* variable, a dimension or an attribute may be given by number or by name *)
(* and data are doubles, scaled by the attributes scale_factor and         *)
(* add_offset of the variable if the user asks for it.                     *)
(***************************************************************************)
EXTENDS Mexnc

CONSTANT Begins   \* names that begin like a parameter |-> that parameter

Double(a, k) == a[k].cls = "double"
NameLike(a, k) == a[k].cls \in {"char", "double"}

\* The last argument of an operation on data: scale the data?
Autoscale(a, k) == Len(a) >= k /\ Num(a, k) # 0

\* The names of parameters are compared in their first characters only.
Parameter(x) ==
  LET parms == {"BYTE", "CHAR", "CLOBBER", "DOUBLE", "FATAL", "FILL", "FLOAT", "GLOBAL", "INT", "LONG",
                "NOCLOBBER", "NOFILL", "NOWRITE", "SHORT", "UNLIMITED", "WRITE"}
  IN  IF x.cls # "char" THEN Num(<<x>>, 1)
      ELSE IF NcWord(x.v, parms) # Unknown THEN NcWord(x.v, parms)
      ELSE IF x.v \in DOMAIN Begins THEN ncconst[Begins[x.v]] ELSE -1

----------------------------------------------------------------------------
(* Numbers or names, before the switch.  A number is first taken for an     *)
(* empty name.                                                             *)

Found(r) == [s |-> r.s, id |-> r.st]
FoundOr(r, other) == [s |-> r.s, id |-> IF r.st = -1 THEN other ELSE r.out]
DimArg(s, a) ==   \* [s, id]
  IF Double(a, 2) THEN [s |-> s, id |-> Num(a, 2)]
  ELSE Found(TwoId(nc_inq_dimid(s, Num(a, 1), a[2].v)))
VarArg(s, a) ==
  FoundOr(TwoId(nc_inq_varid(s, Num(a, 1), IF Double(a, 2) THEN "" ELSE a[2].v)), Parameter(a[2]))
AttArg(x, a) ==   \* an attribute of the variable x.id
  IF Double(a, 3) THEN FoundOr(Two(nc_inq_attname(x.s, Num(a, 1), x.id, Num(a, 3)), Num(a, 3)), "")
  ELSE [s |-> x.s, id |-> a[3].v]

\* A handler h(state, id) of an operation on a variable, or h(state, id, name)
\* of one on an attribute.
WithId(x, h(_, _)) == h(x.s, x.id)
WithIds(x, y, h(_, _, _)) == h(y.s, x.id, y.id)
AttOfVar(x, a, h(_, _, _)) == WithIds(x, AttArg(x, a), h)
OnVar(s, a, h(_, _)) ==
  Checked(s, Double(a, 1) /\ NameLike(a, 2), WithId(VarArg(s, a), h))
OnAtt(s, a, h(_, _, _)) ==
  Checked(s, Double(a, 1) /\ NameLike(a, 2) /\ NameLike(a, 3), AttOfVar(VarArg(s, a), a, h))
OnDim(s, a, h(_, _)) ==
  Checked(s, Double(a, 1) /\ NameLike(a, 2), WithId(DimArg(s, a), h))

\* An id that says by itself whether the call has succeeded.
Id(r)     == Reply(r.s, <<r.st, IF r.st >= 0 THEN 0 ELSE r.st>>)
Status(r) == Reply(r.s, <<r.st>>)

----------------------------------------------------------------------------
(* Definitions and inquiries.                                              *)

ENDEF(s, a)   == Checked(s, Double(a, 1), Status(Two(nc_enddef(s, Num(a, 1)), 0)))
INQUIRE(s, nlhs, a) ==   \* one output: a row, of zeros if the call has failed
  LET r == Two(Inq(s, a), 0)   \* of the library: the id of the dataset, made 0
  IN  Checked(s, Double(a, 1), Reply(r.s,
        IF nlhs > 1 THEN Outs(r, 4) \o <<r.st>>
        ELSE <<IF r.st = -1 THEN <<0, 0, 0, 0, 0>> ELSE r.out \o <<0>>>>))
DIMDEF(s, a)  == Checked(s, Double(a, 1),
                         Id(TwoId(nc_def_dim(s, Num(a, 1), a[2].v, Parameter(a[3])))))
DIMID(s, a)   == Checked(s, Double(a, 1), Id(TwoId(nc_inq_dimid(s, Num(a, 1), a[2].v))))
DIMINQ(s, a)  == OnDim(s, a, LAMBDA t, d :
  LET r == Two(nc_inq_dim(t, Num(a, 1), d), d)
  IN  Reply(r.s, <<Named(r)>> \o Outs(Part(r, 2), 1) \o <<r.st>>))
DIMRENAME(s, a) == OnDim(s, a, LAMBDA t, d : Status(Two(nc_rename_dim(t, Num(a, 1), d, a[3].v), d)))

VARDEF(s, a) ==   \* the number of dimensions may be left to the list
  LET ndims == IF Num(a, 4) = -1 THEN Len(a[5].v) ELSE Num(a, 4)
  IN  Checked(s, Double(a, 1), Id(TwoId(nc_def_var(s, Num(a, 1), a[2].v, Parameter(a[3]),
                                                   SubSeq(a[5].v, 1, ndims)))))
VARID(s, a)  == Checked(s, Double(a, 1), Id(TwoId(nc_inq_varid(s, Num(a, 1), a[2].v))))
VARINQ(s, a) == OnVar(s, a, LAMBDA t, v :
  LET r == Two(nc_inq_var(t, Num(a, 1), v), v)
  IN  Reply(r.s, IF r.st = -1 THEN <<"", <<-1>>, <<-1>>, <<-1>>, <<-1>>, -1>>
                 ELSE <<r.out[1], <<r.out[2]>>, <<Len(r.out[3])>>, r.out[3], <<r.out[4]>>, r.st>>))
VARRENAME(s, a) == OnVar(s, a, LAMBDA t, v : Status(Two(nc_rename_var(t, Num(a, 1), v, a[3].v), v)))
\* Not implemented; the id of the other dataset is read all the same, where found
\* says what there is, if it was not given.
VARCOPY(s, a, found) == OnVar(s, a, LAMBDA t, v :
  IF Len(a) < 3 /\ found = "nothing" THEN Crash(t) ELSE Reply(t, <<-1, -1>>))

----------------------------------------------------------------------------
(* The conversion of data.  scale and offset are in quarters, too.          *)

\* The quotient in C, which drops the fraction.
Quotient(p, q) == IF p >= 0 THEN p \div q ELSE -((-p) \div q)
AddHalf(p, q)   == Quotient(2 * p + q, 2 * q)
m53_round(p, q) == IF p >= 0 THEN Quotient(2 * p + q, 2 * q) ELSE Quotient(2 * p - q, 2 * q)

NoScale == [scale |-> 4, offset |-> 0]
Factor(r, default) == [s |-> r.s, q |-> IF r.st = -1 THEN default ELSE r.out.val[1]]
NonZero(f, default) == IF f.q = 0 THEN [f EXCEPT !.q = default] ELSE f
Add_Offset(s, id, v)   == Factor(Two(nc_inq_att(s, id, v, "add_offset"), 1), 0)
Scale_Factor(s, id, v) == NonZero(Factor(Two(nc_inq_att(s, id, v, "scale_factor"), 1), 4), 4)
\* Both are asked for, in this order, in any case.
ScalingOf(o, f, wanted) ==
  [s |-> f.s, by |-> IF wanted THEN [scale |-> f.q, offset |-> o.q] ELSE NoScale]
ScalingFrom(o, id, v, wanted) == ScalingOf(o, Scale_Factor(o.s, id, v), wanted)
Scaling(s, id, v, wanted) == ScalingFrom(Add_Offset(s, id, v), id, v, wanted)

\* A value that is stored, one that is stored by VARPUTG and RECPUT, and a value read.
Stored(type, by, q) ==
  Cast(type, IF q \in Marks THEN q ELSE IF Integral(type) THEN 4 * m53_round(q - by.offset, by.scale)
             ELSE (4 * (q - by.offset)) \div by.scale)
StoredG(type, by, q) ==
  Cast(type, IF q \in Marks THEN q ELSE IF Integral(type) THEN 4 * AddHalf(q - by.offset, by.scale)
             ELSE (4 * (q - by.offset)) \div by.scale)
Loaded(by, q) == IF q \in Marks THEN q ELSE by.offset + (by.scale * q) \div 4

\* The first n values at the pointer to the data of x, which is NULL if there are
\* none.  Raw: they are no doubles, but are read as such; the same goes for what is
\* behind the end.
Given(x, raw, n) == [o \in 1 .. n |->
  IF x.v = <<>> THEN Missing ELSE IF raw \/ o > Len(x.v) THEN Undef ELSE x.v[o]]
AllCharsRaw(x, type) == x.cls = "char"
CharsRaw(x, type)    == x.cls = "char" /\ type # NC_CHAR   \* otherwise they are made numbers
\* m53_round asserts that its argument is in the range of a long, where no NaN is; a
\* build without assertions converts it to what it likes.  found = "nothing": the
\* process ends there, or where it reads what it should not.
Asserted(type) == IF Integral(type) THEN {Undef, NaN} ELSE {Undef}
Convert(s, given, bad, found, answer) ==
  IF \E o \in DOMAIN given : given[o] = Missing \/ (given[o] \in bad /\ found = "nothing")
  THEN Crash(s) ELSE answer

----------------------------------------------------------------------------
(* Data of a variable.                                                     *)

\* The count -1 stands for what is left of a dimension.
Counts(d, v, start, count) ==
  [j \in DOMAIN Shape(d, v) |-> IF count[j] = -1 THEN Shape(d, v)[j] - start[j] ELSE count[j]]
Slab(start, count, stride) ==
  [start |-> start, count |-> count, stride |-> stride, imap |-> RowMajor(count)]
Ones(list) == [j \in DOMAIN list |-> 1]
\* The buffer is made for the product of the counts, which is taken to be 0
\* without dimensions: the library then finds what is behind it.
Asked(count) == IF count = <<>> THEN 0 ELSE Product(count)
PutBuffer(count, given, f(_)) ==
  [o \in 0 .. Product(count) - 1 |-> IF count = <<>> THEN Undef ELSE f(given[o + 1])]
Data(x) == x.cls \in {"double", "char"}

\* h: what is done to a variable v of the type and shape that was inquired.
KnownType(r, by, h(_, _, _)) ==
  IF r.st = -1 THEN [s |-> r.s, end |-> "unknown", out |-> <<>>] ELSE h(r.s, r.out[2], by)
ScaledBy(x, id, v, h(_, _, _)) == KnownType(Two(nc_inq_var(x.s, id, v), v), x.by, h)
WithScale(s, id, v, wanted, h(_, _, _)) == ScaledBy(Scaling(s, id, v, wanted), id, v, h)
Otherwise(answer, out) == IF answer.end = "unknown" THEN Reply(answer.s, out) ELSE answer

VARPUT1(s, a, found) == OnVar(s, a, LAMBDA t, v :
  Checked(Scaling(t, Num(a, 1), v, FALSE).s, Data(a[4]), Otherwise(
    WithScale(t, Num(a, 1), v, Autoscale(a, 5), LAMBDA u, type, by :
      LET given == Given(a[4], CharsRaw(a[4], type), 1)
      IN  Convert(u, given, Asserted(type), found,
            Status(Two(PutVar(u, Num(a, 1), v, "own", Slab(a[3].v, Ones(a[3].v), Ones(a[3].v)),
                              [o \in {0} |-> Stored(type, by, given[1])]), 0)))), <<-1>>)))
\* The value is converted whether or not it was read: the buffer is a local variable.
OneLoaded(by, r) ==
  Reply(r.s, <<[size |-> <<1, 1>>, el |-> <<IF r.st = -1 THEN Undef ELSE Loaded(by, r.out[0])>>], 0>>)
VARGET1(s, a) == OnVar(s, a, LAMBDA t, v : Otherwise(
  WithScale(t, Num(a, 1), v, Autoscale(a, 4), LAMBDA u, type, by :
    OneLoaded(by, Two(GetVar(u, Num(a, 1), v, "own", Slab(a[3].v, Ones(a[3].v), Ones(a[3].v))), 0))),
  <<-1, -1>>))

VARPUT(s, a, found) == OnVar(s, a, LAMBDA t, v :
  Checked(Scaling(t, Num(a, 1), v, FALSE).s, Data(a[5]), Otherwise(
    WithScale(t, Num(a, 1), v, Autoscale(a, 6), LAMBDA u, type, by :
      LET count == Counts(Dataset(u, Num(a, 1)), v, a[3].v, a[4].v)
          given == Given(a[5], CharsRaw(a[5], type), Asked(count))
      IN  Convert(u, given, Asserted(type), found,
            Status(Two(PutVar(u, Num(a, 1), v, "own", Slab(a[3].v, count, Ones(count)),
                              PutBuffer(count, given, LAMBDA q : Stored(type, by, q))), 0)))), <<-1>>)))
\* Characters are read raw, and what goes into a variable of characters is made such.
VARPUTG(s, a, found) == OnVar(s, a, LAMBDA t, v : Otherwise(
  WithScale(t, Num(a, 1), v, Autoscale(a, 8), LAMBDA u, type, by :
    LET value == a[IF Len(a) > 6 THEN 7 ELSE 6]
        count == Counts(Dataset(u, Num(a, 1)), v, a[3].v, a[4].v)
        given == Given(value, type = NC_CHAR \/ value.cls = "char", Asked(count))
    IN  Checked(u, type = NC_CHAR \/ Data(value), Convert(u, given, {Undef}, found,
          Status(Two(PutVar(u, Num(a, 1), v, "own", Slab(a[3].v, count, a[5].v),
                            PutBuffer(count, given, LAMBDA q : StoredG(type, by, q))), 0))))), <<-1>>))

\* The number of rows divides the number of elements: a first count of 0 without
\* a later one above 1 is a division by zero.
DividesByZero(count) == count # <<>> /\ count[1] = 0 /\ \A j \in DOMAIN count : count[j] <= 1
Rows(count) == IF count = <<>> THEN <<1, 0>> ELSE IF Len(count) = 1 THEN <<1, count[1]>> ELSE Reverse(count)
Array(count, by, r) ==
  [size |-> Rows(count),
   el   |-> [i \in 1 .. Product(Rows(count)) |-> IF r.st = -1 THEN by.offset ELSE Loaded(by, r.out[i - 1])]]
Loading(s, anyway, count, by, r) ==   \* anyway: also if the library has failed
  IF DividesByZero(count) THEN Crash(s)
  ELSE Checked(r.s, anyway \/ r.st # -1, Reply(r.s, <<Array(count, by, r), 0>>))
VARGET(s, a) == OnVar(s, a, LAMBDA t, v : Otherwise(
  WithScale(t, Num(a, 1), v, Autoscale(a, 5), LAMBDA u, type, by :
    LET count == Counts(Dataset(u, Num(a, 1)), v, a[3].v, a[4].v)
    IN  Loading(u, FALSE, count, by,
                Two(GetVar(u, Num(a, 1), v, "own", Slab(a[3].v, count, Ones(count))), 0))), <<-1, -1>>))
\* The status of the library is overwritten by that of the conversion.
VARGETG(s, a) == OnVar(s, a, LAMBDA t, v : Otherwise(
  WithScale(t, Num(a, 1), v, Autoscale(a, 7), LAMBDA u, type, by :
    LET count == Counts(Dataset(u, Num(a, 1)), v, a[3].v, a[4].v)
    IN  Loading(u, TRUE, count, by,
                Two(GetVar(u, Num(a, 1), v, "own", Slab(a[3].v, count, a[5].v)), 0))), <<-1, -1>>))

----------------------------------------------------------------------------
(* Attributes.                                                             *)

ATTPUT(s, a, found) == OnAtt(s, a, LAMBDA t, v, n :
  LET type  == Parameter(a[4])
      len   == IF Num(a, 5) <= -1 THEN Len(a[6].v) ELSE Num(a, 5)
      given == Given(a[6], CharsRaw(a[6], type), len)
  IN  IF nctypelen(type) = -1 THEN Reply(t, <<-1>>)
      ELSE Convert(t, given, {Undef}, found,
             Status(Two(StoreAtt(t, Num(a, 1), v, [name |-> n, type |-> type,
                          val |-> [i \in DOMAIN given |-> Cast(type, given[i])]]), 0))))
ATTINQ(s, a) == OnAtt(s, a, LAMBDA t, v, n :
  Call(Two(Attribute(nc_inq_att(t, Num(a, 1), v, n), LAMBDA x : <<x.type, Len(x.val)>>), 1), 2))
ATTGET(s, a) == OnAtt(s, a, LAMBDA t, v, n :
  LET r == Two(nc_inq_att(t, Num(a, 1), v, n), 1)
  IN  Reply(r.s, IF r.st = -1 THEN <<-1, -1>> ELSE <<r.out.val, 0>>))
\* The name of the variable of the copy is looked up in the dataset of the original.
ATTCOPY(s, a) == OnAtt(s, a, LAMBDA t, v, n :
  LET outvar == IF a[5].cls # "char" THEN [s |-> t, id |-> Num(a, 5)]
                ELSE Found(TwoId(nc_inq_varid(t, Num(a, 1), a[5].v)))
  IN  Status(Two(nc_copy_att(outvar.s, Num(a, 1), v, n, Num(a, 4), outvar.id), 0)))
ATTNAME(s, a) == OnVar(s, a, LAMBDA t, v :
  LET r == Two(nc_inq_attname(t, Num(a, 1), v, Num(a, 3)), Num(a, 3))
  IN  Reply(r.s, <<IF r.st = -1 THEN "" ELSE r.out, r.st>>))
RenameBack(s, a) == OnAtt(s, a, LAMBDA t, v, n :
  Status(Two(nc_rename_att(t, Num(a, 1), v, a[4].v, n), 1)))
ATTRENAME(s, a) == OnAtt(s, a, LAMBDA t, v, n :
  Status(Two(nc_rename_att(t, Num(a, 1), v, n, a[4].v), 1)))
ATTDEL(s, a) == OnAtt(s, a, LAMBDA t, v, n : Status(Two(nc_del_att(t, Num(a, 1), v, n), 1)))

----------------------------------------------------------------------------
(* Records: the values of all variables along the record dimension in a row. *)

SumOfSizes(vars) == FoldLeft(LAMBDA n, x : n + x.size, 0, vars)
NoneBefore(vars, i) == 0
Before(vars, i) == SumOfSizes(SubSeq(vars, 1, i - 1))
\* [s, by], a scaling for each variable.  Of a variable that exists an inquiry fails
\* only because it has no such attribute: what is noted is the same each time.
Scalings(s, id, vars, wanted) ==
  LET of(i)  == Scaling(s, id, vars[i].v, TRUE)
      noting == {of(i).s : i \in {j \in DOMAIN vars : wanted}} \ {s}
  IN  [s  |-> IF noting = {} THEN s ELSE CHOOSE t \in noting : TRUE,
       by |-> [i \in DOMAIN vars |-> IF wanted THEN of(i).by ELSE NoScale]]

RecordStored(vars, with, given, a) ==
  Status(ncrecput(with.s, Num(a, 1), Num(a, 2), [i \in DOMAIN vars |-> [o \in 0 .. vars[i].size - 1 |->
           StoredG(vars[i].type, with.by[i], given[Before(vars, i) + o + 1])]]))
IntoRecord(q, a, found) ==
  LET n     == SumOfSizes(q.out)
      with  == Scalings(q.s, Num(a, 1), q.out, Autoscale(a, 4))
      given == Given(a[3], a[3].cls # "double", n)
  IN  IF q.st = -1 THEN Reply(q.s, <<-1>>)
      ELSE IF Len(a[3].v) < n THEN Reply(q.s, <<-1>>)
      ELSE Convert(with.s, given, {Undef}, found, RecordStored(q.out, with, given, a))
RECPUT(s, a, found) == Checked(s, Double(a, 1), IntoRecord(ncrecinq(s, Num(a, 1)), a, found))

RecordLoaded(vars, with, bufs) ==
  Reply(with.s, <<FlattenSeq([i \in DOMAIN vars |->
                    [o \in 1 .. vars[i].size |-> Loaded(with.by[i], bufs[i][o - 1])]]), 0>>)
RecordOf(vars, r, a) ==
  IF r.st = -1 THEN Reply(r.s, <<Missing, -1>>)
  ELSE RecordLoaded(vars, Scalings(r.s, Num(a, 1), vars, Autoscale(a, 3)), r.out)
FromRecord(q, a) ==   \* without record variables there is no status
  IF q.st = -1 THEN Reply(q.s, <<Missing, -1>>)
  ELSE IF q.out = <<>> THEN Reply(q.s, <<<<>>, Missing>>)
  ELSE RecordOf(q.out, ncrecget(q.s, Num(a, 1), Num(a, 2)), a)
RECGET(s, a) == Checked(s, Double(a, 1), FromRecord(ncrecinq(s, Num(a, 1)), a))
RECINQ(s, a) ==
  LET r == ncrecinq(s, Num(a, 1))
  IN  Checked(s, Double(a, 1), Reply(r.s,
        IF r.st = -1 THEN <<Missing, Missing, -1>>
        ELSE <<[i \in DOMAIN r.out |-> r.out[i].v], [i \in DOMAIN r.out |-> r.out[i].size], 0>>))

----------------------------------------------------------------------------
(* The library.                                                            *)

TYPELEN(s, a) ==
  LET len == nctypelen(Parameter(a[1])) IN Reply(s, <<len, IF len >= 0 THEN 0 ELSE 1>>)
\* The first argument, the id of the dataset, is taken for the mode as well.
SETFILL(s, a) ==
  LET r == TwoId(nc_set_fill(s, Num(a, 1), Num(a, 1)))
  IN  Checked(s, Double(a, 1), Reply(r.s, <<r.st, 0>>))
SETOPTS(s, a)   == Reply([s EXCEPT !.opts = Num(a, 1)], <<s.opts, 0>>)
ERR(s, a)       == Reply([s EXCEPT !.err = 0], <<s.err, 0>>)
PARAMETER(s, a) == Reply(s, IF a = <<>> THEN <<0, -1>> ELSE <<Parameter(a[1]), 0>>)

handle_netcdf2_api(s, name, nlhs, a, found) ==
  CASE name = "inquire" -> INQUIRE(s, nlhs, a)
    [] name = "endef" -> ENDEF(s, a) [] name = "dimdef" -> DIMDEF(s, a) [] name = "dimid" -> DIMID(s, a)
    [] name = "diminq" -> DIMINQ(s, a) [] name = "dimrename" -> DIMRENAME(s, a)
    [] name = "vardef" -> VARDEF(s, a) [] name = "varid" -> VARID(s, a) [] name = "varinq" -> VARINQ(s, a)
    [] name = "varrename" -> VARRENAME(s, a) [] name = "varcopy" -> VARCOPY(s, a, found)
    [] name = "varput1" -> VARPUT1(s, a, found) [] name = "varget1" -> VARGET1(s, a)
    [] name = "varput" -> VARPUT(s, a, found) [] name = "varget" -> VARGET(s, a)
    [] name = "varputg" -> VARPUTG(s, a, found) [] name = "vargetg" -> VARGETG(s, a)
    [] name = "attput" -> ATTPUT(s, a, found) [] name = "attinq" -> ATTINQ(s, a) [] name = "attget" -> ATTGET(s, a)
    [] name = "attcopy" -> ATTCOPY(s, a) [] name = "attname" -> ATTNAME(s, a)
    [] name = "attrename" -> ATTRENAME(s, a) [] name = "attdel" -> ATTDEL(s, a)
    [] name = "recput" -> RECPUT(s, a, found) [] name = "recget" -> RECGET(s, a) [] name = "recinq" -> RECINQ(s, a)
    [] name = "typelen" -> TYPELEN(s, a) [] name = "setfill" -> SETFILL(s, a)
    [] name = "setopts" -> SETOPTS(s, a) [] name = "err" -> ERR(s, a)
    [] name = "parameter" -> PARAMETER(s, a)
=============================================================================
