---------------------------- MODULE MexncGateway ----------------------------
(***************************************************************************)
(* mexnc as a whole: the calls a MATLAB session makes, one after the other, *)
(* on the same library state (mexgateway.c).  A call is a record: how the   *)
(* name of the operation is spelled, the name, the type in the name, the    *)
(* number of outputs, the arguments behind the name, and found: what the    *)
(* call finds where the code reads what nobody has set, or asserts what does *)
(* not hold.  With "nothing" the process ends there.                        *)
(***************************************************************************)
EXTENDS MexncTwo

CONSTANTS Paths,      \* the files there can be
          Calls,      \* the calls that are made
          Scripts,    \* the sequences of calls that sessions begin with
          MaxCalls,   \* bound on the calls after those
          Twins,      \* pairs of a netCDF-2 call and a netCDF-3 call for the same thing
          Values      \* values to be written to a scaled variable

VARIABLES nc,         \* the state of the library
          todo,       \* what is left of the script the session begins with
          calls       \* the number of calls after it

vars == <<nc, todo, calls>>

Commands == Calls \cup UNION {ToSet(script) : script \in Scripts}

----------------------------------------------------------------------------
(* The table of operations: the least number of arguments, the name among   *)
(* them, and the largest number of outputs.                                 *)

Takes(nrhs, nlhs, names) == {[name |-> n, nrhs |-> nrhs, nlhs |-> nlhs] : n \in names}
Table == UNION {
  Takes(1, 1, {"end_def", "enddef", "redef", "inq_libvers", "inq_unlimdim", "strerror", "endef", "err", "parameter"}),
  Takes(1, 2, {"get_mexnc_info"}),
  Takes(2, 1, {"abort", "close", "sync", "setopts"}),
  Takes(2, 2, {"create", "open", "inq_ndims", "inq_nvars", "inq_natts", "typelen"}),
  Takes(2, 3, {"recinq"}), Takes(2, 5, {"inq", "inquire"}),
  Takes(3, 2, {"get_var", "inq_dimid", "inq_dimlen", "inq_dimname", "inq_varid", "inq_varname", "inq_vartype",
               "inq_varndims", "inq_vardimid", "inq_varnatts", "set_fill", "dimid", "varid", "varcopy", "recget",
               "setfill"}),
  Takes(3, 3, {"inq_dim", "inq_var_chunking", "diminq"}),
  Takes(3, 4, {"inq_var_deflate"}), Takes(3, 6, {"inq_var", "varinq"}),
  Takes(4, 1, {"del_att", "put_var", "rename_dim", "rename_var", "dimrename", "varrename", "attdel", "recput"}),
  Takes(4, 2, {"def_dim", "get_att", "get_var1", "inq_attid", "inq_attlen", "inq_attname", "inq_atttype", "dimdef",
               "varget1", "attget", "attname"}),
  Takes(4, 3, {"_create", "_open", "inq_att", "attinq"}),
  Takes(5, 1, {"def_var_chunking", "_enddef", "put_var1", "rename_att", "varput1", "attrename"}),
  Takes(5, 2, {"get_vara", "varget"}),
  Takes(6, 1, {"copy_att", "def_var_deflate", "put_vara", "varput", "attcopy"}),
  Takes(6, 2, {"def_var", "get_vars", "vardef", "vargetg"}),
  Takes(7, 1, {"put_att", "put_vars", "varputg", "attput"}), Takes(7, 2, {"get_varm"}), Takes(8, 1, {"put_varm"}) }
ops == [n \in {x.name : x \in Table} |-> CHOOSE x \in Table : x.name = n]

\* First "nc" is taken off, then "nc_": of "nc_open" the underscore is left.
opname2opcode(spell, name) ==
  LET rest == IF spell # <<>> THEN Tail(spell) ELSE spell
      left == IF Len(rest) >= 2 /\ SubSeq(rest, 1, 2) = <<"nc", "_">> THEN SubSeq(rest, 3, Len(rest)) ELSE rest
  IN  CASE left = <<>> -> name [] left = <<"_">> -> "_" \o name [] OTHER -> Unknown

\* Where an argument may be empty; a char argument always may.
MayBeEmpty == {<<"attput", 6>>, <<"def_var", 5>>, <<"vardef", 5>>, <<"def_var_chunking", 4>>, <<"vargetg", 6>>,
               <<"varputg", 6>>, <<"varputg", 7>>, <<"varput1", 4>>, <<"varput", 5>>}
check_other_args_for_empty_set(name, a) ==
  \A i \in DOMAIN a : a[i].cls # "char" => a[i].v # <<>> \/ <<name, i>> \in MayBeEmpty

DataOp(name, mem) ==
  [mem |-> mem, kind |-> CASE name \in {"get_var", "put_var"} -> "var" [] name \in {"get_var1", "put_var1"} -> "var1"
                           [] name \in {"get_vara", "put_vara"} -> "vara" [] name \in {"get_vars", "put_vars"} -> "vars"
                           [] OTHER -> "varm"]

Dispatch(s, name, c) ==
  LET a == c.a  op == DataOp(name, c.mem)
  IN  CASE name = "get_mexnc_info"  -> Reply(s, <<"release", "date">>)
        [] name = "inq_libvers"     -> Reply(s, <<"version">>)
        [] name = "abort"           -> handle_nc_abort(s, a)
        [] name = "close"           -> handle_nc_close(s, a)
        [] name = "copy_att"        -> handle_nc_copy_att(s, a)
        [] name = "_create"         -> handle_nc__create(s, a)
        [] name = "create"          -> handle_nc_create(s, a)
        [] name = "def_dim"         -> handle_nc_def_dim(s, a)
        [] name = "def_var"         -> handle_nc_def_var(s, a)
        [] name = "def_var_chunking" -> handle_nc_def_var_chunking(s, a)
        [] name = "def_var_deflate" -> handle_nc_def_var_deflate(s, a)
        [] name = "del_att"         -> handle_nc_del_att(s, a)
        [] name = "_enddef"         -> handle_nc__enddef(s, a)
        [] name \in {"end_def", "enddef"} -> handle_nc_enddef(s, a)
        [] name = "get_att"         -> handle_nc_get_att(s, op, a)
        [] name \in {"get_var", "get_var1", "get_vara", "get_vars"} -> handle_nc_get_var_x(s, op, a)
        [] name = "get_varm"        -> handle_nc_get_varm_x(s, op, a)
        [] name = "inq"             -> handle_nc_inq(s, a)
        [] name = "inq_ndims"       -> handle_nc_inq_ndims(s, a)
        [] name = "inq_nvars"       -> handle_nc_inq_nvars(s, a)
        [] name = "inq_natts"       -> handle_nc_inq_natts(s, a)
        [] name = "inq_att"         -> handle_nc_inq_att(s, a)
        [] name = "inq_attid"       -> handle_nc_inq_attid(s, a)
        [] name = "inq_attlen"      -> handle_nc_inq_attlen(s, a)
        [] name = "inq_attname"     -> handle_nc_inq_attname(s, a)
        [] name = "inq_atttype"     -> handle_nc_inq_atttype(s, a)
        [] name = "inq_dim"         -> handle_nc_inq_dim(s, a)
        [] name = "inq_dimid"       -> handle_nc_inq_dimid(s, a)
        [] name = "inq_dimlen"      -> handle_nc_inq_dimlen(s, a)
        [] name = "inq_dimname"     -> handle_nc_inq_dimname(s, a)
        [] name = "inq_var"         -> handle_nc_inq_var(s, a)
        [] name = "inq_var_chunking" -> handle_nc_inq_var_chunking(s, a)
        [] name = "inq_var_deflate" -> handle_nc_inq_var_deflate(s, a, c.found)
        [] name = "inq_varname"     -> handle_nc_inq_varname(s, a)
        [] name = "inq_vartype"     -> handle_nc_inq_vartype(s, a)
        [] name = "inq_varndims"    -> handle_nc_inq_varndims(s, a)
        [] name = "inq_vardimid"    -> handle_nc_inq_vardimid(s, a)
        [] name = "inq_varnatts"    -> handle_nc_inq_varnatts(s, a)
        [] name = "inq_unlimdim"    -> handle_nc_inq_unlimdim(s, a)
        [] name = "inq_varid"       -> handle_nc_inq_varid(s, a)
        [] name = "_open"           -> handle_nc__open(s, a)
        [] name = "open"            -> handle_nc_open(s, a)
        [] name = "put_att"         -> handle_nc_put_att(s, op, a)
        [] name \in {"put_var", "put_var1", "put_vara", "put_vars"} -> handle_nc_put_var_x(s, op, a)
        [] name = "put_varm"        -> handle_nc_put_varm_x(s, op, a)
        [] name = "redef"           -> handle_nc_redef(s, a)
        [] name = "rename_att"      -> handle_nc_rename_att(s, a)
        [] name = "rename_dim"      -> handle_nc_rename_dim(s, a)
        [] name = "rename_var"      -> handle_nc_rename_var(s, a)
        [] name = "set_fill"        -> handle_nc_set_fill(s, a)
        [] name = "strerror"        -> handle_nc_strerror(s, a)
        [] name = "sync"            -> handle_nc_sync(s, a)
        [] OTHER                    -> handle_netcdf2_api(s, name, c.nlhs, a, c.found)

KeepingFatal(s) == s
WithoutFatal(s) ==
  IF Flag(s.opts, NC_FATAL)
  THEN [disk |-> s.disk, open |-> s.open, opts |-> s.opts - NC_FATAL, err |-> s.err, dead |-> s.dead]
  ELSE s
mexFunction(s, c) ==
  LET t    == WithoutFatal(s)
      name == opname2opcode(c.spell, c.op)
  IN  Checked(t, /\ name \in DOMAIN ops
                 /\ ops[name].nrhs <= Len(c.a) + 1
                 /\ c.nlhs <= ops[name].nlhs
                 /\ check_other_args_for_empty_set(name, c.a),
              Dispatch(t, name, c))

----------------------------------------------------------------------------
(* A session.                                                              *)

\* The code takes as many elements of a list as the variable has dimensions:
\* shorter lists are not given.  v is the variable the code will take.
RankLists == [get_var1 |-> {3}, get_vara |-> {3, 4}, get_vars |-> {3, 4, 5}, put_var1 |-> {3}, put_vara |-> {3, 4},
              put_vars |-> {3, 4, 5}, put_varm |-> 3 .. 6, varput1 |-> {3}, varget1 |-> {3}, varput |-> {3, 4},
              varget |-> {3, 4}, varputg |-> {3, 4, 5}, vargetg |-> {3, 4, 5}]
Fits(s, c) ==
  LET name == opname2opcode(c.spell, c.op)
      d == Dataset(s, Num(c.a, 1))
      v == IF NameLike(c.a, 2) THEN VarArg(s, c.a).id ELSE Num(c.a, 2)
  IN  name \in DOMAIN RankLists /\ IsOpen(s, Num(c.a, 1)) /\ IsVar(d, v)
        => \A k \in RankLists[name] : Len(c.a[k].v) = Len(Shape(d, v))

\* Any argument of SETOPTS is taken for a whole number (Scalar2Int).
ASSUME SessionsAssumption ==
  /\ Scripts \subseteq Seq(Commands)
  /\ \A c \in Commands : opname2opcode(c.spell, c.op) = "setopts" => Num(c.a, 1) \in Int

\* The options of the netCDF-2 interface are NC_FATAL and NC_VERBOSE (2) at first.
Fresh == [disk |-> [p \in Paths |-> NoFile], open |-> <<>>, err |-> 0, opts |-> 3, dead |-> "no"]

Init == nc = Fresh /\ todo \in Scripts /\ calls = 0
Issue(c) == /\ nc.dead = "no"
            /\ Fits(nc, c)
            /\ nc' = mexFunction(nc, c).s
Prepare == /\ todo # <<>>
           /\ Issue(Head(todo))
           /\ todo' = Tail(todo)
           /\ UNCHANGED calls
Operation(c) == /\ todo = <<>> /\ calls < MaxCalls
                /\ Issue(c)
                /\ calls' = calls + 1
                /\ UNCHANGED todo
Next == Prepare \/ \E c \in Calls : Operation(c)
Spec == Init /\ [][Next]_vars

----------------------------------------------------------------------------
(* Properties.                                                             *)

Names(list)   == {list[i].name : i \in DOMAIN list}
Unique(list)  == Cardinality(Names(list)) = Len(list)
Assigned(att) == Undef \notin {att.val[i] : i \in DOMAIN att.val}
DatasetOK(d) ==
  /\ Unique(d.dims) /\ Unique(d.vars) /\ Unique(d.atts)
  /\ \A i \in DOMAIN d.atts : Assigned(d.atts[i])
  /\ \A v \in 0 .. Len(d.vars) - 1 : LET x == d.vars[v + 1] IN
       /\ x.type \in Types /\ Unique(x.atts) /\ \A i \in DOMAIN x.atts : Assigned(x.atts[i])
       /\ \A j \in DOMAIN x.dims : x.dims[j] \in 0 .. Len(d.dims) - 1
       /\ \A cell \in DOMAIN x.data : \A j \in DOMAIN x.dims : cell[j] \in 0 .. Shape(d, v)[j] - 1
\* Every dataset, open or on disk, is one: names are unique, variables lie on
\* dimensions that exist, attributes have got values.
TypeOK == /\ nc.err \in Int /\ nc.opts \in Nat
          /\ \A i \in DOMAIN nc.open : i \in Ids /\ DatasetOK(nc.open[i].dset)
          /\ \A p \in Paths : nc.disk[p] # NoFile => DatasetOK(nc.disk[p])

FilesOf(s) == <<s.disk, s.open>>
Possible   == {c \in Calls : Fits(nc, c)}
Operations2 == {"inquire", "endef", "dimdef", "dimid", "diminq", "dimrename", "vardef", "varid", "varinq",
                "varrename", "varcopy", "varput1", "varget1", "varput", "varget", "varputg", "vargetg", "attput",
                "attinq", "attget", "attcopy", "attname", "attrename", "attdel", "recput", "recget", "recinq",
                "typelen", "setfill", "setopts", "err", "parameter"}
\* The status of netCDF-3 is zero when all went well, that of netCDF-2 is not below.
Succeeds(op, r) ==
  r.end = "reply" /\ IF op \in Operations2 THEN Last(r.out) \in Nat ELSE Last(r.out) = NC_NOERR

\* SETOPTS may set the option NC_FATAL between any two calls; still no error of the
\* netCDF-2 library ends MATLAB.
NoErrorIsFatal == nc.dead # "fatal"

\* A call that raises an error in MATLAB has changed nothing in any file.
KeepsFiles(r)   == r.end = "error" => FilesOf(r.s) = FilesOf(nc)
RaisesKeepFiles == \A c \in Possible : KeepsFiles(mexFunction(nc, c))

\* An output of an operation is never what happened to be in memory when the status,
\* the last output, says that all went well.
StatusElsewhere == {"get_mexnc_info", "inquire", "varget1", "vargetg", "recget", "setfill"}
Meaningful(op, r) == r.end = "reply" /\ Len(r.out) > 1 /\ Succeeds(op, r)
                   => \A i \in 1 .. Len(r.out) - 1 : r.out[i] \notin {Undef, NaN, Missing}
NoGarbage == \A c \in Possible : c.op \notin StatusElsewhere => Meaningful(c.op, mexFunction(nc, c))

\* The same thing asked for through the netCDF-2 and the netCDF-3 operations
\* has the same effect on the files, and succeeds or fails alike.
Agree(t, r, q) == FilesOf(r.s) = FilesOf(q.s) /\ (Succeeds(t[1].op, r) <=> Succeeds(t[2].op, q))
TwoApisAgree == \A t \in Twins : Fits(nc, t[1]) /\ Fits(nc, t[2])
                  => Agree(t, mexFunction(nc, t[1]), mexFunction(nc, t[2]))

Arg(n)      == [cls |-> "double", v |-> <<n>>]
List(seq)   == [cls |-> "double", v |-> seq]
Do(op, mem, a) == [spell |-> <<>>, op |-> op, mem |-> mem, nlhs |-> 1, a |-> a, found |-> "other"]
Answer(s, op, mem, a) == mexFunction(s, Do(op, mem, a))
Everywhere(P(_, _)) ==   \* of the open datasets that are not being defined, and their variables
  \A i \in DOMAIN nc.open : \A v \in 0 .. Len(nc.open[i].dset.vars) - 1 : ~Defining(nc, i) => P(i, v)
Zeros(i, v)  == [j \in DOMAIN Shape(Dataset(nc, i), v) |-> 0]

\* A number written to a scaled variable of an integer type is read back within
\* half a scale.
First(i, v)     == <<Arg(i), Arg(v), List(Zeros(i, v)), List(Ones(Zeros(i, v)))>>
Within(get, q, scale) == Succeeds("varget", get) /\ 2 * (get.out[1].el[1] - q) \in -scale .. scale
ReadBack(put, i, v, q) ==
  Succeeds("varput", put) => Within(Answer(put.s, "varget", "", First(i, v) \o <<Arg(1)>>), q,
                          Scaling(nc, i, v, TRUE).by.scale)
ScaledRoundTrip == Everywhere(LAMBDA i, v : Dataset(nc, i).vars[v + 1].type = NC_SHORT =>
  \A q \in Values : ReadBack(Answer(nc, "varput", "", First(i, v) \o <<Arg(q), Arg(1)>>), i, v, q))

\* MATLAB's array has the dimensions of the variable in reverse: the element with
\* subscripts i, j is that of the cell [j, i].
Element(x, sub) == x.el[1 + FoldLeft(LAMBDA n, j : n + (sub[j] - 1) * Product(SubSeq(x.size, 1, j - 1)), 0,
                                     [j \in DOMAIN sub |-> j])]
CellValue(d, v, c) == IF c \in DOMAIN d.vars[v + 1].data THEN d.vars[v + 1].data[c] ELSE Fill
Matrix(d, v) == Len(Shape(d, v)) = 2 /\ d.vars[v + 1].type # NC_CHAR
Reversed(r, d, v, shape) ==
  /\ Succeeds("get_var", r) /\ r.out[1].size = <<shape[2], shape[1]>>
  /\ \A x \in 1 .. shape[2] : \A t \in 1 .. shape[1] :
       Element(r.out[1], <<x, t>>) = CellValue(d, v, <<t - 1, x - 1>>)
ShapeReversed == Everywhere(LAMBDA i, v : LET d == Dataset(nc, i) IN
  Matrix(d, v) /\ nc.open[i].fill
    => Reversed(Answer(nc, "get_var", "double", <<Arg(i), Arg(v)>>), d, v, Shape(d, v)))

\* With the index map of the transposed array get_varm gives just that: the
\* dimensions in the order of the dataset.
Transposed(r, d, v, shape) ==
  /\ Succeeds("get_varm", r) /\ r.out[1].size = shape
  /\ \A t \in 1 .. shape[1] : \A x \in 1 .. shape[2] :
       Element(r.out[1], <<t, x>>) = CellValue(d, v, <<t - 1, x - 1>>)
VarmTransposes == Everywhere(LAMBDA i, v : LET d == Dataset(nc, i)  shape == Shape(d, v) IN
  Matrix(d, v) /\ shape[1] > 0 /\ nc.open[i].fill
    => Transposed(Answer(nc, "get_varm", "double",
                         <<Arg(i), Arg(v), List(Zeros(i, v)), List(shape), List(Ones(shape)), List(<<1, shape[1]>>)>>),
                  d, v, shape))

\* What RECPUT has written RECGET reads, for values from zero up and without a
\* scale: the values of each variable are found behind those of the one before.
Gets(get, values) == Succeeds("recget", get) /\ get.out[1] = values
Recorded(put, i, values) == Succeeds("recput", put) => Gets(Answer(put.s, "recget", "", <<Arg(i), Arg(0)>>), values)
RecordRoundTrip == \A i \in DOMAIN nc.open : ~Defining(nc, i) /\ ncrecinq(nc, i).out # <<>> =>
  LET values == [k \in 1 .. SumOfSizes(ncrecinq(nc, i).out) |-> 4 * k]
  IN  Recorded(Answer(nc, "recput", "", <<Arg(i), Arg(0), List(values)>>), i, values)
=============================================================================
