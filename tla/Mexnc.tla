------------------------------- MODULE Mexnc -------------------------------
(***************************************************************************)
(* The handlers of the netCDF-3 and netCDF-4 operations of mexnc           *)
(* (netcdf3.c, netcdf4.c) with the helpers they share (common.c).          *)
(*                                                                         *)
(* A handler takes the state s of the library and the arguments a behind   *)
(* the name of the operation, a[k] being prhs[k] = [cls, v], and returns   *)
(* [s, end, out]: the new state, whether it replied, raised an error or     *)
(* ended the process, and the outputs plhs.  v is the list of the values of an array, or a    *)
(* name; names of constants are in capital letters.  op.mem is the type in *)
(* the name of an operation on data.                                       *)
(***************************************************************************)
EXTENDS Netcdf

CONSTANTS Unknown,        \* Unknown: a name that is not that of a constant
          Missing,        \* an output, or status, that is not assigned, or empty
          MaxVarDims      \* NC_MAX_VAR_DIMS

Error(s)              == [s |-> s, end |-> "error", out |-> <<>>]
Reply(s, out)         == [s |-> s, end |-> "reply", out |-> out]
Crash(s)              == [s |-> [s EXCEPT !.dead = "crash"], end |-> "crash", out |-> <<>>]
Checked(s, ok, answer) == IF ok THEN answer ELSE Error(s)

\* check_numeric_argument_type lets everything pass that is not char.
Numeric(a, ks) == \A k \in ks : a[k].cls # "char"
Chars(a, ks)   == \A k \in ks : a[k].cls = "char"
ModeLike(a, k) == a[k].cls \in {"char", "double"}
Num(a, k)      == a[k].v[1]

\* What is in the n local variables after a call that may not have set them.
Outs(r, n) == IF r.out = Undef THEN [i \in 1 .. n |-> Undef]
              ELSE IF n = 1 THEN <<r.out>> ELSE r.out
CallUnchecked(r, n) == Reply(r.s, Outs(r, n) \o <<NC_NOERR>>)
Call(r, n) == Reply(r.s, Outs(r, n) \o <<r.st>>)
Part(r, i) == IF r.out = Undef THEN r ELSE [r EXCEPT !.out = r.out[i]]

----------------------------------------------------------------------------
(* Constants given by name.                                                *)

NC_WRITE == 1
NC_NOCLOBBER == 4
NC_CLASSIC_MODEL == 256
NC_NETCDF4 == 4096
NC_CONTIGUOUS == 1
Flag(mode, bit) == (mode \div bit) % 2 = 1

ncconst == [NAT |-> 0, BYTE |-> NC_BYTE, CHAR |-> NC_CHAR, SHORT |-> NC_SHORT, INT |-> NC_INT,
            LONG |-> NC_INT, FLOAT |-> NC_FLOAT, DOUBLE |-> NC_DOUBLE,
            CLOBBER |-> 0, NOCLOBBER |-> NC_NOCLOBBER, NOWRITE |-> 0, WRITE |-> NC_WRITE,
            NETCDF4 |-> NC_NETCDF4, CLASSIC_MODEL |-> NC_CLASSIC_MODEL,
            FATAL |-> NC_FATAL, FILL |-> 0, NOFILL |-> 256, GLOBAL |-> NC_GLOBAL,
            UNLIMITED |-> NC_UNLIMITED, CONTIGUOUS |-> NC_CONTIGUOUS, CHUNKED |-> 0]

NcWord(name, words) ==   \* with the prefix NC_ or without it
  LET found == {w \in words : name \in {w, "NC_" \o w}}
  IN  IF found = {} THEN Unknown ELSE ncconst[CHOOSE w \in found : TRUE]

interpret_char_parameter(name) == NcWord(name, DOMAIN ncconst)
unpack_char_file_mode(name)    == NcWord(name, {"CLOBBER", "NOCLOBBER", "WRITE", "NOWRITE"})

\* One character of the prefix is left over, so that it is not allowed here.
unpackDataType(x) ==
  IF x.cls # "char" THEN Num(<<x>>, 1)
  ELSE IF x.v \in {"NAT", "BYTE", "CHAR", "SHORT", "INT", "LONG", "FLOAT", "DOUBLE"}
       THEN ncconst[x.v] ELSE Unknown

CharOrNumber(x) == IF x.cls = "char" THEN interpret_char_parameter(x.v) ELSE x.v[1]
FileMode(a, default) ==
  IF Len(a) # 2 THEN default
  ELSE IF a[2].cls = "char" THEN unpack_char_file_mode(a[2].v)
  ELSE IF a[2].cls = "double" THEN Num(a, 2) ELSE Unknown

----------------------------------------------------------------------------
(* Files.                                                                  *)

\* The two forms with a leading underscore read the mode as a number even if it
\* is char, which is not defined: calls that do so are left out.
Create(s, path, cmode) ==
  nc_create(s, path, ~Flag(cmode, NC_NOCLOBBER), IF Flag(cmode, NC_NETCDF4) THEN "netcdf4" ELSE "classic")

handle_nc_create(s, a) ==
  LET cmode == FileMode(a, NC_NOCLOBBER)
  IN  Checked(s, Chars(a, {1}) /\ cmode \notin {Unknown, NC_NETCDF4},
              Call(Create(s, a[1].v, cmode), 1))
handle_nc__create(s, a) ==   \* the chunk size is an output only
  LET r == Create(s, a[1].v, Num(a, 2))
  IN  Checked(s, Chars(a, {1}) /\ ModeLike(a, 2) /\ Numeric(a, {3}),
              Reply(r.s, <<IF r.st = NC_NOERR THEN "chunksize" ELSE Undef>> \o Outs(r, 1) \o <<r.st>>))
handle_nc_open(s, a) ==
  LET mode == FileMode(a, 0)
  IN  Checked(s, Chars(a, {1}) /\ mode # Unknown, Call(nc_open(s, a[1].v, Flag(mode, NC_WRITE)), 1))
handle_nc__open(s, a) ==   \* the hint is an input, too
  LET r == nc_open(s, a[1].v, Flag(Num(a, 2), NC_WRITE))
  IN  Checked(s, Chars(a, {1}) /\ ModeLike(a, 2) /\ Numeric(a, {3}),
              Reply(r.s, <<IF r.st = NC_NOERR THEN "chunksize" ELSE Num(a, 3)>> \o Outs(r, 1) \o <<r.st>>))
handle_nc_close(s, a)  == Checked(s, Numeric(a, {1}), Call(nc_close(s, Num(a, 1)), 0))
handle_nc_abort(s, a)  == Checked(s, Numeric(a, {1}), Call(nc_abort(s, Num(a, 1)), 0))
handle_nc_sync(s, a)   == Checked(s, Numeric(a, {1}), Call(nc_sync(s, Num(a, 1)), 0))
handle_nc_redef(s, a)  == Checked(s, Numeric(a, {1}), Call(nc_redef(s, Num(a, 1)), 0))
handle_nc_enddef(s, a) == Checked(s, Numeric(a, {1}), Call(nc_enddef(s, Num(a, 1)), 0))
\* The four sizes only lay out the file.
handle_nc__enddef(s, a)  == Checked(s, Numeric(a, 1 .. 5), Call(nc_enddef(s, Num(a, 1)), 0))
handle_nc_set_fill(s, a) ==
  Checked(s, Numeric(a, {1, 2}), Call(nc_set_fill(s, Num(a, 1), Num(a, 2)), 1))
handle_nc_strerror(s, a) == Checked(s, Numeric(a, {1}), Reply(s, <<<<"message", Num(a, 1)>>>>))

----------------------------------------------------------------------------
(* Dimensions.                                                             *)

handle_nc_def_dim(s, a) ==
  LET length == CharOrNumber(a[3])
  IN  Checked(s, Numeric(a, {1}) /\ Chars(a, {2}) /\ length # Unknown,
              Call(nc_def_dim(s, Num(a, 1), a[2].v, length), 1))
handle_nc_rename_dim(s, a) ==
  Checked(s, Numeric(a, {1, 2}) /\ Chars(a, {3}),
          Call(nc_rename_dim(s, Num(a, 1), Num(a, 2), a[3].v), 0))

DimOf(s, a)  == nc_inq_dim(s, Num(a, 1), Num(a, 2))
\* The buffer of a name that was not returned is an empty string.
Named(r)     == IF r.out = Undef THEN "" ELSE r.out[1]
handle_nc_inq_dim(s, a) ==
  Checked(s, Numeric(a, {1, 2}),
          Reply(s, <<Named(DimOf(s, a))>> \o Outs(Part(DimOf(s, a), 2), 1) \o <<DimOf(s, a).st>>))
handle_nc_inq_dimname(s, a) ==
  Checked(s, Numeric(a, {1, 2}), Reply(s, <<Named(DimOf(s, a)), DimOf(s, a).st>>))
handle_nc_inq_dimlen(s, a) == Checked(s, Numeric(a, {1, 2}), Call(Part(DimOf(s, a), 2), 1))
handle_nc_inq_dimid(s, a)  ==
  Checked(s, Numeric(a, {1}) /\ Chars(a, {2}), Call(nc_inq_dimid(s, Num(a, 1), a[2].v), 1))

Inq(s, a) == nc_inq(s, Num(a, 1))
handle_nc_inq(s, a)          == Checked(s, Numeric(a, {1}), Call(Inq(s, a), 4))
handle_nc_inq_ndims(s, a)    == Checked(s, Numeric(a, {1}), Call(Part(Inq(s, a), 1), 1))
handle_nc_inq_nvars(s, a)    == Checked(s, Numeric(a, {1}), Call(Part(Inq(s, a), 2), 1))
handle_nc_inq_natts(s, a)    == Checked(s, Numeric(a, {1}), Call(Part(Inq(s, a), 3), 1))
handle_nc_inq_unlimdim(s, a) == Checked(s, Numeric(a, {1}), Call(Part(Inq(s, a), 4), 1))

----------------------------------------------------------------------------
(* Variables.                                                              *)

def_var_checked_late(s, a) ==
  LET r == nc_def_var(s, Num(a, 1), a[2].v, NC_INT, a[5].v)
  IN  IF Num(a, 4) = Len(a[5].v) THEN Call(r, 1) ELSE Error(r.s)
handle_nc_def_var(s, a) ==
  LET datatype == CharOrNumber(a[3])
      ndims    == Num(a, 4)
  IN  Checked(s, /\ Numeric(a, {1, 4, 5}) /\ Chars(a, {2}) /\ datatype # Unknown
                 /\ ndims <= MaxVarDims /\ ndims = Len(a[5].v),
              Call(nc_def_var(s, Num(a, 1), a[2].v, datatype, a[5].v), 1))
handle_nc_rename_var(s, a) ==
  Checked(s, Numeric(a, {1, 2}) /\ Chars(a, {3}),
          Call(nc_rename_var(s, Num(a, 1), Num(a, 2), a[3].v), 0))
handle_nc_inq_varid(s, a) ==
  Checked(s, Numeric(a, {1}) /\ Chars(a, {2}), Call(nc_inq_varid(s, Num(a, 1), a[2].v), 1))

VarOf(s, a) == nc_inq_var(s, Num(a, 1), Num(a, 2))
handle_nc_inq_var(s, a) ==   \* a status above zero would be passed off as a success
  LET r == VarOf(s, a)
  IN  Checked(s, Numeric(a, {1, 2}), Reply(s,
        IF r.st < 0 THEN <<"", <<-1>>, <<-1>>, <<-1>>, <<-1>>, r.st>>
        ELSE <<r.out[1], <<r.out[2]>>, <<Len(r.out[3])>>, r.out[3], <<r.out[4]>>, r.st>>))
handle_nc_inq_varname(s, a) ==
  Checked(s, Numeric(a, {1, 2}), Reply(s, <<Named(VarOf(s, a)), VarOf(s, a).st>>))
handle_nc_inq_vartype(s, a) == Checked(s, Numeric(a, {1, 2}), Call(Part(VarOf(s, a), 2), 1))
handle_nc_inq_varndims(s, a) ==
  LET r == VarOf(s, a)
  IN  Checked(s, Numeric(a, {1, 2}),
              Call(IF r.st = NC_NOERR THEN [r EXCEPT !.out = Len(r.out[3])] ELSE r, 1))
handle_nc_inq_vardimid(s, a) ==
  LET r == VarOf(s, a)
  IN  Checked(s, Numeric(a, {1, 2}), Reply(s, <<IF r.st = NC_NOERR THEN r.out[3] ELSE NaN, r.st>>))
handle_nc_inq_varnatts(s, a) == Checked(s, Numeric(a, {1, 2}), Call(Part(VarOf(s, a), 4), 1))

\* netCDF-4: an inquiry inside the handler that fails raises an error.
handle_nc_def_var_chunking(s, a) ==
  LET storage == CharOrNumber(a[3])
      nelts   == Len(a[4].v)
  IN  Checked(s, /\ Numeric(a, {1, 2, 4}) /\ storage # Unknown /\ VarOf(s, a).st = NC_NOERR
                 /\ nelts <= MaxVarDims /\ ~(storage = NC_CONTIGUOUS /\ nelts > 0),
              Call(nc_def_var_chunking(s, Num(a, 1), Num(a, 2), a[4].v), 0))
handle_nc_inq_var_chunking(s, a) ==
  LET chunks == Dataset(s, Num(a, 1)).vars[Num(a, 2) + 1].chunks
  IN  IF ~(Numeric(a, {1, 2}) /\ nc_inq_format(s, Num(a, 1)).st = NC_NOERR) THEN Error(s)
      ELSE IF nc_inq_format(s, Num(a, 1)).out = "classic" THEN Reply(s, <<"contiguous", <<>>, Missing>>)
      ELSE Checked(s, VarOf(s, a).st = NC_NOERR, Reply(s,
             <<IF chunks = <<>> THEN "contiguous" ELSE "chunked", chunks, NC_NOERR>>))
handle_nc_def_var_deflate(s, a) ==
  Checked(s, Numeric(a, 1 .. 5),
          Call(nc_def_var_deflate(s, Num(a, 1), Num(a, 2), Num(a, 3), Num(a, 4), Num(a, 5)), 0))
\* The format it distinguishes by has not been asked for: found is what was there.
handle_nc_inq_var_deflate(s, a, found) ==
  LET r == VarOf(s, a)
  IN  Checked(s, Numeric(a, {1, 2}),
        IF found = "classic" THEN Reply(s, <<0, 0, 0, 0>>)
        ELSE Call(IF r.st # NC_NOERR THEN r
                  ELSE Gives(s, Dataset(s, Num(a, 1)).vars[Num(a, 2) + 1].deflate), 3))

----------------------------------------------------------------------------
(* Attributes.                                                             *)

handle_nc_put_att(s, op, a) ==
  LET datatype == unpackDataType(a[4])
      type     == IF op.mem = "text" THEN NC_CHAR ELSE datatype
  IN  Checked(s, Numeric(a, {1, 2}) /\ Chars(a, {3}) /\ datatype # Unknown,
              Call(nc_put_att(s, Num(a, 1), Num(a, 2), a[3].v, type, op.mem,
                              SubSeq(a[6].v, 1, Num(a, 5))), 0))
AttOf(s, a) == nc_inq_att(s, Num(a, 1), Num(a, 2), a[3].v)
\* The array is made before the value is asked for, of zeros.
AttValue(s, att, r) ==
  Reply(s, <<IF r.out = Undef THEN [i \in DOMAIN att.out.val |-> 0] ELSE r.out, r.st>>)
handle_nc_get_att(s, op, a) ==
  Checked(s, Numeric(a, {1, 2}) /\ Chars(a, {3}) /\ AttOf(s, a).st = NC_NOERR,
          AttValue(s, AttOf(s, a), nc_get_att(s, Num(a, 1), Num(a, 2), a[3].v, op.mem)))
handle_nc_copy_att(s, a) ==
  Checked(s, Numeric(a, {1, 2, 4, 5}) /\ Chars(a, {3}),
          Call(nc_copy_att(s, Num(a, 1), Num(a, 2), a[3].v, Num(a, 4), Num(a, 5)), 0))
handle_nc_del_att(s, a) ==
  Checked(s, Numeric(a, {1, 2}) /\ Chars(a, {3}), Call(nc_del_att(s, Num(a, 1), Num(a, 2), a[3].v), 0))
handle_nc_rename_att(s, a) ==
  Checked(s, Numeric(a, {1, 2}) /\ Chars(a, {3, 4}),
          Call(nc_rename_att(s, Num(a, 1), Num(a, 2), a[3].v, a[4].v), 0))
Attribute(r, f(_)) == IF r.st = NC_NOERR THEN [r EXCEPT !.out = f(r.out)] ELSE r
handle_nc_inq_att(s, a) ==
  LET r == AttOf(s, a)
  IN  Checked(s, Numeric(a, {1, 2}) /\ Chars(a, {3}), Reply(s,
        (IF r.st < 0 THEN <<NaN, NaN>> ELSE <<r.out.type, Len(r.out.val)>>) \o <<r.st>>))
handle_nc_inq_attlen(s, a) ==
  Checked(s, Numeric(a, {1, 2}) /\ Chars(a, {3}), Call(Attribute(AttOf(s, a), LAMBDA x : Len(x.val)), 1))
handle_nc_inq_atttype(s, a) ==
  Checked(s, Numeric(a, {1, 2}) /\ Chars(a, {3}), Call(Attribute(AttOf(s, a), LAMBDA x : x.type), 1))
handle_nc_inq_attid(s, a) ==
  Checked(s, Numeric(a, {1, 2}) /\ Chars(a, {3}), Call(nc_inq_attid(s, Num(a, 1), Num(a, 2), a[3].v), 1))
handle_nc_inq_attname(s, a) ==
  LET r == nc_inq_attname(s, Num(a, 1), Num(a, 2), Num(a, 3))
  IN  Checked(s, Numeric(a, {1, 2, 3}), Reply(s, <<IF r.st = NC_NOERR THEN r.out ELSE "", r.st>>))

----------------------------------------------------------------------------
(* Data.  An array is [size, el]: the elements el in storage order, the     *)
(* first index of size running fastest.                                     *)

\* Of VARA, VARS and VARM the user gives one, two or three more lists.
Selection(d, v, kind, a) ==
  LET shape == Shape(d, v)
      ones  == [j \in DOMAIN shape |-> 1]
      count == CASE kind = "var" -> shape [] kind = "var1" -> ones [] OTHER -> a[4].v
  IN  [start  |-> IF kind = "var" THEN [j \in DOMAIN shape |-> 0] ELSE a[3].v,
       count  |-> count,
       stride |-> IF kind \in {"vars", "varm"} THEN a[5].v ELSE ones,
       imap   |-> IF kind = "varm" THEN a[6].v ELSE RowMajor(count)]
Lists(kind) == CASE kind = "var" -> 0 [] kind = "var1" -> 1 [] kind = "vara" -> 2
                 [] kind = "vars" -> 3 [] kind = "varm" -> 4
DataArg(kind) == Lists(kind) + 3

matrix_rank_in_order(count) ==
  [j \in 1 .. (IF Len(count) < 2 THEN 2 ELSE Len(count)) |-> IF j > Len(count) THEN 1 ELSE count[j]]
set_output_matrix_rank(count) ==
  [j \in 1 .. (IF Len(count) < 2 THEN 2 ELSE Len(count)) |->
     IF j > Len(count) THEN 1 ELSE count[Len(count) - j + 1]]

varm_output_size_by_count(sel) == sel.count
\* From the slowest to the fastest distance in memory: how often each fits into
\* the one before.  A distance of 0 divides by zero.
determine_varm_output_size(sel) ==
  LET order == SortSeq([j \in DOMAIN sel.imap |-> j],
                 LAMBDA i, j : sel.imap[i] > sel.imap[j] \/ (sel.imap[i] = sel.imap[j] /\ i < j))
  IN  [j \in DOMAIN order |->
        (IF j = 1 THEN Product(sel.count) ELSE sel.imap[order[j - 1]]) \div sel.imap[order[j]]]

\* What is in an array of zeros after the library has filled the buffer.
Filled(size, r) == [size |-> size, el |-> [i \in 1 .. Product(size) |->
                      IF r.out # Undef /\ i - 1 \in DOMAIN r.out THEN r.out[i - 1] ELSE 0]]

\* Of a text of one character, a zero is taken for nothing.
Trimmed(op, array) ==
  IF op.kind = "var1" /\ op.mem = "text" /\ array.el = <<0>> THEN [size |-> <<0, 0>>, el |-> <<>>] ELSE array
ArrayRead(s, op, size, r) == Reply(s, <<Trimmed(op, Filled(size, r)), r.st>>)
handle_nc_get_var_x(s, op, a) ==
  LET sel  == Selection(Dataset(s, Num(a, 1)), Num(a, 2), op.kind, a)
      size == IF op.kind = "var1" THEN <<1, 1>> ELSE set_output_matrix_rank(sel.count)
  IN  Checked(s, Numeric(a, 1 .. Lists(op.kind) + 2) /\ VarOf(s, a).st = NC_NOERR,
              ArrayRead(s, op, size, GetVar(s, Num(a, 1), Num(a, 2), op.mem, sel)))

varm_coord_sanity_check(a, ndims) == \A k \in 3 .. 6 : Len(a[k].v) = ndims
handle_nc_get_varm_x(s, op, a) ==
  LET v      == Num(a, 2)
      sel    == Selection(Dataset(s, Num(a, 1)), v, "varm", a)
      result == determine_varm_output_size(sel)
  IN  IF ~(/\ Numeric(a, 1 .. 6) /\ VarOf(s, a).st = NC_NOERR
           /\ varm_coord_sanity_check(a, Len(VarOf(s, a).out[3]))) THEN Error(s)
      ELSE IF 0 \in ToSet(sel.imap) THEN Crash(s)
      ELSE Checked(s, \A j \in DOMAIN result : result[j] >= 1,
                   ArrayRead(s, op, set_output_matrix_rank(result),
                     GetVar(s, Num(a, 1), v, IF op.mem = "text" THEN "own" ELSE op.mem, sel)))

Buffer(x) == [o \in 0 .. Len(x.v) - 1 |-> x.v[o + 1]]
Put(s, op, a) ==
  PutVar(s, Num(a, 1), Num(a, 2), op.mem,
         Selection(Dataset(s, Num(a, 1)), Num(a, 2), op.kind, a), Buffer(a[DataArg(op.kind)]))
handle_nc_put_var_x(s, op, a) == Checked(s, Numeric(a, 1 .. Lists(op.kind) + 2), Call(Put(s, op, a), 0))
handle_nc_put_varm_x(s, op, a) == Checked(s, Numeric(a, 1 .. 6), Call(Put(s, op, a), 0))
=============================================================================
