------------------------- MODULE MexncGateway_proofs -------------------------
(* What mexnc promises whatever the files and the calls are: a call that      *)
(* raises an error leaves every file as it was, and no error of the netCDF-2  *)
(* library ends MATLAB by the option NC_FATAL (a call may still crash it, by  *)
(* what the code reads or divides by).  And what the rounding and the scaling *)
(* of the netCDF-2 interface promise, for every number, scale above zero and  *)
(* offset.                                                                    *)
EXTENDS MexncGateway, TLAPS

------------------------------------------------------------------------------
(* Rounding and scaling.                                                     *)

\* The division of C by a number above zero stays within one unit of the exact
\* quotient, on the side of zero.
LEMMA QuotientBounds ==
  ASSUME NEW p \in Int, NEW d \in Nat \ {0}
  PROVE  /\ Quotient(p, d) \in Int
         /\ p >= 0 => d * Quotient(p, d) <= p /\ p < d * Quotient(p, d) + d
         /\ p < 0  => p <= d * Quotient(p, d) /\ d * Quotient(p, d) - d < p
PROOF
<1>1. \A n \in Int : /\ n \div d \in Int
                     /\ d * (n \div d) <= n
                     /\ n < d * (n \div d) + d
  BY SMTT(30)
<1>2. CASE p >= 0
  BY <1>1, <1>2 DEF Quotient
<1>3. CASE p < 0
  <2>1. Quotient(p, d) = -((-p) \div d)
    BY <1>3 DEF Quotient
  <2> DEFINE k == (-p) \div d
  <2>2. k \in Int /\ d * k <= -p /\ -p < d * k + d
    BY <1>1
  <2>3. Quotient(p, d) = -k
    BY <2>1
  <2> HIDE DEF k
  <2>4. d * (-k) = -(d * k)
    BY <2>2, SMT
  <2> QED
    BY <1>3, <2>2, <2>3, <2>4
<1> QED
  BY <1>2, <1>3

\* The whole number m53_round (netcdf2.c:2268-2274) gives for p / q is a nearest one.
THEOREM RoundNearest ==
  ASSUME NEW p \in Int, NEW q \in Nat \ {0}
  PROVE  /\ m53_round(p, q) \in Int
         /\ -q <= 2 * (q * m53_round(p, q) - p)
         /\ 2 * (q * m53_round(p, q) - p) <= q
PROOF
<1> DEFINE r == m53_round(p, q)
<1>1. 2 * q \in Nat \ {0} /\ 2 * p + q \in Int /\ 2 * p - q \in Int
  OBVIOUS
<1>2. CASE p >= 0
  <2>1. r = Quotient(2 * p + q, 2 * q)
    BY <1>2 DEF m53_round
  <2>2. 2 * p + q >= 0
    BY <1>2
  <2>3. r \in Int /\ (2 * q) * r <= 2 * p + q /\ 2 * p + q < (2 * q) * r + 2 * q
    BY <1>1, <2>1, <2>2, QuotientBounds
  <2>4. (2 * q) * r = 2 * (q * r)
    BY <2>3
  <2> HIDE DEF r
  <2> QED
    BY <2>3, <2>4 DEF r
<1>3. CASE p < 0
  <2>1. r = Quotient(2 * p - q, 2 * q)
    BY <1>3 DEF m53_round
  <2>2. 2 * p - q < 0
    BY <1>3
  <2>3. r \in Int /\ 2 * p - q <= (2 * q) * r /\ (2 * q) * r - 2 * q < 2 * p - q
    BY <1>1, <2>1, <2>2, QuotientBounds
  <2>4. (2 * q) * r = 2 * (q * r)
    BY <2>3
  <2> QED
    BY <2>3, <2>4
<1> QED
  BY <1>2, <1>3

\* A number that VARPUT scales, rounds and stores in an integer type whose range it
\* does not leave is read by VARGET within half a scale (netcdf2.c:1688-1732 and
\* 1788-1833).
THEOREM ScaledReadBack ==
  ASSUME NEW type \in Types, Integral(type),
         NEW by \in [scale : Nat \ {0}, offset : Int], NEW q \in Int,
         ~OutOfRange(type, 4 * m53_round(q - by.offset, by.scale))
  PROVE  /\ -by.scale <= 2 * (Loaded(by, Stored(type, by, q)) - q)
         /\ 2 * (Loaded(by, Stored(type, by, q)) - q) <= by.scale
PROOF
<1> DEFINE r == m53_round(q - by.offset, by.scale)
           e == by.scale * r
<1>1. by.scale \in Nat \ {0} /\ by.offset \in Int /\ q - by.offset \in Int
  OBVIOUS
<1>2. r \in Int /\ -by.scale <= 2 * (e - (q - by.offset)) /\ 2 * (e - (q - by.offset)) <= by.scale
  BY <1>1, RoundNearest
<1>3. 4 * r \notin Marks /\ q \notin Marks
  BY <1>2, MarksAreNoNumbers
<1>4. Truncated(4 * r) = 4 * r
  BY <1>2 DEF Truncated
<1>5. Stored(type, by, q) = 4 * r
  <2>1. Stored(type, by, q) = Cast(type, 4 * r)
    BY <1>3 DEF Stored
  <2>2. Cast(type, 4 * r) = Truncated(4 * r)
    BY <1>3 DEF OutOfRange, Cast, Marks
  <2> QED
    BY <2>1, <2>2, <1>4
<1> HIDE DEF r
<1>6. e \in Int /\ by.scale * (4 * r) = 4 * e
  BY <1>1, <1>2
<1>7. Loaded(by, 4 * r) = by.offset + e
  <2>1. Loaded(by, 4 * r) = by.offset + (by.scale * (4 * r)) \div 4
    BY <1>3 DEF Loaded
  <2>2. (4 * e) \div 4 = e
    BY <1>6
  <2> QED
    BY <2>1, <2>2, <1>6
<1> HIDE DEF e
<1> QED
  BY <1>1, <1>2, <1>5, <1>6, <1>7

------------------------------------------------------------------------------
(* Errors.  Every handler is shown to be harmless by itself.                 *)

\* An answer that raises an error comes with the files there were in s.
Harmless(s, r) == r.end = "error" => FilesOf(r.s) = FilesOf(s)

\* The handlers of the netCDF-3 and netCDF-4 operations raise an error only where they
\* check their arguments, and until then they have made inquiries only (netcdf3.c).
LEMMA FileHandlers ==
  ASSUME NEW s, NEW a
  PROVE  /\ Harmless(s, handle_nc_create(s, a))
         /\ Harmless(s, handle_nc__create(s, a))
         /\ Harmless(s, handle_nc_open(s, a))
         /\ Harmless(s, handle_nc__open(s, a))
         /\ Harmless(s, handle_nc_close(s, a))
         /\ Harmless(s, handle_nc_abort(s, a))
         /\ Harmless(s, handle_nc_sync(s, a))
         /\ Harmless(s, handle_nc_redef(s, a))
         /\ Harmless(s, handle_nc_enddef(s, a))
         /\ Harmless(s, handle_nc__enddef(s, a))
         /\ Harmless(s, handle_nc_set_fill(s, a))
         /\ Harmless(s, handle_nc_strerror(s, a))
<1> USE DEF Harmless, Checked, Error, Reply, Call
<1>1. Harmless(s, handle_nc_create(s, a))
  BY DEF handle_nc_create
<1>2. Harmless(s, handle_nc__create(s, a))
  BY DEF handle_nc__create
<1>3. Harmless(s, handle_nc_open(s, a))
  BY DEF handle_nc_open
<1>4. Harmless(s, handle_nc__open(s, a))
  BY DEF handle_nc__open
<1>5. Harmless(s, handle_nc_close(s, a))
  BY DEF handle_nc_close
<1>6. Harmless(s, handle_nc_abort(s, a))
  BY DEF handle_nc_abort
<1>7. Harmless(s, handle_nc_sync(s, a))
  BY DEF handle_nc_sync
<1>8. Harmless(s, handle_nc_redef(s, a))
  BY DEF handle_nc_redef
<1>9. Harmless(s, handle_nc_enddef(s, a))
  BY DEF handle_nc_enddef
<1>10. Harmless(s, handle_nc__enddef(s, a))
  BY DEF handle_nc__enddef
<1>11. Harmless(s, handle_nc_set_fill(s, a))
  BY DEF handle_nc_set_fill
<1>12. Harmless(s, handle_nc_strerror(s, a))
  BY DEF handle_nc_strerror
<1> QED BY <1>1, <1>2, <1>3, <1>4, <1>5, <1>6, <1>7, <1>8, <1>9, <1>10, <1>11, <1>12

\* The same of the operations on dimensions and on the dataset.
LEMMA DimHandlers ==
  ASSUME NEW s, NEW a
  PROVE  /\ Harmless(s, handle_nc_def_dim(s, a))
         /\ Harmless(s, handle_nc_rename_dim(s, a))
         /\ Harmless(s, handle_nc_inq_dim(s, a))
         /\ Harmless(s, handle_nc_inq_dimname(s, a))
         /\ Harmless(s, handle_nc_inq_dimlen(s, a))
         /\ Harmless(s, handle_nc_inq_dimid(s, a))
         /\ Harmless(s, handle_nc_inq(s, a))
         /\ Harmless(s, handle_nc_inq_ndims(s, a))
         /\ Harmless(s, handle_nc_inq_nvars(s, a))
         /\ Harmless(s, handle_nc_inq_natts(s, a))
         /\ Harmless(s, handle_nc_inq_unlimdim(s, a))
<1> USE DEF Harmless, Checked, Error, Reply, Call
<1>1. Harmless(s, handle_nc_def_dim(s, a))
  BY DEF handle_nc_def_dim
<1>2. Harmless(s, handle_nc_rename_dim(s, a))
  BY DEF handle_nc_rename_dim
<1>3. Harmless(s, handle_nc_inq_dim(s, a))
  BY DEF handle_nc_inq_dim
<1>4. Harmless(s, handle_nc_inq_dimname(s, a))
  BY DEF handle_nc_inq_dimname
<1>5. Harmless(s, handle_nc_inq_dimlen(s, a))
  BY DEF handle_nc_inq_dimlen
<1>6. Harmless(s, handle_nc_inq_dimid(s, a))
  BY DEF handle_nc_inq_dimid
<1>7. Harmless(s, handle_nc_inq(s, a))
  BY DEF handle_nc_inq
<1>8. Harmless(s, handle_nc_inq_ndims(s, a))
  BY DEF handle_nc_inq_ndims
<1>9. Harmless(s, handle_nc_inq_nvars(s, a))
  BY DEF handle_nc_inq_nvars
<1>10. Harmless(s, handle_nc_inq_natts(s, a))
  BY DEF handle_nc_inq_natts
<1>11. Harmless(s, handle_nc_inq_unlimdim(s, a))
  BY DEF handle_nc_inq_unlimdim
<1> QED BY <1>1, <1>2, <1>3, <1>4, <1>5, <1>6, <1>7, <1>8, <1>9, <1>10, <1>11

\* The same of the operations on variables, and on their storage (netcdf4.c).
LEMMA VarHandlers ==
  ASSUME NEW s, NEW a, NEW found
  PROVE  /\ Harmless(s, handle_nc_def_var(s, a))
         /\ Harmless(s, handle_nc_rename_var(s, a))
         /\ Harmless(s, handle_nc_inq_varid(s, a))
         /\ Harmless(s, handle_nc_inq_var(s, a))
         /\ Harmless(s, handle_nc_inq_varname(s, a))
         /\ Harmless(s, handle_nc_inq_vartype(s, a))
         /\ Harmless(s, handle_nc_inq_varndims(s, a))
         /\ Harmless(s, handle_nc_inq_vardimid(s, a))
         /\ Harmless(s, handle_nc_inq_varnatts(s, a))
         /\ Harmless(s, handle_nc_def_var_chunking(s, a))
         /\ Harmless(s, handle_nc_inq_var_chunking(s, a))
         /\ Harmless(s, handle_nc_def_var_deflate(s, a))
         /\ Harmless(s, handle_nc_inq_var_deflate(s, a, found))
<1> USE DEF Harmless, Checked, Error, Reply, Call
<1>1. Harmless(s, handle_nc_def_var(s, a))
  BY DEF handle_nc_def_var
<1>2. Harmless(s, handle_nc_rename_var(s, a))
  BY DEF handle_nc_rename_var
<1>3. Harmless(s, handle_nc_inq_varid(s, a))
  BY DEF handle_nc_inq_varid
<1>4. Harmless(s, handle_nc_inq_var(s, a))
  BY DEF handle_nc_inq_var
<1>5. Harmless(s, handle_nc_inq_varname(s, a))
  BY DEF handle_nc_inq_varname
<1>6. Harmless(s, handle_nc_inq_vartype(s, a))
  BY DEF handle_nc_inq_vartype
<1>7. Harmless(s, handle_nc_inq_varndims(s, a))
  BY DEF handle_nc_inq_varndims
<1>8. Harmless(s, handle_nc_inq_vardimid(s, a))
  BY DEF handle_nc_inq_vardimid
<1>9. Harmless(s, handle_nc_inq_varnatts(s, a))
  BY DEF handle_nc_inq_varnatts
<1>10. Harmless(s, handle_nc_def_var_chunking(s, a))
  BY DEF handle_nc_def_var_chunking
<1>11. Harmless(s, handle_nc_inq_var_chunking(s, a))
  BY DEF handle_nc_inq_var_chunking
<1>12. Harmless(s, handle_nc_def_var_deflate(s, a))
  BY DEF handle_nc_def_var_deflate
<1>13. Harmless(s, handle_nc_inq_var_deflate(s, a, found))
  BY DEF handle_nc_inq_var_deflate
<1> QED BY <1>1, <1>2, <1>3, <1>4, <1>5, <1>6, <1>7, <1>8, <1>9, <1>10, <1>11, <1>12, <1>13

\* The same of the operations on attributes.
LEMMA AttHandlers ==
  ASSUME NEW s, NEW op, NEW a
  PROVE  /\ Harmless(s, handle_nc_put_att(s, op, a))
         /\ Harmless(s, handle_nc_get_att(s, op, a))
         /\ Harmless(s, handle_nc_copy_att(s, a))
         /\ Harmless(s, handle_nc_del_att(s, a))
         /\ Harmless(s, handle_nc_rename_att(s, a))
         /\ Harmless(s, handle_nc_inq_att(s, a))
         /\ Harmless(s, handle_nc_inq_attlen(s, a))
         /\ Harmless(s, handle_nc_inq_atttype(s, a))
         /\ Harmless(s, handle_nc_inq_attid(s, a))
         /\ Harmless(s, handle_nc_inq_attname(s, a))
<1> USE DEF Harmless, Checked, Error, Reply, Call, AttValue
<1>1. Harmless(s, handle_nc_put_att(s, op, a))
  BY DEF handle_nc_put_att
<1>2. Harmless(s, handle_nc_get_att(s, op, a))
  BY DEF handle_nc_get_att
<1>3. Harmless(s, handle_nc_copy_att(s, a))
  BY DEF handle_nc_copy_att
<1>4. Harmless(s, handle_nc_del_att(s, a))
  BY DEF handle_nc_del_att
<1>5. Harmless(s, handle_nc_rename_att(s, a))
  BY DEF handle_nc_rename_att
<1>6. Harmless(s, handle_nc_inq_att(s, a))
  BY DEF handle_nc_inq_att
<1>7. Harmless(s, handle_nc_inq_attlen(s, a))
  BY DEF handle_nc_inq_attlen
<1>8. Harmless(s, handle_nc_inq_atttype(s, a))
  BY DEF handle_nc_inq_atttype
<1>9. Harmless(s, handle_nc_inq_attid(s, a))
  BY DEF handle_nc_inq_attid
<1>10. Harmless(s, handle_nc_inq_attname(s, a))
  BY DEF handle_nc_inq_attname
<1> QED BY <1>1, <1>2, <1>3, <1>4, <1>5, <1>6, <1>7, <1>8, <1>9, <1>10

\* The same of the operations on data.
LEMMA DataHandlers ==
  ASSUME NEW s, NEW op, NEW a
  PROVE  /\ Harmless(s, handle_nc_get_var_x(s, op, a))
         /\ Harmless(s, handle_nc_get_varm_x(s, op, a))
         /\ Harmless(s, handle_nc_put_var_x(s, op, a))
         /\ Harmless(s, handle_nc_put_varm_x(s, op, a))
<1> USE DEF Harmless, Checked, Error, Reply, Call, ArrayRead, Crash
<1>1. Harmless(s, handle_nc_get_var_x(s, op, a))
  BY DEF handle_nc_get_var_x
<1>2. Harmless(s, handle_nc_get_varm_x(s, op, a))
  BY DEF handle_nc_get_varm_x
<1>3. Harmless(s, handle_nc_put_var_x(s, op, a))
  BY DEF handle_nc_put_var_x
<1>4. Harmless(s, handle_nc_put_varm_x(s, op, a))
  BY DEF handle_nc_put_varm_x
<1> QED BY <1>1, <1>2, <1>3, <1>4

\* The handlers of the netCDF-2 operations that check their arguments once, before
\* or after an inquiry, and reply from then on (netcdf2.c).
LEMMA PlainHandlers2 ==
  ASSUME NEW s, NEW nlhs, NEW a, NEW found
  PROVE  /\ Harmless(s, INQUIRE(s, nlhs, a))
         /\ Harmless(s, ENDEF(s, a))
         /\ Harmless(s, DIMDEF(s, a))
         /\ Harmless(s, DIMID(s, a))
         /\ Harmless(s, VARDEF(s, a))
         /\ Harmless(s, VARID(s, a))
         /\ Harmless(s, RECPUT(s, a, found))
         /\ Harmless(s, RECGET(s, a))
         /\ Harmless(s, RECINQ(s, a))
         /\ Harmless(s, TYPELEN(s, a))
         /\ Harmless(s, SETFILL(s, a))
         /\ Harmless(s, SETOPTS(s, a))
         /\ Harmless(s, ERR(s, a))
         /\ Harmless(s, PARAMETER(s, a))
<1> USE DEF Harmless, Checked, Error, Reply, Call, Status, Id,
            IntoRecord, RecordStored, FromRecord, RecordOf, RecordLoaded, Convert, Crash
<1>1. Harmless(s, INQUIRE(s, nlhs, a))
  BY DEF INQUIRE
<1>2. Harmless(s, ENDEF(s, a))
  BY DEF ENDEF
<1>3. Harmless(s, DIMDEF(s, a))
  BY DEF DIMDEF
<1>4. Harmless(s, DIMID(s, a))
  BY DEF DIMID
<1>5. Harmless(s, VARDEF(s, a))
  BY DEF VARDEF
<1>6. Harmless(s, VARID(s, a))
  BY DEF VARID
<1>7. Harmless(s, RECPUT(s, a, found))
  BY DEF RECPUT
<1>8. Harmless(s, RECGET(s, a))
  BY DEF RECGET
<1>9. Harmless(s, RECINQ(s, a))
  BY DEF RECINQ
<1>10. Harmless(s, TYPELEN(s, a))
  BY DEF TYPELEN
<1>11. Harmless(s, SETFILL(s, a))
  BY DEF SETFILL
<1>12. Harmless(s, SETOPTS(s, a))
  BY DEF SETOPTS
<1>13. Harmless(s, ERR(s, a))
  BY DEF ERR
<1>14. Harmless(s, PARAMETER(s, a))
  BY DEF PARAMETER
<1> QED BY <1>1, <1>2, <1>3, <1>4, <1>5, <1>6, <1>7, <1>8, <1>9, <1>10, <1>11, <1>12, <1>13, <1>14

\* The same of those that take a dimension, a variable or an attribute by its number or
\* its name.
LEMMA NamedHandlers2 ==
  ASSUME NEW s, NEW a, NEW found
  PROVE  /\ Harmless(s, DIMINQ(s, a))
         /\ Harmless(s, DIMRENAME(s, a))
         /\ Harmless(s, VARINQ(s, a))
         /\ Harmless(s, VARRENAME(s, a))
         /\ Harmless(s, VARCOPY(s, a, found))
         /\ Harmless(s, ATTPUT(s, a, found))
         /\ Harmless(s, ATTINQ(s, a))
         /\ Harmless(s, ATTGET(s, a))
         /\ Harmless(s, ATTCOPY(s, a))
         /\ Harmless(s, ATTNAME(s, a))
         /\ Harmless(s, ATTRENAME(s, a))
         /\ Harmless(s, ATTDEL(s, a))
<1> USE DEF Harmless, Checked, Error, Reply, Call, Status,
            OnDim, OnVar, OnAtt, WithId, WithIds, AttOfVar, Convert, Crash
<1>1. Harmless(s, DIMINQ(s, a))
  BY DEF DIMINQ
<1>2. Harmless(s, DIMRENAME(s, a))
  BY DEF DIMRENAME
<1>3. Harmless(s, VARINQ(s, a))
  BY DEF VARINQ
<1>4. Harmless(s, VARRENAME(s, a))
  BY DEF VARRENAME
<1>5. Harmless(s, VARCOPY(s, a, found))
  BY DEF VARCOPY
<1>6. Harmless(s, ATTPUT(s, a, found))
  BY DEF ATTPUT
<1>7. Harmless(s, ATTINQ(s, a))
  BY DEF ATTINQ
<1>8. Harmless(s, ATTGET(s, a))
  BY DEF ATTGET
<1>9. Harmless(s, ATTCOPY(s, a))
  BY DEF ATTCOPY
<1>10. Harmless(s, ATTNAME(s, a))
  BY DEF ATTNAME
<1>11. Harmless(s, ATTRENAME(s, a))
  BY DEF ATTRENAME
<1>12. Harmless(s, ATTDEL(s, a))
  BY DEF ATTDEL
<1> QED BY <1>1, <1>2, <1>3, <1>4, <1>5, <1>6, <1>7, <1>8, <1>9, <1>10, <1>11, <1>12

\* A call of the netCDF-2 library leaves the files to what it calls: it notes the
\* error at most.
LEMMA TwoLeavesFiles ==
  ASSUME NEW r, NEW value
  PROVE  FilesOf(Two(r, value).s) = FilesOf(r.s)
BY DEF Two, Noting, FilesOf

\* Inquiries and reading do not touch the state.
LEMMA InquiriesKeepState ==
  ASSUME NEW s, NEW id, NEW v, NEW n, NEW mem, NEW sel
  PROVE  /\ nc_inq_var(s, id, v).s = s
         /\ nc_inq_att(s, id, v, n).s = s
         /\ GetVar(s, id, v, mem, sel).s = s
<1> USE DEF Inquiry, Fails, Gives
<1>1. nc_inq_var(s, id, v).s = s
  BY DEF nc_inq_var
<1>2. nc_inq_att(s, id, v, n).s = s
  BY DEF nc_inq_att
<1>3. GetVar(s, id, v, mem, sel).s = s
  BY DEF GetVar, Unless, Converted
<1> QED BY <1>1, <1>2, <1>3

\* Looking for the variable leaves the files alone.
LEMMA VarArgLeavesFiles ==
  ASSUME NEW s, NEW a
  PROVE  FilesOf(VarArg(s, a).s) = FilesOf(s)
<1> DEFINE r == nc_inq_varid(s, Num(a, 1), IF Double(a, 2) THEN "" ELSE a[2].v)
<1>1. VarArg(s, a).s = Two(r, r.out).s
  BY DEF VarArg, FoundOr, TwoId
<1>2. r.s = s
  BY DEF nc_inq_varid, Inquiry, Fails, Gives
<1> QED BY <1>1, <1>2, TwoLeavesFiles

\* Looking for the scaling, which may note an error, leaves the files alone.
LEMMA ScalingLeavesFiles ==
  ASSUME NEW s, NEW id, NEW v, NEW wanted
  PROVE  FilesOf(Scaling(s, id, v, wanted).s) = FilesOf(s)
<1> DEFINE o == Add_Offset(s, id, v)
           f == Scale_Factor(o.s, id, v)
<1>1. FilesOf(o.s) = FilesOf(s)
  BY InquiriesKeepState, TwoLeavesFiles DEF Add_Offset, Factor
<1>2. ASSUME NEW t PROVE FilesOf(Scale_Factor(t, id, v).s) = FilesOf(t)
  <2> DEFINE g == Factor(Two(nc_inq_att(t, id, v, "scale_factor"), 1), 4)
  <2>1. FilesOf(g.s) = FilesOf(t)
    BY InquiriesKeepState, TwoLeavesFiles DEF Factor
  <2>2. NonZero(g, 4).s = g.s
    BY DEF NonZero, Factor
  <2> QED BY <2>1, <2>2 DEF Scale_Factor
<1>3. Scaling(s, id, v, wanted).s = f.s
  BY DEF Scaling, ScalingFrom, ScalingOf
<1> QED BY <1>1, <1>2, <1>3

\* The handlers that write scaled data check them before they write: behind the
\* inquiries, where the state is another one but the files are the same.
LEMMA ScaledHandlers2 ==
  ASSUME NEW s, NEW a, NEW found
  PROVE  /\ Harmless(s, VARPUT1(s, a, found)) /\ Harmless(s, VARGET1(s, a))
         /\ Harmless(s, VARPUT(s, a, found)) /\ Harmless(s, VARPUTG(s, a, found))
         /\ Harmless(s, VARGET(s, a)) /\ Harmless(s, VARGETG(s, a))
<1> DEFINE t == VarArg(s, a).s
           v == VarArg(s, a).id
           id == Num(a, 1)
           known(wanted) == Two(nc_inq_var(Scaling(t, id, v, wanted).s, id, v), v).s
           read(wanted, count, stride) ==
             Two(GetVar(known(wanted), id, v, "own", Slab(a[3].v, count, stride)), 0)
<1>1. \A wanted : /\ FilesOf(Scaling(t, id, v, wanted).s) = FilesOf(s)
                  /\ FilesOf(known(wanted)) = FilesOf(s)
                  /\ \A count, stride : FilesOf(read(wanted, count, stride).s) = FilesOf(s)
  BY VarArgLeavesFiles, ScalingLeavesFiles, InquiriesKeepState, TwoLeavesFiles
<1> USE DEF Harmless, OnVar, WithId, WithScale, ScaledBy, KnownType, Otherwise, Checked, Error, Reply, Status,
            Convert, Crash
<1>2. Harmless(s, VARPUT1(s, a, found))
  BY <1>1 DEF VARPUT1
<1>3. Harmless(s, VARGET1(s, a))
  BY <1>1 DEF VARGET1, OneLoaded
<1>4. Harmless(s, VARPUT(s, a, found))
  BY <1>1 DEF VARPUT
<1>5. Harmless(s, VARPUTG(s, a, found))
  BY <1>1 DEF VARPUTG
<1>6. Harmless(s, VARGET(s, a))
  BY <1>1 DEF VARGET, Loading
<1>7. Harmless(s, VARGETG(s, a))
  BY <1>1 DEF VARGETG, Loading
<1> QED BY <1>2, <1>3, <1>4, <1>5, <1>6, <1>7

\* The cases of the switch of handle_netcdf2_api.
Cases2 == {"inquire", "endef", "dimdef", "dimid", "diminq", "dimrename", "vardef", "varid", "varinq", "varrename",
           "varcopy", "varput1", "varget1", "varput", "varget", "varputg", "vargetg", "attput", "attinq", "attget",
           "attcopy", "attname", "attrename", "attdel", "recput", "recget", "recinq", "typelen", "setfill", "setopts",
           "err", "parameter"}

\* Every case of it is harmless.
LEMMA SwitchHarmless2 ==
  ASSUME NEW s, NEW nlhs, NEW a, NEW found, NEW name \in Cases2
  PROVE  Harmless(s, handle_netcdf2_api(s, name, nlhs, a, found))
BY PlainHandlers2, NamedHandlers2, ScaledHandlers2 DEF handle_netcdf2_api, Cases2

\* An operation that is in the table and has no case in the switch of mexFunction has
\* one in that of handle_netcdf2_api.
Files3 == {"_create", "create", "_open", "open", "close", "abort", "sync", "redef", "enddef", "end_def", "_enddef",
           "set_fill", "strerror", "get_mexnc_info", "inq_libvers"}
Dims3  == {"def_dim", "rename_dim", "inq_dim", "inq_dimname", "inq_dimlen", "inq_dimid", "inq", "inq_ndims",
           "inq_nvars", "inq_natts", "inq_unlimdim"}
Vars3  == {"def_var", "rename_var", "inq_varid", "inq_var", "inq_varname", "inq_vartype", "inq_varndims",
           "inq_vardimid", "inq_varnatts", "def_var_chunking", "inq_var_chunking", "def_var_deflate",
           "inq_var_deflate"}
Atts3  == {"put_att", "get_att", "copy_att", "del_att", "rename_att", "inq_att", "inq_attlen", "inq_atttype",
           "inq_attid", "inq_attname"}
Data3  == {"get_var", "get_var1", "get_vara", "get_vars", "get_varm", "put_var", "put_var1", "put_vara",
           "put_vars", "put_varm"}
Cases3 == Files3 \cup Dims3 \cup Vars3 \cup Atts3 \cup Data3

\* No operation of the table is without a case of a switch.
LEMMA EveryOperationHasACase == DOMAIN ops \subseteq Cases3 \cup Cases2
<1>1. SUFFICES ASSUME NEW x \in Table PROVE x.name \in Cases3 \cup Cases2
  BY DEF ops
<1>2. ASSUME NEW nrhs, NEW nlhs, NEW names, names \subseteq Cases3 \cup Cases2, x \in Takes(nrhs, nlhs, names)
      PROVE  x.name \in Cases3 \cup Cases2
  BY <1>2 DEF Takes
<1> QED BY <1>2 DEF Table, Cases3, Files3, Dims3, Vars3, Atts3, Data3, Cases2

\* The switch of mexFunction has a harmless case for every operation.
LEMMA SwitchHarmless ==
  ASSUME NEW s, NEW c, NEW name \in Cases3 \cup Cases2
  PROVE  Harmless(s, Dispatch(s, name, c))
<1> DEFINE op == DataOp(name, c.mem)
<1>1. CASE name \in Files3
  <2>1. Harmless(s, Reply(s, <<"release", "date">>)) /\ Harmless(s, Reply(s, <<"version">>))
    BY DEF Harmless, Reply
  <2> QED BY <1>1, <2>1, FileHandlers DEF Dispatch, Files3
<1>2. CASE name \in Dims3
  BY <1>2, DimHandlers DEF Dispatch, Dims3
<1>3. CASE name \in Vars3
  BY <1>3, VarHandlers DEF Dispatch, Vars3
<1>4. CASE name \in Atts3
  BY <1>4, AttHandlers DEF Dispatch, Atts3
<1>5. CASE name \in Data3
  BY <1>5, DataHandlers DEF Dispatch, Data3
<1>6. CASE name \in Cases2
  <2>1. Dispatch(s, name, c) = handle_netcdf2_api(s, name, c.nlhs, c.a, c.found)
    BY <1>6 DEF Dispatch, Cases2
  <2> QED BY <1>6, <2>1, SwitchHarmless2
<1> QED BY <1>1, <1>2, <1>3, <1>4, <1>5, <1>6 DEF Cases3

\* The lemma behind the theorem: in any state and for any call.
LEMMA CallHarmless ==
  ASSUME NEW s, NEW c
  PROVE  Harmless(s, mexFunction(s, c))
<1> DEFINE t == WithoutFatal(s)
           name == opname2opcode(c.spell, c.op)
<1>1. FilesOf(t) = FilesOf(s)
  BY DEF WithoutFatal, FilesOf
<1>2. Harmless(t, Error(t))
  BY DEF Harmless, Error
<1>3. name \in DOMAIN ops => Harmless(t, Dispatch(t, name, c))
  BY EveryOperationHasACase, SwitchHarmless
<1>4. Harmless(t, mexFunction(s, c))
  BY <1>2, <1>3 DEF mexFunction, Checked
<1> QED BY <1>1, <1>4 DEF Harmless

\* A call that raises an error in MATLAB has changed nothing in any file: what is on
\* disk and every open dataset are as they were (mexgateway.c, netcdf2.c, netcdf3.c,
\* netcdf4.c).
THEOREM ErrorsKeepFiles == Spec => []RaisesKeepFiles
<1>1. RaisesKeepFiles
  BY CallHarmless DEF RaisesKeepFiles, KeepsFiles, Harmless
<1> QED BY <1>1, PTL

------------------------------------------------------------------------------
(* Errors of the netCDF-2 library.                                           *)

\* Between two calls: no error has ended the process.  During a call NC_FATAL is not
\* among the options, so that none can.
Quiet(s) == /\ {"disk", "open", "err", "opts", "dead"} \subseteq DOMAIN s
            /\ s.dead # "fatal" /\ s.opts \in Int
Calm(s)  == Quiet(s) /\ s.opts % 2 # NC_FATAL

\* A call of the library, and a handler, begun in s.
Calmly(s, r)  == Calm(s) => Calm(r.s)
Quietly(s, r) == Calm(s) => Quiet(r.s)

\* The library leaves the options alone.
LEMMA FilesCalm ==
  ASSUME NEW s, NEW id, NEW path, NEW clobber, NEW fmt, NEW write, NEW fill
  PROVE  /\ Calmly(s, nc_create(s, path, clobber, fmt))
         /\ Calmly(s, nc_open(s, path, write))
         /\ Calmly(s, nc_redef(s, id))
         /\ Calmly(s, nc_enddef(s, id))
         /\ Calmly(s, nc_sync(s, id))
         /\ Calmly(s, nc_close(s, id))
         /\ Calmly(s, nc_abort(s, id))
         /\ Calmly(s, nc_set_fill(s, id, fill))
<1> USE DEF Calmly, Calm, Quiet, Fails, Gives
<1>1. Calmly(s, nc_create(s, path, clobber, fmt))
  BY DEF nc_create
<1>2. Calmly(s, nc_open(s, path, write))
  BY DEF nc_open
<1>3. Calmly(s, nc_redef(s, id))
  BY DEF nc_redef
<1>4. Calmly(s, nc_enddef(s, id))
  BY DEF nc_enddef, Flushed
<1>5. Calmly(s, nc_sync(s, id))
  BY DEF nc_sync, Flushed
<1>6. Calmly(s, nc_close(s, id))
  BY DEF nc_close, Flushed, Released
<1>7. Calmly(s, nc_abort(s, id))
  BY DEF nc_abort, Flushed, Released
<1>8. Calmly(s, nc_set_fill(s, id, fill))
  BY DEF nc_set_fill
<1> QED BY <1>1, <1>2, <1>3, <1>4, <1>5, <1>6, <1>7, <1>8

\* A definition of any kind.
LEMMA DefinitionCalm ==
  ASSUME NEW s, NEW id, NEW must, NEW fail, NEW d
  PROVE  Calmly(s, Definition(s, id, must, fail, d))
BY DEF Calmly, Calm, Quiet, Fails, Gives, Definition, WithDataset

\* The definitions of the library, one by one.
LEMMA DefinitionsCalm ==
  ASSUME NEW s, NEW id, NEW v, NEW n, NEW x, NEW y, NEW z
  PROVE  /\ Calmly(s, nc_def_dim(s, id, n, x))
         /\ Calmly(s, nc_def_var(s, id, n, x, y))
         /\ Calmly(s, nc_rename_dim(s, id, x, n))
         /\ Calmly(s, nc_rename_var(s, id, v, n))
         /\ Calmly(s, nc_def_var_deflate(s, id, v, x, y, z))
         /\ Calmly(s, nc_def_var_chunking(s, id, v, x))
<1>1. Calmly(s, nc_def_dim(s, id, n, x))
  BY DefinitionCalm DEF nc_def_dim
<1>2. Calmly(s, nc_def_var(s, id, n, x, y))
  BY DefinitionCalm DEF nc_def_var
<1>3. Calmly(s, nc_rename_dim(s, id, x, n))
  BY DefinitionCalm DEF nc_rename_dim
<1>4. Calmly(s, nc_rename_var(s, id, v, n))
  BY DefinitionCalm DEF nc_rename_var
<1>5. ASSUME NEW d PROVE Calmly(s, Setting(s, id, v, d))
  BY DefinitionCalm DEF Setting
<1>6. Calmly(s, nc_def_var_deflate(s, id, v, x, y, z)) /\ Calmly(s, nc_def_var_chunking(s, id, v, x))
  BY <1>5 DEF nc_def_var_deflate, nc_def_var_chunking
<1> QED BY <1>1, <1>2, <1>3, <1>4, <1>5, <1>6

\* The same of attributes: put_att stores what no longer fits its type, and fails.
LEMMA AttributesCalm ==
  ASSUME NEW s, NEW id, NEW v, NEW n, NEW x, NEW y, NEW z
  PROVE  /\ Calmly(s, nc_rename_att(s, id, v, n, x))
         /\ Calmly(s, nc_del_att(s, id, v, n))
         /\ Calmly(s, StoreAtt(s, id, v, x))
         /\ Calmly(s, nc_copy_att(s, id, v, n, x, y))
         /\ Calmly(s, nc_put_att(s, id, v, n, x, y, z))
<1>1. Calmly(s, nc_rename_att(s, id, v, n, x))
  BY DefinitionCalm DEF nc_rename_att
<1>2. Calmly(s, nc_del_att(s, id, v, n))
  BY DefinitionCalm DEF nc_del_att
<1>3. ASSUME NEW i, NEW w, NEW att PROVE Calmly(s, StoreAtt(s, i, w, att))
  BY DefinitionCalm DEF StoreAtt, Calmly, Fails
<1>4. Calmly(s, nc_copy_att(s, id, v, n, x, y))
  BY <1>3 DEF nc_copy_att, Calmly, Fails
<1>5. Calmly(s, nc_put_att(s, id, v, n, x, y, z))
  <2> DEFINE r == StoreAtt(s, id, v, [name |-> n, type |-> x, val |-> [i \in DOMAIN z |-> Cast(x, z[i])]])
  <2>1. Calmly(s, r)
    BY <1>3
  <2>2. "s" \in DOMAIN r
    BY DEF StoreAtt, Definition, Fails, Gives
  <2>3. [r EXCEPT !.st = NC_ERANGE].s = r.s
    BY <2>2
  <2> HIDE DEF r
  <2>4. nc_put_att(s, id, v, n, x, y, z).s \in {s, r.s}
    BY <2>3 DEF nc_put_att, Fails, r
  <2> QED BY <2>1, <2>4 DEF Calmly
<1> QED BY <1>1, <1>2, <1>3, <1>4, <1>5

\* Writing data changes the dataset only.
LEMMA DataCalm ==
  ASSUME NEW s, NEW id, NEW v, NEW mem, NEW sel, NEW buf
  PROVE  Calmly(s, PutVar(s, id, v, mem, sel, buf))
BY DEF Calmly, Calm, Quiet, PutVar, Unless, Fails, WithDataset

\* What fails is noted, and ends nothing.
LEMMA TwoCalm ==
  ASSUME NEW s, NEW r, Calmly(s, r), NEW value
  PROVE  Calmly(s, Two(r, value))
BY DEF Calmly, Calm, Quiet, Two, Noting

\* An inquiry gives back the state it was asked in.
Asks(s, r) == r.s = s /\ "s" \in DOMAIN r

\* The inquiries of the library do.
LEMMA InquiriesAsk ==
  ASSUME NEW s, NEW id, NEW v, NEW n
  PROVE  /\ Asks(s, nc_inq(s, id)) /\ Asks(s, nc_inq_dim(s, id, v)) /\ Asks(s, nc_inq_dimid(s, id, n))
         /\ Asks(s, nc_inq_varid(s, id, n)) /\ Asks(s, nc_inq_var(s, id, v))
         /\ Asks(s, nc_inq_att(s, id, v, n)) /\ Asks(s, nc_inq_attid(s, id, v, n))
         /\ Asks(s, nc_inq_attname(s, id, v, n))
<1> USE DEF Asks, Inquiry, Fails, Gives
<1>1. Asks(s, nc_inq(s, id)) /\ Asks(s, nc_inq_dim(s, id, v)) /\ Asks(s, nc_inq_dimid(s, id, n))
  BY DEF nc_inq, nc_inq_dim, nc_inq_dimid
<1>2. Asks(s, nc_inq_varid(s, id, n)) /\ Asks(s, nc_inq_var(s, id, v))
  BY DEF nc_inq_varid, nc_inq_var
<1>3. Asks(s, nc_inq_att(s, id, v, n))
  BY DEF nc_inq_att
<1>4. Asks(s, nc_inq_attname(s, id, v, n))
  BY DEF nc_inq_attname
<1>5. Asks(s, nc_inq_attid(s, id, v, n))
  <2>1. \A r : Asks(s, r) => Asks(s, IF r.st = NC_NOERR THEN Gives(s, At(Atts(Dataset(s, id), v), n) - 1) ELSE r)
    OBVIOUS
  <2> QED BY <1>3, <2>1 DEF nc_inq_attid
<1> QED BY <1>1, <1>2, <1>3, <1>4, <1>5

\* So does one part of what an inquiry gives.
LEMMA PartAsks ==
  ASSUME NEW s, NEW r, Asks(s, r), NEW i
  PROVE  Asks(s, Part(r, i))
BY DEF Asks, Part

\* A crash ends the process otherwise than by an error of the library.
LEMMA CrashQuiet ==
  ASSUME NEW s, Quiet(s)
  PROVE  Quiet(Crash(s).s)
BY DEF Quiet, Crash

\* The handlers of the netCDF-3 operations call the library at most once.
LEMMA FileHandlersQuiet ==
  ASSUME NEW s, NEW a
  PROVE  /\ Quietly(s, handle_nc_create(s, a))
         /\ Quietly(s, handle_nc__create(s, a))
         /\ Quietly(s, handle_nc_open(s, a))
         /\ Quietly(s, handle_nc__open(s, a))
         /\ Quietly(s, handle_nc_close(s, a))
         /\ Quietly(s, handle_nc_abort(s, a))
         /\ Quietly(s, handle_nc_sync(s, a))
         /\ Quietly(s, handle_nc_redef(s, a))
         /\ Quietly(s, handle_nc_enddef(s, a))
         /\ Quietly(s, handle_nc__enddef(s, a))
         /\ Quietly(s, handle_nc_set_fill(s, a))
         /\ Quietly(s, handle_nc_strerror(s, a))
<1> USE DEF Quietly, Calmly, Calm, Checked, Error, Reply, Call
<1>c1. Quietly(s, handle_nc_create(s, a))
  BY FilesCalm DEF handle_nc_create, Create
<1>c2. Quietly(s, handle_nc__create(s, a))
  BY FilesCalm DEF handle_nc__create, Create
<1>c3. Quietly(s, handle_nc_open(s, a))
  BY FilesCalm DEF handle_nc_open
<1>c4. Quietly(s, handle_nc__open(s, a))
  BY FilesCalm DEF handle_nc__open
<1>c5. Quietly(s, handle_nc_close(s, a))
  BY FilesCalm DEF handle_nc_close
<1>c6. Quietly(s, handle_nc_abort(s, a))
  BY FilesCalm DEF handle_nc_abort
<1>c7. Quietly(s, handle_nc_sync(s, a))
  BY FilesCalm DEF handle_nc_sync
<1>c8. Quietly(s, handle_nc_redef(s, a))
  BY FilesCalm DEF handle_nc_redef
<1>c9. Quietly(s, handle_nc_enddef(s, a))
  BY FilesCalm DEF handle_nc_enddef
<1>c10. Quietly(s, handle_nc__enddef(s, a))
  BY FilesCalm DEF handle_nc__enddef
<1>c11. Quietly(s, handle_nc_set_fill(s, a))
  BY FilesCalm DEF handle_nc_set_fill
<1>c12. Quietly(s, handle_nc_strerror(s, a))
  BY FilesCalm DEF handle_nc_strerror
<1> QED BY <1>c1, <1>c2, <1>c3, <1>c4, <1>c5, <1>c6, <1>c7, <1>c8, <1>c9, <1>c10, <1>c11, <1>c12

\* The same of the operations on dimensions and on the dataset.
LEMMA DimHandlersQuiet ==
  ASSUME NEW s, NEW a
  PROVE  /\ Quietly(s, handle_nc_def_dim(s, a))
         /\ Quietly(s, handle_nc_rename_dim(s, a))
         /\ Quietly(s, handle_nc_inq_dim(s, a))
         /\ Quietly(s, handle_nc_inq_dimname(s, a))
         /\ Quietly(s, handle_nc_inq_dimlen(s, a))
         /\ Quietly(s, handle_nc_inq_dimid(s, a))
         /\ Quietly(s, handle_nc_inq(s, a))
         /\ Quietly(s, handle_nc_inq_ndims(s, a))
         /\ Quietly(s, handle_nc_inq_nvars(s, a))
         /\ Quietly(s, handle_nc_inq_natts(s, a))
         /\ Quietly(s, handle_nc_inq_unlimdim(s, a))
<1> USE DEF Quietly, Calmly, Calm, Checked, Error, Reply, Call, DimOf, Inq, Asks
<1>c1. Quietly(s, handle_nc_def_dim(s, a))
  BY DefinitionsCalm, InquiriesAsk, PartAsks DEF handle_nc_def_dim
<1>c2. Quietly(s, handle_nc_rename_dim(s, a))
  BY DefinitionsCalm, InquiriesAsk, PartAsks DEF handle_nc_rename_dim
<1>c3. Quietly(s, handle_nc_inq_dim(s, a))
  BY DefinitionsCalm, InquiriesAsk, PartAsks DEF handle_nc_inq_dim
<1>c4. Quietly(s, handle_nc_inq_dimname(s, a))
  BY DefinitionsCalm, InquiriesAsk, PartAsks DEF handle_nc_inq_dimname
<1>c5. Quietly(s, handle_nc_inq_dimlen(s, a))
  BY DefinitionsCalm, InquiriesAsk, PartAsks DEF handle_nc_inq_dimlen
<1>c6. Quietly(s, handle_nc_inq_dimid(s, a))
  BY DefinitionsCalm, InquiriesAsk, PartAsks DEF handle_nc_inq_dimid
<1>c7. Quietly(s, handle_nc_inq(s, a))
  BY DefinitionsCalm, InquiriesAsk, PartAsks DEF handle_nc_inq
<1>c8. Quietly(s, handle_nc_inq_ndims(s, a))
  BY DefinitionsCalm, InquiriesAsk, PartAsks DEF handle_nc_inq_ndims
<1>c9. Quietly(s, handle_nc_inq_nvars(s, a))
  BY DefinitionsCalm, InquiriesAsk, PartAsks DEF handle_nc_inq_nvars
<1>c10. Quietly(s, handle_nc_inq_natts(s, a))
  BY DefinitionsCalm, InquiriesAsk, PartAsks DEF handle_nc_inq_natts
<1>c11. Quietly(s, handle_nc_inq_unlimdim(s, a))
  BY DefinitionsCalm, InquiriesAsk, PartAsks DEF handle_nc_inq_unlimdim
<1> QED BY <1>c1, <1>c2, <1>c3, <1>c4, <1>c5, <1>c6, <1>c7, <1>c8, <1>c9, <1>c10, <1>c11

\* The same of the operations on variables, and on their storage.
LEMMA VarHandlersQuiet ==
  ASSUME NEW s, NEW a, NEW found
  PROVE  /\ Quietly(s, handle_nc_def_var(s, a))
         /\ Quietly(s, handle_nc_rename_var(s, a))
         /\ Quietly(s, handle_nc_inq_varid(s, a))
         /\ Quietly(s, handle_nc_inq_var(s, a))
         /\ Quietly(s, handle_nc_inq_varname(s, a))
         /\ Quietly(s, handle_nc_inq_vartype(s, a))
         /\ Quietly(s, handle_nc_inq_varndims(s, a))
         /\ Quietly(s, handle_nc_inq_vardimid(s, a))
         /\ Quietly(s, handle_nc_inq_varnatts(s, a))
         /\ Quietly(s, handle_nc_def_var_chunking(s, a))
         /\ Quietly(s, handle_nc_inq_var_chunking(s, a))
         /\ Quietly(s, handle_nc_def_var_deflate(s, a))
         /\ Quietly(s, handle_nc_inq_var_deflate(s, a, found))
<1> USE DEF Quietly, Calmly, Calm, Checked, Error, Reply, Call, VarOf, Asks
<1>c1. Quietly(s, handle_nc_def_var(s, a))
  BY DefinitionsCalm, InquiriesAsk, PartAsks DEF handle_nc_def_var
<1>c2. Quietly(s, handle_nc_rename_var(s, a))
  BY DefinitionsCalm, InquiriesAsk, PartAsks DEF handle_nc_rename_var
<1>c3. Quietly(s, handle_nc_inq_varid(s, a))
  BY DefinitionsCalm, InquiriesAsk, PartAsks DEF handle_nc_inq_varid
<1>c4. Quietly(s, handle_nc_inq_var(s, a))
  BY DefinitionsCalm, InquiriesAsk, PartAsks DEF handle_nc_inq_var
<1>c5. Quietly(s, handle_nc_inq_varname(s, a))
  BY DefinitionsCalm, InquiriesAsk, PartAsks DEF handle_nc_inq_varname
<1>c6. Quietly(s, handle_nc_inq_vartype(s, a))
  BY DefinitionsCalm, InquiriesAsk, PartAsks DEF handle_nc_inq_vartype
<1>c7. Quietly(s, handle_nc_inq_varndims(s, a))
  BY DefinitionsCalm, InquiriesAsk, PartAsks DEF handle_nc_inq_varndims
<1>c8. Quietly(s, handle_nc_inq_vardimid(s, a))
  BY DefinitionsCalm, InquiriesAsk, PartAsks DEF handle_nc_inq_vardimid
<1>c9. Quietly(s, handle_nc_inq_varnatts(s, a))
  BY DefinitionsCalm, InquiriesAsk, PartAsks DEF handle_nc_inq_varnatts
<1>c10. Quietly(s, handle_nc_def_var_chunking(s, a))
  BY DefinitionsCalm, InquiriesAsk, PartAsks DEF handle_nc_def_var_chunking
<1>c11. Quietly(s, handle_nc_inq_var_chunking(s, a))
  BY DefinitionsCalm, InquiriesAsk, PartAsks DEF handle_nc_inq_var_chunking
<1>c12. Quietly(s, handle_nc_def_var_deflate(s, a))
  BY DefinitionsCalm, InquiriesAsk, PartAsks DEF handle_nc_def_var_deflate
<1>c13. Quietly(s, handle_nc_inq_var_deflate(s, a, found))
  BY DefinitionsCalm, InquiriesAsk, PartAsks DEF handle_nc_inq_var_deflate, Gives
<1> QED BY <1>c1, <1>c2, <1>c3, <1>c4, <1>c5, <1>c6, <1>c7, <1>c8, <1>c9, <1>c10, <1>c11, <1>c12,
           <1>c13

\* The same of the operations on attributes.
LEMMA AttHandlersQuiet ==
  ASSUME NEW s, NEW op, NEW a
  PROVE  /\ Quietly(s, handle_nc_put_att(s, op, a))
         /\ Quietly(s, handle_nc_get_att(s, op, a))
         /\ Quietly(s, handle_nc_copy_att(s, a))
         /\ Quietly(s, handle_nc_del_att(s, a))
         /\ Quietly(s, handle_nc_rename_att(s, a))
         /\ Quietly(s, handle_nc_inq_att(s, a))
         /\ Quietly(s, handle_nc_inq_attlen(s, a))
         /\ Quietly(s, handle_nc_inq_atttype(s, a))
         /\ Quietly(s, handle_nc_inq_attid(s, a))
         /\ Quietly(s, handle_nc_inq_attname(s, a))
<1> USE DEF Quietly, Calmly, Calm, Checked, Error, Reply, Call, AttValue, AttOf, Attribute, Asks
<1>c1. Quietly(s, handle_nc_put_att(s, op, a))
  BY AttributesCalm, InquiriesAsk DEF handle_nc_put_att
<1>c2. Quietly(s, handle_nc_get_att(s, op, a))
  BY AttributesCalm, InquiriesAsk DEF handle_nc_get_att
<1>c3. Quietly(s, handle_nc_copy_att(s, a))
  BY AttributesCalm, InquiriesAsk DEF handle_nc_copy_att
<1>c4. Quietly(s, handle_nc_del_att(s, a))
  BY AttributesCalm, InquiriesAsk DEF handle_nc_del_att
<1>c5. Quietly(s, handle_nc_rename_att(s, a))
  BY AttributesCalm, InquiriesAsk DEF handle_nc_rename_att
<1>c6. Quietly(s, handle_nc_inq_att(s, a))
  BY AttributesCalm, InquiriesAsk DEF handle_nc_inq_att
<1>c7. Quietly(s, handle_nc_inq_attlen(s, a))
  BY AttributesCalm, InquiriesAsk DEF handle_nc_inq_attlen
<1>c8. Quietly(s, handle_nc_inq_atttype(s, a))
  BY AttributesCalm, InquiriesAsk DEF handle_nc_inq_atttype
<1>c9. Quietly(s, handle_nc_inq_attid(s, a))
  BY AttributesCalm, InquiriesAsk DEF handle_nc_inq_attid
<1>c10. Quietly(s, handle_nc_inq_attname(s, a))
  BY AttributesCalm, InquiriesAsk DEF handle_nc_inq_attname
<1> QED BY <1>c1, <1>c2, <1>c3, <1>c4, <1>c5, <1>c6, <1>c7, <1>c8, <1>c9, <1>c10

\* The same of the operations on data.
LEMMA DataHandlersQuiet ==
  ASSUME NEW s, NEW op, NEW a
  PROVE  /\ Quietly(s, handle_nc_get_var_x(s, op, a))
         /\ Quietly(s, handle_nc_get_varm_x(s, op, a))
         /\ Quietly(s, handle_nc_put_var_x(s, op, a))
         /\ Quietly(s, handle_nc_put_varm_x(s, op, a))
<1> USE DEF Quietly, Calmly, Calm, Checked, Error, Reply, Call, ArrayRead, Put, Asks
<1>c1. Quietly(s, handle_nc_get_var_x(s, op, a))
  BY DataCalm DEF handle_nc_get_var_x
<1>c2. Quietly(s, handle_nc_get_varm_x(s, op, a))
  BY CrashQuiet DEF handle_nc_get_varm_x
<1>c3. Quietly(s, handle_nc_put_var_x(s, op, a))
  BY DataCalm DEF handle_nc_put_var_x
<1>c4. Quietly(s, handle_nc_put_varm_x(s, op, a))
  BY DataCalm DEF handle_nc_put_varm_x
<1> QED BY <1>c1, <1>c2, <1>c3, <1>c4

\* What an inquiry of a netCDF-2 operation notes ends nothing.
LEMMA AskingCalm ==
  ASSUME NEW s, NEW r, Asks(s, r), NEW value
  PROVE  Calmly(s, Two(r, value)) /\ Calmly(s, TwoId(r))
BY TwoCalm DEF Asks, Calmly, TwoId

\* Looking for a dimension, a variable or an attribute that is given by its name
\* (netcdf2.c:218-320).
LEMMA DimArgCalm ==
  ASSUME NEW s, NEW a, Calm(s)
  PROVE  Calm(DimArg(s, a).s)
<1>1. Calmly(s, TwoId(nc_inq_dimid(s, Num(a, 1), a[2].v)))
  BY InquiriesAsk, AskingCalm
<1> QED BY <1>1 DEF DimArg, Found, Calmly

\* The same of a variable.
LEMMA VarArgCalm ==
  ASSUME NEW s, NEW a, Calm(s)
  PROVE  Calm(VarArg(s, a).s)
<1> DEFINE n == IF Double(a, 2) THEN "" ELSE a[2].v
           r == nc_inq_varid(s, Num(a, 1), n)
<1>1. VarArg(s, a).s = TwoId(r).s
  BY DEF VarArg, FoundOr
<1> HIDE DEF n
<1>2. Calmly(s, TwoId(r))
  BY InquiriesAsk, AskingCalm
<1> QED BY <1>1, <1>2 DEF Calmly

\* The same of an attribute, in the state in which the variable was found.
LEMMA AttArgCalm ==
  ASSUME NEW x, NEW a, Calm(x.s)
  PROVE  Calm(AttArg(x, a).s)
<1>1. Calmly(x.s, Two(nc_inq_attname(x.s, Num(a, 1), x.id, Num(a, 3)), Num(a, 3)))
  BY InquiriesAsk, AskingCalm
<1> QED BY <1>1 DEF AttArg, FoundOr, Calmly

\* Looking for the scaling of a variable (netcdf2.c:329-349).
LEMMA ScalingCalm ==
  ASSUME NEW s, NEW id, NEW v, NEW wanted, Calm(s)
  PROVE  Calm(Scaling(s, id, v, wanted).s)
<1>1. ASSUME NEW t, Calm(t), NEW n, NEW q PROVE Calm(Factor(Two(nc_inq_att(t, id, v, n), 1), q).s)
  BY <1>1, InquiriesAsk, AskingCalm DEF Factor, Calmly
<1> DEFINE o == Add_Offset(s, id, v)
<1>2. Calm(o.s)
  BY <1>1 DEF Add_Offset
<1> HIDE DEF o
<1>3. Calm(Scale_Factor(o.s, id, v).s)
  <2> DEFINE g == Factor(Two(nc_inq_att(o.s, id, v, "scale_factor"), 1), 4)
  <2>1. Calm(g.s)
    BY <1>1, <1>2
  <2>2. NonZero(g, 4).s = g.s
    BY DEF NonZero, Factor
  <2> QED BY <2>1, <2>2 DEF Scale_Factor
<1>4. Scaling(s, id, v, wanted).s = Scale_Factor(o.s, id, v).s
  BY DEF Scaling, ScalingFrom, ScalingOf, o
<1> QED BY <1>3, <1>4

\* The operations of the library on records.
LEMMA RecordsCalm ==
  ASSUME NEW s, NEW id, NEW rec, NEW bufs
  PROVE  /\ Calmly(s, ncrecinq(s, id))
         /\ Calmly(s, ncrecput(s, id, rec, bufs))
         /\ Calmly(s, ncrecget(s, id, rec))
<1>1. Calmly(s, ncrecinq(s, id))
  <2>1. \A ok, code, out : Asks(s, Inquiry(s, id, ok, code, out))
    BY DEF Asks, Inquiry, Fails, Gives
  <2> QED BY <2>1, AskingCalm DEF ncrecinq
<1>2. Calmly(s, ncrecput(s, id, rec, bufs))
  <2>1. \A d, st : Calmly(s, [s |-> WithDataset(s, id, d), st |-> st, out |-> <<>>])
    BY DEF Calmly, Calm, Quiet, WithDataset
  <2> QED BY <2>1, TwoCalm DEF ncrecput
<1>3. Calmly(s, ncrecget(s, id, rec))
  <2>1. \A got : Asks(s, AllRead(s, got))
    BY DEF Asks, AllRead, Fails, Gives
  <2> QED BY <2>1, AskingCalm DEF ncrecget, RecordsRead
<1> QED BY <1>1, <1>2, <1>3

\* Looking for the scaling of every variable of a record (netcdf2.c:1398-1412).
LEMMA ScalingsCalm ==
  ASSUME NEW s, NEW id, NEW list, NEW wanted, Calm(s)
  PROVE  Calm(Scalings(s, id, list, wanted).s)
<1> DEFINE noting == {Scaling(s, id, list[i].v, TRUE).s : i \in {j \in DOMAIN list : wanted}} \ {s}
<1>0. \A v : Calm(Scaling(s, id, v, TRUE).s)
  BY ScalingCalm
<1>1. \A t \in noting : Calm(t)
  BY <1>0
<1>2. Scalings(s, id, list, wanted).s = IF noting = {} THEN s ELSE CHOOSE t \in noting : TRUE
  BY DEF Scalings
<1> HIDE DEF noting
<1> QED BY <1>1, <1>2

\* The operations of the library as the netCDF-2 interface calls them.
LEMMA TwoCalls ==
  ASSUME NEW s, Calm(s), NEW id, NEW v, NEW n, NEW x, NEW y, NEW value
  PROVE  /\ Calm(TwoId(nc_def_dim(s, id, n, x)).s)
         /\ Calm(TwoId(nc_def_var(s, id, n, x, y)).s)
         /\ Calm(Two(nc_rename_dim(s, id, x, n), value).s)
         /\ Calm(Two(nc_rename_var(s, id, v, n), value).s)
         /\ Calm(Two(nc_rename_att(s, id, v, n, x), value).s)
         /\ Calm(Two(nc_del_att(s, id, v, n), value).s)
         /\ Calm(Two(StoreAtt(s, id, v, x), value).s)
         /\ Calm(Two(nc_copy_att(s, id, v, n, x, y), value).s)
<1>1. \A r : Calmly(s, r) => Calm(Two(r, value).s) /\ Calm(TwoId(r).s)
  BY TwoCalm DEF Calmly, TwoId
<1>2. Calm(TwoId(nc_def_dim(s, id, n, x)).s) /\ Calm(TwoId(nc_def_var(s, id, n, x, y)).s)
  BY <1>1, DefinitionsCalm
<1>3. Calm(Two(nc_rename_dim(s, id, x, n), value).s) /\ Calm(Two(nc_rename_var(s, id, v, n), value).s)
  BY <1>1, DefinitionsCalm
<1>4. Calm(Two(nc_rename_att(s, id, v, n, x), value).s) /\ Calm(Two(nc_del_att(s, id, v, n), value).s)
  BY <1>1, AttributesCalm
<1>5. Calm(Two(StoreAtt(s, id, v, x), value).s) /\ Calm(Two(nc_copy_att(s, id, v, n, x, y), value).s)
  BY <1>1, AttributesCalm
<1> QED BY <1>2, <1>3, <1>4, <1>5

\* The handlers of the netCDF-2 operations that take no names.
LEMMA PlainHandlers2Quiet ==
  ASSUME NEW s, NEW nlhs, NEW a, NEW found
  PROVE  /\ Quietly(s, INQUIRE(s, nlhs, a))
         /\ Quietly(s, ENDEF(s, a))
         /\ Quietly(s, DIMDEF(s, a))
         /\ Quietly(s, DIMID(s, a))
         /\ Quietly(s, VARDEF(s, a))
         /\ Quietly(s, VARID(s, a))
         /\ Quietly(s, RECPUT(s, a, found))
         /\ Quietly(s, RECGET(s, a))
         /\ Quietly(s, RECINQ(s, a))
         /\ Quietly(s, TYPELEN(s, a))
         /\ Quietly(s, SETFILL(s, a))
         /\ Quietly(s, ERR(s, a))
         /\ Quietly(s, PARAMETER(s, a))
<1> USE DEF Quietly, Calmly, Calm, Checked, Error, Reply, Call, Status, Id, Asks, TwoId
<1>c1. Quietly(s, INQUIRE(s, nlhs, a))
  BY InquiriesAsk, AskingCalm DEF INQUIRE, Inq
<1>c2. Quietly(s, ENDEF(s, a))
  <2>1. Calmly(s, nc_enddef(s, Num(a, 1)))
    BY FilesCalm
  <2>2. Calmly(s, Two(nc_enddef(s, Num(a, 1)), 0))
    BY <2>1, TwoCalm
  <2> QED BY <2>2 DEF ENDEF
<1>c3. Quietly(s, DIMDEF(s, a))
  BY TwoCalls DEF DIMDEF
<1>c4. Quietly(s, DIMID(s, a))
  BY InquiriesAsk, AskingCalm DEF DIMID
<1>c5. Quietly(s, VARDEF(s, a))
  BY TwoCalls DEF VARDEF
<1>c6. Quietly(s, VARID(s, a))
  BY InquiriesAsk, AskingCalm DEF VARID
<1>c7. Quietly(s, RECPUT(s, a, found))
  <2> DEFINE q     == ncrecinq(s, Num(a, 1))
             with  == Scalings(q.s, Num(a, 1), q.out, Autoscale(a, 4))
             given == Given(a[3], a[3].cls # "double", SumOfSizes(q.out))
             r     == RecordStored(q.out, with, given, a)
  <2>1. Calm(s) => Calm(q.s)
    BY RecordsCalm
  <2>2. Calm(q.s) => Calm(with.s)
    BY ScalingsCalm
  <2>3. \A x : Calm(x) => Quiet(Crash(x).s)
    BY CrashQuiet DEF Calm
  <2>4. Calm(with.s) => Calm(r.s)
    BY RecordsCalm DEF RecordStored
  <2>5. RECPUT(s, a, found).s \in {s, q.s, Crash(with.s).s, r.s}
    BY DEF RECPUT, IntoRecord, Convert
  <2> HIDE DEF q, with, given, r
  <2> QED BY <2>1, <2>2, <2>3, <2>4, <2>5
<1>c8. Quietly(s, RECGET(s, a))
  BY RecordsCalm, ScalingsCalm DEF RECGET, FromRecord, RecordOf, RecordLoaded
<1>c9. Quietly(s, RECINQ(s, a))
  BY RecordsCalm DEF RECINQ
<1>c10. Quietly(s, TYPELEN(s, a))
  BY DEF TYPELEN
<1>c11. Quietly(s, SETFILL(s, a))
  BY FilesCalm, TwoCalm DEF SETFILL
<1>c12. Quietly(s, ERR(s, a))
  BY DEF ERR, Quiet
<1>c13. Quietly(s, PARAMETER(s, a))
  BY DEF PARAMETER
<1> QED BY <1>c1, <1>c2, <1>c3, <1>c4, <1>c5, <1>c6, <1>c7, <1>c8, <1>c9, <1>c10, <1>c11, <1>c12,
           <1>c13

\* The same of those that take a dimension, a variable or an attribute by its number or
\* its name.
LEMMA NamedHandlers2Quiet ==
  ASSUME NEW s, NEW a, NEW found
  PROVE  /\ Quietly(s, DIMINQ(s, a))
         /\ Quietly(s, DIMRENAME(s, a))
         /\ Quietly(s, VARINQ(s, a))
         /\ Quietly(s, VARRENAME(s, a))
         /\ Quietly(s, VARCOPY(s, a, found))
         /\ Quietly(s, ATTPUT(s, a, found))
         /\ Quietly(s, ATTINQ(s, a))
         /\ Quietly(s, ATTGET(s, a))
         /\ Quietly(s, ATTCOPY(s, a))
         /\ Quietly(s, ATTNAME(s, a))
         /\ Quietly(s, ATTRENAME(s, a))
         /\ Quietly(s, ATTDEL(s, a))
<1> USE DEF Quietly, Calmly, Calm, Checked, Error, Reply, Call, Status,
            OnDim, OnVar, OnAtt, WithId, WithIds, AttOfVar, Convert
<1>c1. Quietly(s, DIMINQ(s, a))
  BY DimArgCalm, InquiriesAsk, AskingCalm DEF DIMINQ
<1>c2. Quietly(s, DIMRENAME(s, a))
  BY DimArgCalm, TwoCalls DEF DIMRENAME
<1>c3. Quietly(s, VARINQ(s, a))
  BY VarArgCalm, InquiriesAsk, AskingCalm DEF VARINQ
<1>c4. Quietly(s, VARRENAME(s, a))
  BY VarArgCalm, TwoCalls DEF VARRENAME
<1>c5. Quietly(s, VARCOPY(s, a, found))
  BY VarArgCalm, CrashQuiet DEF VARCOPY
<1>c6. Quietly(s, ATTPUT(s, a, found))
  <2> DEFINE y == AttArg(VarArg(s, a), a)
  <2>1. Calm(s) => Calm(y.s)
    BY VarArgCalm, AttArgCalm
  <2>2. Calm(y.s) => Quiet(Crash(y.s).s)
    BY CrashQuiet DEF Calm
  <2>3. \E att : ATTPUT(s, a, found).s \in
          {s, y.s, Crash(y.s).s, Two(StoreAtt(y.s, Num(a, 1), VarArg(s, a).id, att), 0).s}
    BY DEF ATTPUT
  <2> HIDE DEF y
  <2> QED BY <2>1, <2>2, <2>3, TwoCalls
<1>c7. Quietly(s, ATTINQ(s, a))
  <2> DEFINE y == AttArg(VarArg(s, a), a)
             f(x) == <<x.type, Len(x.val)>>
             r == Attribute(nc_inq_att(y.s, Num(a, 1), VarArg(s, a).id, y.id), f)
  <2>1. Calm(s) => Calm(y.s)
    BY VarArgCalm, AttArgCalm
  <2>2. Asks(y.s, nc_inq_att(y.s, Num(a, 1), VarArg(s, a).id, y.id))
    BY InquiriesAsk
  <2>3. Asks(y.s, r)
    BY <2>2 DEF Attribute, Asks
  <2>4. Calmly(y.s, Two(r, 1))
    BY <2>3, AskingCalm
  <2>5. ATTINQ(s, a).s \in {s, Two(r, 1).s}
    BY DEF ATTINQ
  <2> HIDE DEF y, r
  <2> QED BY <2>1, <2>4, <2>5
<1>c8. Quietly(s, ATTGET(s, a))
  BY VarArgCalm, AttArgCalm, InquiriesAsk, AskingCalm DEF ATTGET
<1>c9. Quietly(s, ATTCOPY(s, a))
  <2> DEFINE y == AttArg(VarArg(s, a), a)
             w == TwoId(nc_inq_varid(y.s, Num(a, 1), a[5].v))
  <2>1. Calm(s) => Calm(y.s) /\ Calm(w.s)
    <3>1. Calm(s) => Calm(y.s)
      BY VarArgCalm, AttArgCalm
    <3>2. Calmly(y.s, w)
      BY InquiriesAsk, AskingCalm
    <3> QED BY <3>1, <3>2
  <2> DEFINE char == a[5].cls = "char"
             copied(t, id) == Two(nc_copy_att(t, Num(a, 1), VarArg(s, a).id, y.id, Num(a, 4), id), 0).s
  <2>2. ATTCOPY(s, a).s \in {s, IF char THEN copied(w.s, w.st) ELSE copied(y.s, Num(a, 5))}
    BY DEF ATTCOPY, Found
  <2>3. \A t, id : Calm(t) => Calm(copied(t, id))
    BY TwoCalls
  <2> HIDE DEF y, w, copied
  <2> QED BY <2>1, <2>2, <2>3
<1>c10. Quietly(s, ATTNAME(s, a))
  BY VarArgCalm, InquiriesAsk, AskingCalm DEF ATTNAME
<1>c11. Quietly(s, ATTRENAME(s, a))
  BY VarArgCalm, AttArgCalm, TwoCalls DEF ATTRENAME
<1>c12. Quietly(s, ATTDEL(s, a))
  BY VarArgCalm, AttArgCalm, TwoCalls DEF ATTDEL
<1> QED BY <1>c1, <1>c2, <1>c3, <1>c4, <1>c5, <1>c6, <1>c7, <1>c8, <1>c9, <1>c10, <1>c11, <1>c12

\* The same of the handlers of scaled data: they reply, raise an error or crash after a
\* call of the library that has noted an error at most.
LEMMA ScaledHandlers2Quiet ==
  ASSUME NEW s, NEW a, NEW found
  PROVE  /\ Quietly(s, VARPUT1(s, a, found)) /\ Quietly(s, VARGET1(s, a))
         /\ Quietly(s, VARPUT(s, a, found)) /\ Quietly(s, VARPUTG(s, a, found))
         /\ Quietly(s, VARGET(s, a)) /\ Quietly(s, VARGETG(s, a))
<1> SUFFICES ASSUME Calm(s)
             PROVE  /\ Quiet(VARPUT1(s, a, found).s) /\ Quiet(VARGET1(s, a).s)
                    /\ Quiet(VARPUT(s, a, found).s) /\ Quiet(VARPUTG(s, a, found).s)
                    /\ Quiet(VARGET(s, a).s) /\ Quiet(VARGETG(s, a).s)
  BY DEF Quietly
<1> DEFINE t == VarArg(s, a).s
           v == VarArg(s, a).id
           id == Num(a, 1)
           u(wanted) == Two(nc_inq_var(Scaling(t, id, v, wanted).s, id, v), v).s
<1>1. ASSUME NEW wanted PROVE Calm(Scaling(t, id, v, wanted).s) /\ Calm(u(wanted))
  <2>1. Calm(t)
    BY VarArgCalm
  <2> HIDE DEF t
  <2>2. Calm(Scaling(t, id, v, wanted).s)
    BY <2>1, ScalingCalm
  <2>3. Asks(Scaling(t, id, v, wanted).s, nc_inq_var(Scaling(t, id, v, wanted).s, id, v))
    BY InquiriesAsk
  <2>4. Calm(u(wanted))
    BY <2>2, <2>3, AskingCalm DEF Calmly
  <2> QED BY <2>2, <2>4
<1>2. ASSUME NEW x, Calm(x)
      PROVE  /\ \A sel, buf : Calm(Two(PutVar(x, id, v, "own", sel, buf), 0).s)
             /\ \A sel : Calm(Two(GetVar(x, id, v, "own", sel), 0).s)
             /\ Quiet(x) /\ Quiet(Crash(x).s)
  <2>1. \A sel, buf : Calm(Two(PutVar(x, id, v, "own", sel, buf), 0).s)
    BY <1>2, DataCalm, TwoCalm DEF Calmly
  <2>2. ASSUME NEW sel PROVE Calm(Two(GetVar(x, id, v, "own", sel), 0).s)
    <3>1. Calmly(x, GetVar(x, id, v, "own", sel))
      BY InquiriesKeepState DEF Calmly
    <3> QED BY <1>2, <3>1, TwoCalm DEF Calmly
  <2> QED BY <1>2, <2>1, <2>2, CrashQuiet DEF Calm
<1>c. \A x, given, bad, answer : Quiet(Crash(x).s) /\ Quiet(answer.s)
                                   => Quiet(Convert(x, given, bad, found, answer).s)
  BY DEF Convert
<1> USE DEF OnVar, WithId, WithScale, ScaledBy, KnownType, Otherwise, Checked, Error, Reply, Status
<1>3. Quiet(VARPUT1(s, a, found).s)
  BY <1>1, <1>2, <1>c DEF VARPUT1
<1>4. Quiet(VARGET1(s, a).s)
  BY <1>1, <1>2 DEF VARGET1, OneLoaded
<1>5. Quiet(VARPUT(s, a, found).s)
  <2> DEFINE w == Autoscale(a, 6)
             x == Scaling(t, id, v, FALSE).s
             r == Two(nc_inq_var(Scaling(t, id, v, w).s, id, v), v)
             by == Scaling(t, id, v, w).by
             type == r.out[2]
             count == Counts(Dataset(u(w), id), v, a[3].v, a[4].v)
             given == Given(a[5], CharsRaw(a[5], type), Asked(count))
             f(q) == Stored(type, by, q)
             stored == Status(Two(PutVar(u(w), id, v, "own", Slab(a[3].v, count, Ones(count)),
                                         PutBuffer(count, given, f)), 0))
             put == Convert(u(w), given, Asserted(type), found, stored)
  <2>1. VARPUT(s, a, found).s \in {s, x, u(w), put.s}
    BY DEF VARPUT
  <2>2. Quiet(stored.s)
    BY <1>1, <1>2 DEF Calm
  <2>3. Quiet(put.s)
    <3> HIDE DEF stored, given, type
    <3> QED BY <1>1, <1>2, <1>c, <2>2
  <2>4. Quiet(s) /\ Quiet(x) /\ Quiet(u(w))
    BY <1>1 DEF Calm
  <2> HIDE DEF put, x, u
  <2> QED BY <2>1, <2>3, <2>4
<1>6. Quiet(VARPUTG(s, a, found).s)
  <2> DEFINE w == Autoscale(a, 8)
             r == Two(nc_inq_var(Scaling(t, id, v, w).s, id, v), v)
             by == Scaling(t, id, v, w).by
             type == r.out[2]
             value == a[IF Len(a) > 6 THEN 7 ELSE 6]
             count == Counts(Dataset(u(w), id), v, a[3].v, a[4].v)
             given == Given(value, type = NC_CHAR \/ value.cls = "char", Asked(count))
             f(q) == StoredG(type, by, q)
             stored == Status(Two(PutVar(u(w), id, v, "own", Slab(a[3].v, count, a[5].v),
                                         PutBuffer(count, given, f)), 0))
             put == Convert(u(w), given, {Undef}, found, stored)
  <2>1. VARPUTG(s, a, found).s \in {s, u(w), put.s}
    BY DEF VARPUTG
  <2>2. Quiet(stored.s)
    BY <1>1, <1>2 DEF Calm
  <2>3. Quiet(put.s)
    <3> HIDE DEF stored, given, type
    <3> QED BY <1>1, <1>2, <1>c, <2>2
  <2>4. Quiet(s) /\ Quiet(u(w))
    BY <1>1 DEF Calm
  <2> HIDE DEF put, u
  <2> QED BY <2>1, <2>3, <2>4
<1>7. \A x, anyway, count, by, q : Calm(x) /\ Calm(q.s) => Quiet(Loading(x, anyway, count, by, q).s)
  BY <1>2 DEF Loading, Calm
<1>8. Quiet(VARGET(s, a).s)
  BY <1>1, <1>2, <1>7 DEF VARGET
<1>9. Quiet(VARGETG(s, a).s)
  BY <1>1, <1>2, <1>7 DEF VARGETG
<1> QED BY <1>3, <1>4, <1>5, <1>6, <1>8, <1>9

\* What the switches rely on: SETOPTS is given a whole number.
Careful(name, c) == name = "setopts" => Num(c.a, 1) \in Int

\* The switch of the netCDF-2 operations (netcdf2.c:404).
LEMMA SwitchQuiet2 ==
  ASSUME NEW s, NEW c, NEW name \in Cases2, Careful(name, c)
  PROVE  Quietly(s, handle_netcdf2_api(s, name, c.nlhs, c.a, c.found))
<1>1. CASE name = "setopts"
  BY <1>1 DEF handle_netcdf2_api, SETOPTS, Careful, Reply, Quietly, Calm, Quiet
<1>2. CASE name \in {"varget", "vargetg", "varput1", "varget1", "varput", "varputg"}
  BY <1>2, ScaledHandlers2Quiet DEF handle_netcdf2_api
<1>3. CASE name \notin {"setopts", "varget", "vargetg", "varput1", "varget1", "varput", "varputg"}
  BY <1>3, PlainHandlers2Quiet, NamedHandlers2Quiet DEF handle_netcdf2_api, Cases2
<1> QED BY <1>1, <1>2, <1>3

\* The switch of mexFunction (mexgateway.c:116-425).
LEMMA SwitchQuiet ==
  ASSUME NEW s, NEW c, NEW name \in Cases3 \cup Cases2, Careful(name, c)
  PROVE  Quietly(s, Dispatch(s, name, c))
<1>1. CASE name \in Files3
  <2>1. Quietly(s, Reply(s, <<"release", "date">>)) /\ Quietly(s, Reply(s, <<"version">>))
    BY DEF Quietly, Calm, Reply
  <2> QED BY <1>1, <2>1, FileHandlersQuiet DEF Dispatch, Files3
<1>2. CASE name \in Dims3
  BY <1>2, DimHandlersQuiet DEF Dispatch, Dims3
<1>3. CASE name \in Vars3
  BY <1>3, VarHandlersQuiet DEF Dispatch, Vars3
<1>4. CASE name \in Atts3
  BY <1>4, AttHandlersQuiet DEF Dispatch, Atts3
<1>5. CASE name \in Data3
  BY <1>5, DataHandlersQuiet DEF Dispatch, Data3
<1>6. CASE name \in Cases2
  <2>1. Dispatch(s, name, c) = handle_netcdf2_api(s, name, c.nlhs, c.a, c.found)
    BY <1>6 DEF Dispatch, Cases2
  <2> QED BY <1>6, <2>1, SwitchQuiet2
<1> QED BY <1>1, <1>2, <1>3, <1>4, <1>5, <1>6 DEF Cases3

\* A whole call: NC_FATAL is taken out of the options before the switch is reached.
LEMMA CallQuiet ==
  ASSUME NEW s, Quiet(s), NEW c \in Commands
  PROVE  Quiet(mexFunction(s, c).s)
<1> DEFINE t == WithoutFatal(s)
           name == opname2opcode(c.spell, c.op)
<1>1. Calm(t)
  BY DEF WithoutFatal, Calm, Quiet, Flag, NC_FATAL
<1>2. Careful(name, c)
  BY SessionsAssumption DEF Careful
<1> HIDE DEF t, name
<1>3. name \in DOMAIN ops => Quiet(Dispatch(t, name, c).s)
  BY <1>1, <1>2, EveryOperationHasACase, SwitchQuiet DEF Quietly
<1> QED BY <1>1, <1>3 DEF mexFunction, Checked, Error, Calm, t, name

\* No error of the netCDF-2 library ends MATLAB: SETOPTS may set NC_FATAL, but
\* mexFunction takes it away before the library is called (mexgateway.c:73), and nothing
\* in between sets it.  That a call crashes otherwise is not excluded.
THEOREM ErrorsAreNotFatal == Spec => []NoErrorIsFatal
<1> DEFINE Inv == Quiet(nc) /\ todo \in Seq(Commands)
<1>1. Init => Inv
  BY SessionsAssumption DEF Init, Fresh, Quiet
<1>2. Inv /\ [Next]_vars => Inv'
  <2> SUFFICES ASSUME Inv, [Next]_vars PROVE Inv'
    OBVIOUS
  <2>1. CASE Prepare
    <3>1. Head(todo) \in Commands /\ Tail(todo) \in Seq(Commands)
      BY <2>1 DEF Prepare
    <3> QED BY <2>1, <3>1, CallQuiet DEF Prepare, Issue
  <2>2. ASSUME NEW c \in Calls, Operation(c) PROVE Inv'
    <3>1. c \in Commands
      BY DEF Commands
    <3> QED BY <2>2, <3>1, CallQuiet DEF Operation, Issue
  <2>3. CASE UNCHANGED vars
    BY <2>3 DEF vars
  <2> QED BY <2>1, <2>2, <2>3 DEF Next
<1>3. Inv => NoErrorIsFatal
  BY DEF Quiet, NoErrorIsFatal
<1> QED BY <1>1, <1>2, <1>3, PTL DEF Spec
==============================================================================
