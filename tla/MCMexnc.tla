------------------------------- MODULE MCMexnc -------------------------------
(* A small instance of MexncGateway: a file "p" with a fixed dimension, the    *)
(* record dimension, a scaled integer variable and a real one, both along it, *)
(* and a second file "q".  Sessions begin before the file exists, while it is *)
(* being defined, with data, after it was closed, and beside a second one.    *)
EXTENDS MexncGateway

Name(n)   == [cls |-> "char", v |-> n]
Chr(seq)  == [cls |-> "char", v |-> seq]
Int32(n)  == [cls |-> "int32", v |-> <<n>>]
Op(op, a) == Do(op, "", a)
Outputs(n, c) == [c EXCEPT !.nlhs = n]

\* Dimensions x (0, of length 2) and t (1, of records); variables v (0: SHORT,
\* [t, x], scale_factor 0.5, add_offset 1) and r (1: DOUBLE, [t]).
Define == <<
  Op("create", <<Name("p"), Name("CLOBBER")>>),
  Op("def_dim", <<Arg(0), Name("x"), Arg(2)>>),
  Op("def_dim", <<Arg(0), Name("t"), Name("UNLIMITED")>>),
  Op("def_var", <<Arg(0), Name("v"), Name("NC_SHORT"), Arg(2), List(<<1, 0>>)>>),
  Op("def_var", <<Arg(0), Name("r"), Name("DOUBLE"), Arg(1), List(<<1>>)>>),
  Do("put_att", "double", <<Arg(0), Arg(0), Name("scale_factor"), Name("DOUBLE"), Arg(1), Arg(2)>>),
  Do("put_att", "double", <<Arg(0), Arg(0), Name("add_offset"), Name("DOUBLE"), Arg(1), Arg(4)>>)>>
WithData == Define \o <<Op("enddef", <<Arg(0)>>),
  Do("put_vara", "double", <<Arg(0), Arg(0), List(<<0, 0>>), List(<<3, 2>>), List(<<4, 8, 12, 16, 20, 24>>)>>)>>
OnDisk  == WithData \o <<Op("close", <<Arg(0)>>)>>
Copying == OnDisk \o <<Op("create", <<Name("q"), Arg(4096 + 256)>>),
  Op("def_dim", <<Arg(0), Name("x"), Arg(2)>>),
  Op("def_var", <<Arg(0), Name("w"), Name("INT"), Arg(1), List(<<0>>)>>),
  Op("open", <<Name("p"), Name("WRITE")>>)>>
Files == {Op("create", <<Name("q")>>), Op("create", <<Name("p"), Name("NOCLOBBER")>>), Op("create", <<Name("p"), Int32(0)>>),
  Op("create", <<Name("q"), Name("SHARE")>>), Op("create", <<Name("q"), Arg(4096)>>),
  Op("_create", <<Name("q"), Arg(0), Arg(0)>>), Op("open", <<Name("p")>>), Op("open", <<Name("p"), Name("WRITE")>>),
  Op("open", <<Name("q"), Name("NC_NOWRITE")>>), Op("_open", <<Name("p"), Arg(1), Arg(0)>>),
  [Op("_open", <<Name("p"), Arg(1), Arg(0)>>) EXCEPT !.op = "open", !.spell = <<"nc", "nc", "_">>],
  [Op("open", <<Name("p")>>) EXCEPT !.spell = <<"nc">>], [Op("close", <<Arg(0)>>) EXCEPT !.spell = <<"nc", "_">>],
  Op("close", <<Arg(0)>>), Op("close", <<Name("p")>>), Op("close", <<List(<<>>)>>), Op("abort", <<Arg(0)>>),
  Op("sync", <<Arg(0)>>), Op("redef", <<Arg(0)>>), Op("enddef", <<Arg(0)>>), Op("end_def", <<Arg(1)>>),
  Op("_enddef", <<Arg(0), Arg(0), Arg(4), Arg(0), Arg(4)>>), Op("set_fill", <<Arg(0), Arg(256)>>),
  Op("strerror", <<Arg(-33)>>), Op("inq_libvers", <<>>), Op("get_mexnc_info", <<>>), Op("reopen", <<Arg(0)>>)}
Definitions == {Op("def_dim", <<Arg(0), Name("y"), Name("NC_UNLIMITED")>>), Op("def_dim", <<Arg(0), Name("y"), Name("MANY")>>),
  Op("def_dim", <<Arg(0), Name("y"), Arg(1)>>), Op("rename_dim", <<Arg(0), Arg(0), Name("t")>>),
  Op("rename_dim", <<Arg(0), Arg(0), Name("a")>>), Op("rename_var", <<Arg(0), Arg(0), Name("u")>>),
  Op("def_var", <<Arg(0), Name("w"), Name("INT"), Arg(2), List(<<0, 0>>)>>),
  Op("def_var", <<Arg(0), Name("w"), Name("INT"), Arg(1), List(<<0, 0>>)>>),
  Op("def_var", <<Arg(0), Name("w"), Name("STRING"), Arg(1), List(<<0>>)>>),
  Op("def_var", <<Arg(0), Name("c"), Arg(2), Arg(1), List(<<0>>)>>),
  Op("def_var_deflate", <<Arg(0), Arg(0), Arg(1), Arg(1), Arg(2)>>),
  Op("def_var_chunking", <<Arg(0), Arg(0), Name("CHUNKED"), List(<<2>>)>>),
  Op("def_var_chunking", <<Arg(0), Arg(0), Name("CONTIGUOUS"), List(<<2>>)>>)}
Inquiries == {Op("inq", <<Arg(i)>>) : i \in 0 .. 1}
  \cup {Op(n, <<Arg(0)>>) : n \in {"inq_ndims", "inq_nvars", "inq_natts", "inq_unlimdim"}}
  \cup {Op(n, <<Arg(0), Arg(k)>>) : k \in {0, 2}, n \in {"inq_dim", "inq_dimlen", "inq_dimname", "inq_var", "inq_varname",
          "inq_vartype", "inq_varndims", "inq_vardimid", "inq_varnatts", "inq_var_chunking"}}
  \cup {[Op("inq_var_deflate", <<Arg(0), Arg(0)>>) EXCEPT !.found = f] : f \in {"classic", "other"}}
  \cup {Op("inq_dimid", <<Arg(0), Name("x")>>), Op("inq_varid", <<Arg(0), Name("r")>>), Op("inq_varid", <<Arg(0), Arg(1)>>),
        Outputs(6, Op("inq_var", <<Arg(0), Arg(0)>>)), Outputs(7, Op("inq_var", <<Arg(0), Arg(0)>>))}
Attributes == {Op(n, <<Arg(0), Arg(v), Name("add_offset")>>) : v \in {-1, 0},
                n \in {"inq_att", "inq_attlen", "inq_atttype", "inq_attid", "del_att"}}
  \cup {Do("get_att", m, <<Arg(0), Arg(0), Name("add_offset")>>) : m \in {"int", "double", "text"}}
  \cup {Do("put_att", "double", <<Arg(0), Arg(0), Name("add_offset"), Name("DOUBLE"), Arg(1), Arg(-6)>>),
        Do("put_att", "int", <<Arg(0), Arg(-1), Name("note"), Name("SHORT"), Arg(2), List(<<4, 4 * 40000>>)>>),
        Do("put_att", "text", <<Arg(0), Arg(-1), Name("note"), Name("CHAR"), Arg(1), Chr(<<260>>)>>),
        Do("put_att", "text", <<Arg(0), Arg(-1), Name("note"), Name("NC_CHAR"), Arg(1), Chr(<<260>>)>>),
        Op("rename_att", <<Arg(0), Arg(0), Name("add_offset"), Name("note")>>),
        Op("copy_att", <<Arg(1), Arg(0), Name("add_offset"), Arg(0), Arg(0)>>),
        Op("inq_attname", <<Arg(0), Arg(0), Arg(1)>>)}
Data2 == {Do("get_var", m, <<Arg(0), Arg(0)>>) : m \in {"double", "schar", "text"}}
  \cup {Do("get_var1", "int", <<Arg(0), Arg(0), List(<<t, 1>>)>>) : t \in {0, 3}}
  \cup {Do("get_vara", "float", <<Arg(0), Arg(0), List(<<1, 0>>), List(<<2, 1>>)>>),
        Do("get_vars", "short", <<Arg(0), Arg(0), List(<<0, 1>>), List(<<2, 1>>), List(<<2, 1>>)>>),
        Do("get_varm", "uchar", <<Arg(0), Arg(0), List(<<0, 0>>), List(<<3, 2>>), List(<<1, 1>>), List(<<1, 3>>)>>),
        Do("get_varm", "double", <<Arg(0), Arg(0), List(<<0, 0>>), List(<<3, 2>>), List(<<1>>), List(<<1, 3>>)>>),
        Do("get_varm", "double", <<Arg(0), Arg(0), List(<<0, 0>>), List(<<1, 2>>), List(<<1, 1>>), List(<<0, 1>>)>>),
        Do("put_var", "double", <<Arg(0), Arg(1), List(<<4, 8, 12, 16>>)>>),
        Do("put_var1", "double", <<Arg(0), Arg(0), List(<<3, 0>>), Arg(-7)>>),
        Do("put_vara", "int", <<Arg(0), Arg(1), List(<<1>>), List(<<2>>), List(<<4, -8>>)>>),
        Do("put_vars", "short", <<Arg(0), Arg(0), List(<<0, 0>>), List(<<2, 1>>), List(<<2, 1>>), List(<<4, 8>>)>>),
        Do("put_varm", "double", <<Arg(0), Arg(0), List(<<0, 0>>), List(<<2, 2>>), List(<<1, 1>>), List(<<1, 2>>),
                                   List(<<4, 8, 12, 16>>)>>),
        Do("put_var1", "text", <<Arg(0), Arg(1), List(<<0>>), Chr(<<260>>)>>)}
\* The operations of the netCDF-2 interface.
Finds(f, c) == [c EXCEPT !.found = f]
Inquiries2 == {Outputs(n, Op("inquire", <<Arg(0)>>)) : n \in {1, 5}}
  \cup {Op(n, <<Arg(0), x>>) : n \in {"diminq", "varinq"}, x \in {Arg(0), Name("v")}}
  \cup {Op(n, <<Arg(0), Name("x")>>) : n \in {"dimid", "varid"}}
  \cup {Op(n, <<Arg(0), Name("v"), Name("add_offset")>>) : n \in {"attinq", "attget"}}
  \cup {Op("attname", <<Arg(0), Arg(0), Arg(0)>>), Op("recinq", <<Arg(0)>>), Op("recget", <<Arg(0), Arg(0)>>),
        Op("recget", <<Arg(0), Arg(1), Arg(1)>>), Op("typelen", <<Name("FLOAT")>>), Op("typelen", <<Arg(9)>>),
        Op("parameter", <<>>), Op("parameter", <<Name("shorter")>>),
        Op("varget1", <<Arg(0), Arg(0), List(<<0, 0>>), Arg(1)>>), Op("varget1", <<Arg(0), Name("r"), List(<<9>>)>>),
        Op("varget", <<Arg(0), Name("v"), List(<<0, 0>>), List(<<-1, 2>>), Arg(1)>>),
        Op("vargetg", <<Arg(0), Arg(0), List(<<0, 0>>), List(<<2, 1>>), List(<<2, 1>>)>>),
        Op("varcopy", <<Arg(0), Arg(0), Arg(1)>>),
        Op("varget", <<Arg(0), Arg(1), List(<<0>>), List(<<0>>)>>),
        Op("vargetg", <<Arg(0), Arg(0), List(<<0, 0>>), List(<<0, 2>>), List(<<1, 1>>)>>)}
  \cup {Finds(f, Op("varcopy", <<Arg(0), Arg(0)>>)) : f \in {"nothing", "other"}}
Changes2 == {Op("endef", <<Arg(0)>>), Op("dimdef", <<Arg(0), Name("y"), Arg(1)>>), Op("setfill", <<Arg(0), Arg(256)>>),
  Op("dimrename", <<Arg(0), Name("x"), Name("a")>>), Op("setopts", <<Arg(3)>>), Op("err", <<>>),
  Op("vardef", <<Arg(0), Name("w"), Name("SHORTER"), Arg(-1), List(<<0>>)>>),
  Op("varrename", <<Arg(0), Name("v"), Name("u")>>),
  Op("attput", <<Arg(0), Arg(-1), Name("note"), Name("NC_CHAR"), Arg(-1), Chr(<<260, 264>>)>>),
  Op("attput", <<Arg(0), Name("v"), Name("add_offset"), Name("FLOAT"), Arg(1), Arg(-2)>>),
  Op("attput", <<Arg(0), Name("vv"), Name("note"), Arg(9), Arg(1), Arg(4)>>),
  Op("attcopy", <<Arg(1), Name("v"), Name("add_offset"), Arg(0), Name("v")>>),
  Op("attrename", <<Arg(0), Name("v"), Arg(1), Name("note")>>), Op("attdel", <<Arg(0), Arg(0), Name("add_offset")>>),
  Op("varput1", <<Arg(0), Name("r"), List(<<0>>), Arg(-7)>>),
  Op("varput", <<Arg(0), Name("v"), List(<<1, 0>>), List(<<2, -1>>), List(<<4, 8, -6, -9>>), Arg(1)>>),
  Op("varputg", <<Arg(0), Arg(1), List(<<1>>), List(<<2>>), List(<<1>>), List(<<>>), List(<<4, -8>>)>>),
  Op("recput", <<Arg(0), Arg(1), List(<<4, 8, 12>>), Arg(1)>>), Op("recput", <<Arg(0), Arg(0), List(<<4>>)>>)}
\* Data that are none, or not of the kind of the variable.
Improper2 == {Op("varput1", <<Arg(0), Name("r"), List(<<0>>), List(<<>>)>>),
    Op("varput", <<Arg(0), Name("r"), List(<<0>>), List(<<1>>), List(<<>>)>>)}
  \cup UNION {{Finds(f, Op("varput1", <<Arg(0), Name("r"), List(<<0>>), Chr(<<260>>)>>)),
               Finds(f, Op("varput", <<Arg(0), Name("r"), List(<<1>>), List(<<1>>), Chr(<<260>>)>>)),
               Finds(f, Op("varput1", <<Arg(0), Name("v"), List(<<0, 0>>), Arg(NaN)>>))} : f \in {"nothing", "other"}}
MCCalls == Files \cup Definitions \cup Inquiries \cup Attributes \cup Data2 \cup Inquiries2 \cup Changes2
  \cup Improper2

\* The same by number or by name.
MCTwins == {
  <<Op("endef", <<Arg(0)>>), Op("enddef", <<Arg(0)>>)>>,
  <<Op("dimdef", <<Arg(0), Name("y"), Name("UNLIMITED")>>), Op("def_dim", <<Arg(0), Name("y"), Name("UNLIMITED")>>)>>,
  <<Op("dimrename", <<Arg(0), Arg(0), Name("y")>>), Op("rename_dim", <<Arg(0), Arg(0), Name("y")>>)>>,
  <<Op("vardef", <<Arg(0), Name("w"), Name("NC_INT"), Arg(-1), List(<<1, 0>>)>>),
    Op("def_var", <<Arg(0), Name("w"), Name("NC_INT"), Arg(2), List(<<1, 0>>)>>)>>,
  <<Op("varrename", <<Arg(0), Arg(1), Name("v")>>), Op("rename_var", <<Arg(0), Arg(1), Name("v")>>)>>,
  <<Op("attput", <<Arg(0), Arg(1), Name("note"), Name("FLOAT"), Arg(-1), List(<<4, 6>>)>>),
    Do("put_att", "double", <<Arg(0), Arg(1), Name("note"), Name("FLOAT"), Arg(2), List(<<4, 6>>)>>)>>,
  <<Op("attrename", <<Arg(0), Arg(0), Name("add_offset"), Name("note")>>),
    Op("rename_att", <<Arg(0), Arg(0), Name("add_offset"), Name("note")>>)>>,
  <<Op("attdel", <<Arg(0), Arg(0), Name("scale_factor")>>), Op("del_att", <<Arg(0), Arg(0), Name("scale_factor")>>)>>,
  <<Op("attcopy", <<Arg(0), Arg(0), Name("add_offset"), Arg(0), Arg(1)>>),
    Op("copy_att", <<Arg(0), Arg(0), Name("add_offset"), Arg(0), Arg(1)>>)>>,
  <<Op("varput1", <<Arg(0), Arg(1), List(<<2>>), Arg(-7)>>), Do("put_var1", "double", <<Arg(0), Arg(1), List(<<2>>), Arg(-7)>>)>>,
  <<Op("varput", <<Arg(0), Arg(0), List(<<2, 0>>), List(<<2, -1>>), List(<<4, 8, -12, 16>>)>>),
    Do("put_vara", "double", <<Arg(0), Arg(0), List(<<2, 0>>), List(<<2, 2>>), List(<<4, 8, -12, 16>>)>>)>>,
  <<Op("varputg", <<Arg(0), Arg(1), List(<<1>>), List(<<2>>), List(<<2>>), List(<<>>), List(<<4, -8>>)>>),
    Do("put_vars", "double", <<Arg(0), Arg(1), List(<<1>>), List(<<2>>), List(<<2>>), List(<<4, -8>>)>>)>>}
MCScripts == {<<>>, Define, WithData, OnDisk, Copying}
MCValues == {-9, -8, -6, -4, -3, -1, 0, 1, 2, 4, 7, 8}
MCBegins == [shorter |-> "SHORT"]
=============================================================================
