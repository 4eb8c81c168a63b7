# Models of the file libraries of this repository

The repository turns the results of Delft3D-FLOW (`trim-*.dat`, `trih-*.dat`, in the
NEFIS format) into netCDF: `batch_convert.sh` runs `vs_trim2nc.m` and `vs_trih2nc.m` in
Octave over a directory. Around that stands the OpenEarth toolbox, most of it scripts
that compute and plot. The parts with state of their own, which many calls share and
which can go wrong in more than one call, are its libraries for files:

- **NEFIS** (`src/applications/delft3d_matlab/vs_*.m`), written in MATLAB: chained hash
  tables, trees of pointer tables and append-only records in a file, changed in place by
  several small writes with no log, and structures in memory that mirror it and go stale;
- **mexnc** (`src/io/netcdf/mexnc/src/*.c`), in C: the gateway from MATLAB to the netCDF
  library, with some ninety operations of three generations of that interface;
- **shapelib** (`src/applications/gis/shapelib.c`), in C: shape files, their index and
  their attribute table, and two readers of them for MATLAB.

These three are what the modules are about. File names without a directory are in these
three directories.

## 1. Inventory

| part | state | operations | interacts with |
|---|---|---|---|
| NEFIS hash tables (`vs_def.m` 848-997, `vs_use.m` 977-1062) | 997 bucket heads per table, a link in every record, the file size in the header | AddToHashTable, RemoveFromHashTable, UpdateFileSize, ReadHashTableGetNonEmptyBuckets | every other NEFIS part; another program may scan the same file |
| NEFIS definitions (`vs_def.m` 105-846) | elements, cells, group definitions, data groups on file, linked by name; the same in a structure, linked by index | create, easy create, remove, purge, *remove, *purge | hash tables; the `lastread` structure of `vs_use.m` |
| opening (`vs_use.m`) | `VSKeep`, the lastread structure | read all four tables, resolve names, scan pointer tables | all NEFIS parts |
| creating (`vs_ini.m`) | - | write headers and empty tables | `vs_use` |
| variable dimensions (`vs_put.m` 768-888, 1103; `vs_def.m` 298-336; `vs_use.m` 541-595; `vs_let.m` 1187-1249) | a tree of four levels of pointer tables per group, cached tables during a call, `SizeDim` in memory | make, grow, scan, read | data records |
| attributes (`vs_put.m` 160-312) | 5 integers, 5 reals, 5 strings in the group header and in memory | set, replace, delete in a list | data behind the header |
| mexnc gateway (`mexgateway.c`) | the netCDF-2 options | find the operation by name, check the numbers of arguments, dispatch | the three below |
| mexnc netCDF-3 (`netcdf3.c`, `common.c`) | - (the library's open datasets) | 46 handlers: files, dimensions, variables, attributes, data | netCDF library |
| mexnc netCDF-4 (`netcdf4.c`) | - | chunking and compression | netCDF library |
| mexnc netCDF-2 (`netcdf2.c`) | - | one switch: the same things by number or name, scaled data, records | netCDF library, some netCDF-3 calls |
| netCDF library | open datasets, define mode, fill mode, files | outside the repository | - |
| shape files (`shapelib.c` 180-2000) | the index in memory (offsets, sizes, room), bounds, sizes, `bUpdated`; `.shp` and `.shx` | create, open, write, read, rewind, close | stdio |
| attribute tables (`shapelib.c` 2060-3422) | one buffered record, current and modified flags, `bUpdated`, `bNoHeader`; `.dbf` | create, add field, open, write and read attributes and tuples, clone, close | stdio |
| readers (`shp_read.c`, `dbf_read.c`) | - | closed files to arrays | the two above |
| data of fixed groups (`vs_put.m`, `vs_let.m`) | the records | index arithmetic, transposition | - |
| copy, pack, compare, queries (`vs_copy.m`, `vs_pack.m`, `vs_diff.m`, `vs_disp.m`, ...) | - | compositions of the above, or pure | - |
| batch conversion (`batch_convert.sh`, `slicedata.py`, `docker-compose.yml`) | the `.dat` and `.nc` files of a shared directory | find, skip if the `.nc` exists, convert | Octave |
| conversion (`vs_trim2nc.m`, `vs_trih2nc.m`) | the `.nc` file | delete, write schema, fill, write ranges | opening, reading |

What is hard, and what makes each part correct:

- *Hash tables.* A creation is append, link, size; a removal is one link; a kill may come
  between any two, a scan by another program too, and calls come from stale structures.
  Correct: every chain is exactly the records that are in the table, in file order; no
  name twice; scans complete, without duplicates and finite.
- *Definitions.* One call makes up to three records or removes a whole tree, by
  recursion, renumbering indices on the way. Correct: nothing on file uses something
  that is gone, at any instant; memory is what reading again would give; a removal takes
  exactly what its command stands for.
- *Variable dimensions.* `vs_put` works on cached tables and writes them back whole; a
  call may end after any write. Correct: the pointers are a tree; what is written is
  found; the dimension computed by the scan, the one kept in memory and the indices
  written agree.
- *Attributes.* Three kinds of slots written over one header. Correct: a call changes
  the attributes it names and nothing else.
- *mexnc.* Each handler unpacks untyped arguments, calls the library in a mode it may not
  be in, and packs the outputs whether the call went well or not. The netCDF-2 library
  ends the process on an error if an option is set. Order of dimensions, strides, index
  maps, scaling and rounding are arithmetic that goes wrong silently. Correct: no error of
  the library ends MATLAB, an error of MATLAB changes no file, no output is memory nobody
  wrote, old and new operations agree, what is written is read. Some calls do end MATLAB,
  by a division by zero, an assertion or a pointer to nothing; they are steps of the model.
- *Shape files.* Places are kept in an index in memory until the end; a shape is written
  over the old one or behind all others; bounds grow with it. Correct: shapes read back,
  whole also after a kill, and beside one whose write failed; bounds cover them; rings are
  wound as the format wants.
- *Attribute tables.* One record is buffered, perhaps changed; the count of the header
  lags behind. Correct: rows read back whatever moved through the buffer, and the header
  counts only whole rows.
- *Readers.* They size arrays in a first pass and fill them in a second with separators.
- *Batch conversion.* A `.nc` file counts as a result once it exists. Nothing guards it.

`PROJECT.json` lists the hazards line by line with the properties that would notice.

## 2. Modules

`NefisHash` implements `NefisStore`; `NefisDef` uses what that promises. `MexncGateway`
extends `MexncTwo`, which extends `Mexnc`, which extends `Netcdf`. `ShapeLayer` extends
`Shapefile` and `Dbf`, which share `Stdio`. Each `MC...` module is an instance of the
module it is named after.

### NefisStore - what a name table promises

A partial map from names to record identities; an identity is bound at most once.
`NefisHash` implements it (`ImplementsStore`).

### NefisHash - one hash table, write by write

State: `table` (bucket heads), `records` (link and name of every record ever appended),
`size` (header), the session's structures `mem[h]`, the call in progress `op`, and a
scan in progress (`reader`, `work`, `pos`: `NonEmptyBuck` and `i`). Offsets are ranks;
Nil, all ones in the file, is larger than all of them.

| action | code |
|---|---|
| AppendRecord | the `fwrite`s up to AddToHashTable in the four Local_create functions |
| WalkOn, LinkRecord | the loop and the last `fwrite` of AddToHashTable |
| CreateDone, CreateRefused | UpdateFileSize, the entry in the structure; the message |
| BeginRemove, FindOn, UnlinkRecord | Local_remove, the loop and the `fwrite` of RemoveFromHashTable |
| RemoveDone, RemoveFailed | the end of Local_remove |
| BeginScan, ScanRecord, EndScan | ReadHashTableGetNonEmptyBuckets and `vs_use` around it |
| Crash | the session is killed between any two writes |

`live`, `lost`, `fresh`, `keep` and `ever` are history. `IsData` separates the table of
data groups, whose entry enters the structure even after a refusal, from the others.

### NefisDef - definitions

State: `records` and `live` (the file), `mem[h]` with four lists whose entries hold
indices into the list below and the set `bare` of lists that are still the `[]` of
`vs_use`, and the call with its stack `call.todo` of activations of Local_remove.
Creating or unlinking one record is a step here; `NefisHash` has what it consists of,
and `NefisStore` is the reason this may be one step. `Keep` is the lastread structure,
`Vars` the user's variables; `Returned` says who gets the result of a call.
`Left(cmd, o)` defines independently, on the graph of records, what a removal should
leave. `Ascending` is the order in which `vs_use` meets the records of a file,
`Descending` and `Largest` the two loops over sorted indices of Local_remove.
Nearly all properties are about behaviours in which no call has changed the file from a
stale structure (`clean`): after that the code keeps none of them, as DefStale and
DefAlias show. `GivenAssumption` says of the file to begin with what `vs_ini` and Delft3D guarantee: no
two records of one kind and name, and nothing used that is not there. Arguments that are only validated (types, sizes, orders) are the choice `fits`.
Duplicate lists, undefined names (index 0), missing lists and dropped messages are kept.

### NefisVarDim - pointer tables

State: `blocks` (tables and records in file order), `dim[h]` (SizeDim), the `vs_put`
call with its cached tables `tab`, their addresses `off` and the digits `last` they
belong to. An index has four digits in base `Radix`, 256 in the code. Every write is a
step; `Fail` and `Crash` may follow any. `Scan` is the loop of `vs_use`, which adds at each
level the `Part` of the last pointer used and follows it; `ReadNext` is one index of the
loop of `vs_let` with its own cache (`Fetch`), `Below`/`RecordOf` the plain meaning both
are compared with. The branch of `vs_put` for a pointer that turns up only when rechecked
(880-886) is no action: that it is never reached is part of `TypeOK`. Records are one
value each. A call given a structure from before another call is covered by `dim`
lagging behind.

### NefisAttributes - the header of a data group

State: the words of the file from the attributes on, and the attributes in each
structure: names by kind, values as MATLAB holds them, a matrix with one row per slot
reached (`SetRow`). `Meaning` and `Asked` say, on sets of name, kind and value, what a
call should come to. The six fields are written in one step since they stay in the
buffer of the C library until the file is closed. The check that the names of group
and definition in the header are those in memory (296-303) can only refuse a call, so
it is part of `PutRefused`.

### Netcdf - the library behind mexnc (external)

One operator per `nc_...` or `nc...` call that `netcdf3.c`, `netcdf4.c` and `netcdf2.c`
make: from a state [disk, open, err, opts, dead] to the next, a status and the outputs,
which a failing call leaves at `Undef`. It has names that are unique, define mode, the
record dimension and its growth, fill values, conversion with range errors, abort and
redefinition, file ids that are given out again. It is written from what the
handlers rely on and from the documentation of the library. Numbers are quarters, so
that a conversion to an integer type loses something.

### Mexnc, MexncTwo, MexncGateway - the gateway

A handler of the source is an operator of the same name: [state, arguments] to [state,
end, outputs], `end` being reply, error (raised in MATLAB) or crash; a session ends with a
crash. Arguments are class and list of values, and `found` of a call is what the code finds
where it reads memory it does not own; the checks of `common.c` are `Numeric`, `Chars`, `ModeLike`. The five
get and put operations, for six types each, are one handler in the source and here; the
order of dimensions and the sizes of arrays are followed element by element
(`set_output_matrix_rank`, `determine_varm_output_size`). In `MexncTwo` there is an
operator for each case of the switch of `handle_netcdf2_api` that is dispatched to, with
`m53_round`, the scaling and `nc_err` of records. The division of whole numbers is that
of C, toward zero.

`MexncGateway` has the table of operations (`ops`), the search for a name with its
prefixes (`opname2opcode`), the checks on numbers of arguments and empty ones, the reset
of NC_FATAL and the dispatch. A call of `mexFunction` is one step (`Issue`); a behaviour is
a session, which begins with the calls of a script, one by one (`Prepare`), and goes on
with any `MaxCalls` calls (`Operation(c)`). The properties about replies are stated over every call that is possible in a
state, not only the one that is taken next.

The status of a netCDF-3 operation is zero when it went well; those of netCDF-2 reply an
id, a number or 1, as the library and the handlers make it, and `Succeeds` is the
difference (the tests look for a status below zero, `test_attrename.m:50`).

The crashes that are steps: a zero in the index map of get_varm (`netcdf3.c:129`), a count of
zero in VARGET and VARGETG (`netcdf2.c:830`, `1053`), the argument of VARCOPY that is not
there (`1129`), empty data of VARPUT1, VARPUT and VARPUTG, and the assertions of `m53_round`
(`2269`). Characters given as numbers are read as doubles (`627`, `736`), so that what is
written is `found`; an assertion that fails may also be compiled out. What is not among the
calls: lists shorter than a variable has dimensions, behind whose end a handler reads
(`Fits`, the only calls a session leaves out), distances below zero in an index map, further
empty arguments where a name is expected, and NaN or characters as values of numeric attributes.

### Stdio, Shapefile, Dbf, ShapeLayer - layers

`Stdio`: a file as its program sees it, and as the disk has it without the last write.
Each write of `shapelib.c` follows an `fseek`, which flushes the one before; a kill
leaves one of the two. A write is taken to reach the disk whole or not at all.

`Shapefile`: `shp` is the content of the `.shp` file, a map from byte positions to values,
`shx` the index file, `h` the SHPHandle. A record is laid out byte by byte as
SHPWriteObject does (`Record`, `RecordSize`), so that a record over another, a size in
the index that is not that of the record and measures found behind a shape are what they
are in the file. SHPCreate is four steps: it empties the `.shp` file (`SHPCreate`), then the
`.shx` file (`EmptyIndex`), and closes them with headers in them (`HeadShapes`, `HeadIndex`);
kills and readers come between them. A write that fails (`SHPWriteFails`, 1234-1240) leaves
the index, the sizes and the room changed, the bounds not, and what was written before it
either flushed or lost; `failed` holds the shapes it concerns until they are written again.
`SHPRewindObject` works on the vertices: crossings of the other rings
say whether a ring is an inner one, the sum of cross products how it is wound. Closing
is two steps, `CloseIndex` and `CloseShapes`, with a kill between them possible.

`Dbf`: `tab` is the `.dbf` file, `d` the DBFHandle: buffered record, current record,
`bCurrentRecordModified`, `bUpdated`, `bNoHeader`. The operators `DBFFlushRecord`,
`ReadRow`, `SeekRow`, `Changed` are the ones of the source and are composed as it does.
A value that is cut to the width of its field, or not a logical, is stored as the code
does (`Cut`, `Stored`).

`ShapeLayer`: a session works on shapes or on the table (they share nothing in
`shapelib.c`), and `shp_read` is a function of the closed files.

`last`, `drafts`, `wound`, `failed`, `harm`, `told`, `rowDrafts` are history: what the user was told
is in the file, and what each shape or row was at some time since the file was opened,
which is what a kill may leave.

### Wrong versions beside the definitions

Definitions whose comment starts with "(slip)", and in the modules on shape files and
mexnc the operators named after another with a word behind (`MovesNever`,
`ReadRowUnflushed`), are not part of the models: each is a plausible wrong version of the
definition after it, used to see that a property notices.

## 3. Runs

| run | instance | shows |
|---|---|---|
| HashDef | 3 names, 2 in one bucket, 2 symmetric handles, 3 records | chains and structures of a definition table; the refinement of `NefisStore` |
| HashScan | 1 handle and a foreign reader, 4 records | scans beside a writer; termination |
| DefKeep | 2 elements, 2 cells, a group definition, a data group by easy creation; the given cell has two elements, new ones have one; 6 records; lastread and a variable beside it | while no call has changed the file from a stale structure: nothing dangling, nothing wrongly refused, exact removals, renumbering |
| DefTwice, DefStale, DefAlias | DefKeep with another definition and one more freedom | three defects, below |
| VarDimPut | radix 2, indices up to 12, 3 calls of up to 3 indices, 14 blocks | the tree, the scan, the cached tables, reading back |
| VarDimGap | the same | a defect of `vs_let` |
| AttrOne | 2 slots of each kind, at most one number of a kind | attributes mean what was asked |
| AttrTwo | 2 slots, two integers | a defect of `vs_put` |
| Mexnc | 2 file ids, 2 files, 5 beginnings of sessions, 163 calls, any 2 of them after the beginning | sessions through all handlers |
| Shape | 6 types of layer, 2 shapes and 4 writes; 2 fields, 2 rows and 4 writes | layers under replacing, failing writes, reopening and kills |

Why the bounds are enough to be interesting:

- *Hash*: two names in a bucket give chains of two and three with removed records
  between; a third bucket-mate would only lengthen them, and the invariants are proved
  without bounds.
- *Def*: the file starts with elements, a cell of two elements and a group definition,
  and an easily created data group shares an element with that cell, so there are users
  to refuse, users to remove first, shared and unshared things to purge, and
  renumbering. The further records allow removal and re-creation. `WhileClean` cuts off
  behaviours in which a call has already changed the file from a stale structure: the
  invariants promise nothing then, and DefStale shows why.
- *VarDim*: radix 2 makes 2, 4 and 8 each need a table on another level, which in the
  code happens at 256, 65536 and 2^24. 3 calls are a first, one cut short, and one after.
- *Attributes*: two slots are one more than the code gets right for numbers.
- *Mexnc*: the beginnings are a session with nothing, one in define mode, one with data
  in a file with a record dimension and a scaled variable, a closed file, and two
  datasets open beside each other. The calls contain every operation of the gateway,
  right and wrong ones. Two further calls bring it into another mode and then use it
  there; a third gave nothing new but time. The properties then look one call further,
  and two where something is written and read.
- *Shape*: two shapes of unlike sizes are one that moves behind the other, one that
  shrinks in place, and the closing and opening between them; rings in rings in rings
  are the odd and the even number of crossings; no vertex lies on the ray of another ring,
  so the edge of those comparisons is not met. No second write fails while the first is not
  made good. `WhileWhole` leaves out layers that were killed within SHPClose, see below. Two rows of two fields are the row in the buffer,
  the other, and a field that must keep its value while its neighbour changes.

`MaxRec`, `MaxBlocks`, `MaxPuts`, `MaxCalls`, `MaxShapes`, `MaxRows`, `MaxFields`,
`MaxWrites` are bounds of the models only.

Deadlock is checked in every run but Mexnc, where a session ends after `MaxCalls`
calls or with a crash.

### Fairness

Only HashScan uses `FairSpec`: weak fairness of the steps of a call that was begun and
of a scan that was begun. MATLAB and Octave run a call to its end on one thread, and no
loop waits for anything. Nothing makes anyone begin a call, and a kill is never forced.
The handlers of mexnc and the functions of shapelib have loops over lengths only.

### What the violation runs show

- DefTwice: `purge` of a cell that lists an element twice can remove an element that
  has nothing to do with it (`vs_def.m:798`).
- DefStale: after an easy creation that failed at its last step the lastread structure is
  behind the file: it holds a cell but not the group definition on file that uses it, and a
  removal from that structure unlinks the cell (`vs_def.m:214`).
- DefAlias: `*remove` of a group definition goes on after its data group could not be
  unlinked; the data group stays in the structure with the index of a definition that is
  gone, here into an empty list (`vs_def.m:732`).
- VarDimGap: `vs_let` follows a pointer that is not set (`vs_let.m:1215`).
- AttrTwo: the second number of a kind makes `vs_put` write past the header
  (`vs_put.m:267`).

Met on the way, without a run of their own:

- `remove` of a group definition or cell ends in an error of MATLAB in a file whose
  list above has never been filled and is still `[]` (`vs_def.m:722`, `767`). The step is
  in the model (`RemoveRaises`).
- The crashes listed under MexncGateway above. get_varm divides by its index map
  (`netcdf3.c:129`) before the check that, says its comment (`146`), is to keep MATLAB from
  crashing.
- SETFILL takes the id of the dataset for the fill mode (`netcdf2.c:1608`), where `mexnc.m:524`
  has the mode as the second argument.
- VARPUTG and RECPUT do not round: values below zero in an unscaled integer variable are
  cut toward zero, where VARPUT rounds (`netcdf2.c:1377`). `RecordRoundTrip` is therefore
  stated for values from zero up.
- The name of a netCDF-2 parameter need only begin like one, and a name of a variable that
  does not exist is taken for number -1, all attributes of the file (`netcdf2.c:278`).
- SHPClose closes the index before the shapes; killed between the two, the size in the
  header of the `.shp` file is the old one, the next opening of the layer places shapes over
  the last ones (`harm = "torn"`). SHPCreate on an old layer has its old index beside an empty
  `.shp` file for a moment (`"emptied"`). The properties on shapes leave such layers out.
- SHPWriteObject that fails to append returns -1 but has counted the shape; a caller that
  appends it again has one more shape than it knows of (`shapelib.c:1207`, `1239`).
- The bounds of a layer are those of the next shape whenever they are all zero, so that a
  shape at (0, 0) may not be covered; after a kill they may be those before the last
  shapes. `BoundsCover` leaves out both.

## 4. Proofs

### NefisHash_proofs

For all names, buckets, hash functions, handles and record bounds, from the assumptions
named in `NefisHash`:

| theorem | states |
|---|---|
| Typing | `TypeOK` |
| ChainsAreTheRecords | `ChainOK` |
| NamesAreUnique | `UniqueNames` |
| ReturnedIsExact, FreshSucceeds | `FreshExact`, `FreshNeverRefused` |
| NothingUnreal | `NoPhantom`, for definition tables (no run checks it) |
| ScansAreComplete, ScansAreDistinct | `ScanComplete`, `ScanDistinct` |
| Refinement | `ImplementsStore` |

The argument is one inductive invariant, `IInv`. `ChainOK` alone is not inductive:

- a removed record keeps its link, and a removal or scan may stand on it, so
  `LinksForward` bounds the links of all records, live or not: they lead forward, in
  their bucket, and skip no record that is live;
- `OpOK` says for the call in progress how far it has come: a creation at `cur` has
  seen no record of its name up to there, a removal stands at or before the record it
  looks for, so that the link it replaces is the one `ChainOK` speaks of;
- `MemOK` and `LostOK` tie structures to records: an entry names its record, a record
  lost in a kill never becomes live;
- `ScanOK` says for a scan that what it has still to find lies behind what it has found:
  a record kept throughout is reached from the work list, and the work list grows in
  every chain only forwards, which also excludes duplicates.

Each action preserves each conjunct in a step of its own; the refinement then follows
from `IInv` with every action mapped to a step of `NefisStore` or a stutter.

### Dbf_proofs

For every set of fields and values and all bounds: `RowsReadBack` (every row reads as it
was last told) and `KillKeepsRows` (the rows that a header on disk counts are whole ones
that were told) hold in every behaviour of `DbfSpec`, which is what a session of
`ShapeLayer` on a table does.

`RowsReadBack` says what reading would give; that is a function of the file and of the
buffer, so what must be carried along is where each row is. `Holds(s, T, D)` says it of a
state [file, handle], the rows T told and their drafts D:

- `Reads`: the row in the buffer is the told one, every other is in the file;
- `Settled`: a row in the buffer that is not marked modified is in the file, too, so that
  leaving it without a flush loses nothing;
- `Kept`, `Drafted`: what the file and its safe copy count are drafts; told rows are;
- `Counted`: a count in the header that is not the handle's is one the handle knows of
  (`updated`), so that closing corrects it;
- `GoodState`: a header comes before the first row, and never counts too many.

One lemma for each operator of the source says that it keeps `Holds` and where it leaves
the buffer (`RecordFlushed`, `RowFetched`, `RowSought`, `RowWritten`); the actions are
compositions of these operators, as they are in the source.

### NefisDef_proofs, NefisDefRemoval_proofs

For all names and lists of names, files to begin with, variables and bounds:

| theorem | states |
|---|---|
| TypeCorrect | `TypeOK` |
| (the rest as long as no call has changed the file from a stale structure) | |
| UsesAreHeld | `NoDangling` |
| StructuresFollow | `FreshExact` |
| IndicesLeadRight | `IndicesSound` |
| NothingMissed | `FreshNeverRefused` |
| RemovalsAreExact | `RemovesExactly`, if no cell lists an element twice (`ElementsOnce`) |

Beside the file and its structures, the properties speak of the middle of a call, so the
invariant `IInv` has to say what the stack `call.todo` may hold and why each step of it
is still right after those before it have renumbered every index:

- `Read(R, L)` is what `vs_use` makes of the linked records L, with no reference to a state.
  `ReadAdd`, `ReadRemove` are the heart of the matter: appending an entry to the lists is
  what reading the file with one more record gives, `DropList` what reading it with one
  less gives, provided the record had no users. They rest on `Ascending` being the only
  order of its set (`OneOrder`), and that each finite set has one (`OrderExists`), which
  takes a least counterexample.
- `SoundIn(R, l)`: indices lead to the names of the records. It survives the removal of
  an entry without users (`DropSound`), whether the structure is up to date or not.
- `Shape(todo, l)`: what is left to do is creations (`Creates`), or removals that look
  first whether a record is used (`Plain`), or removals after those of the users
  (`Starry`), which are ordered: higher levels first, in one level higher indices first. The
  order is why an index that waits on the stack still means the same entry when the
  steps before it have been made (`DropStarry`): it is never behind one that is removed.
- `Guarded(todo, l)`: a record that is removed without another look has no users but
  those that are removed before it. A step "unlink" at the head thus has none at all.
- `CallClean`: the structure in the middle of a call that began up to date is `Read` of
  the file, after every step; so no record of it is missing, and `Guarded` holds.

Only the last two and `FileClean` (nothing is used that is not linked) depend on
`clean`; the rest holds for stale structures, too. `ExpandStarry` puts the users of a
record on the stack before it, `UnlinkShape` takes a record off and what a purge removes
below it onto the stack.

`RemovesExactly` compares what a removal leaves with `Left`, which is said before the
first step on the graph of records. It is false for a cell that lists an element twice
(DefTwice), so `RemovalsAreExact` assumes `ElementsOnce`: neither the lists the user gives
nor the cells of the file to begin with do, as in DefKeep. The invariant (`Exact` in
`RInv`) is that what the stack still has to do, from the file and the structure as they
are now, leaves the goal (`Comes`). It has to say so of every stack that can arise:

- `Ones`: one record, or the elements of a purged cell in the order of falling indices;
  those that nothing uses go (`Free`);
- `Purge`: one record, and what then is needed by nothing else (`Loose`);
- `WithUsers`, `Around`: a starred removal with the users that were put before it; all that
  is above any of them goes (`Over`), and for `*purge` then what is loose below the last.

`GoalComes` shows that the first task of a call comes to `Left`: three steps up or down the
levels reach everything above or below (`AboveIsOver`, `DownFalls`, `UnneededIsLoose`). Then
one lemma for each step of Local_remove: a record that is used stays (`UsedKept`), its users
put before it change nothing (`UsersKept`), and when it goes, what it used is loose only
if it has lost its last user (`UnlinkKept`, from `LooseStep`, `OverStep`, `FreeStep`). That
the stack names records by indices that are renumbered under it is `TargetsLater`: after
`DropList` each task that is left still has the record it had. That a starred purge takes
what is below the record it was given, and nothing below its users, is in `Around` as it
is in the code: the users are removed with `*remove`.

### NefisVarDim_proofs, NefisVarDimScan_proofs

For every base above one, all indices of four digits, numbers of blocks and calls:

| theorem | states |
|---|---|
| TypeCorrect | `TypeOK` |
| TreeOfPointers | `PointersApart` |
| FindsWhatWasWritten | `WrittenIsFound` |
| DimensionFound | `ScanExact` |
| DimensionReturned | `NewDimExact` |
| ReadsWhatWasWritten | `ReadsBack` |

`IInv` says that there are levels `lev` of the blocks, which the code does not store:
`Tree(lev)` has each pointer lead one level down, so that tables and records do not mix and
no path is longer than four. `Keeps` says what the cached tables of `vs_put` are: the copy
of a level is the table at the address kept for it, which is the one the digit kept for
the level above leads to, even after a call that was about to link a table; so rewriting
a table whole changes one pointer (`Pending`). `AllFound` is `WrittenIsFound` for all
indices of four digits, not only those of the instance; that a new table takes no other
index along is that digits of different indices differ somewhere (`Powers`).

The dimension needs two more parts (`ScanInv`). `HollowOK`: a linked table without a pointer,
at which the scan would stop, is only the one the current call works on, or `torn` is set.
`ExactOK`: during a call the dimension the structure had is that of the file until a
pointer is set, and then the file has not grown beyond the largest index of the call.
`ScanFacts` ties the numbers the scan adds to the path it has followed: they are the
digits of an index that is written, and none that is written is greater.

`ReadsBack` follows from `Tree` and `AllFound` by what `vs_let` holds between two records
(`Holds`): the digit last looked up in a table is the one by which the table below it
was read. One look-up keeps this and brings the next table of the path (`FetchFollows`),
so that the record of any written index is read, whatever was read before (`RecordRead`).

### NefisAttributes_proofs

For all names, values, lists of them, numbers of slots and variables, under the hypothesis
`RowsOnly`: no call that succeeds gives an integer or a real a slot other than the first of
its kind.

| theorem | states |
|---|---|
| TypesRight | `TypeOK` |
| AttributesRight | `MeansWhatWasAsked` |
| NamesStayApart | `NamesApart` |
| DataStays | `DataKept` |

The hypothesis is where the code is right: with a second number the values become a matrix
and the data are written over, which AttrTwo shows. It restricts steps, not states or
lists, so it speaks of the calls that are made; every step of AttrOne satisfies it. What is
left are any number of strings, deletions, replacements, conversions of whole numbers to
reals, refused calls and stale structures.

`IInv` says of the file and of every structure, stale or fresh, that it is `Good`: its
matrices are rows (`Rows`), only the first number of a kind is in use (`FirstOnly`) and no
name stands twice (`Apart`). `FirstOnly` is needed because setting a number sets its whole
row: what stands beside it must be unused (`Beside`). Three lemmas say what one change
does to the meaning (`Assigned`, `Created`, `Deleted`); `AllChanges` carries them along a
list by a least counterexample. In the middle of a call a matrix may have grown, and the
hypothesis speaks of its end only; `RowSet` shows that a matrix never loses a row, so that
one that is a row in the end has been one all the time. `Written` and `ReadBack` say that
what is written over the fields is what is read from them.

### MexncGateway_proofs

`ErrorsKeepFiles` (`RaisesKeepFiles`) needs no invariant: `CallHarmless` says it of a call
with any arguments in any state. The handlers are gone through one by one. Those of
`netcdf3.c` and `netcdf4.c` make inquiries at most before the last check of their arguments;
some of `netcdf2.c` raise an error behind a call, but only of an inquiry,
which leaves the files as they were even when its failure is noted. `EveryOperationHasACase`
says that no operation of the table (`ops`) is without a case of a switch. What is taken on
trust is `Netcdf`, the external library: that inquiries and reading change nothing.

`ErrorsAreNotFatal` (`NoErrorIsFatal`) is about the option NC_FATAL, with which the netCDF-2
library ends the process at an error; it says nothing of the crashes listed above. It rests
on the invariant that no error has ended the process and that the options are a number
(`Quiet`), and on a stronger state of affairs within a call: NC_FATAL is not among the
options (`Calm`). `mexFunction` brings it about, each call of the library keeps it, so that
noting an error (`Two`) ends nothing, and only SETOPTS, the last thing its handler does, may
leave it. `NoErrorIsFatal` by itself is not inductive, nor is `Calm` an invariant between
calls. `SessionsAssumption` is that sessions consist of commands and that SETOPTS is given
whole numbers, which `Scalar2Int` (`netcdf2.c:1621`) makes of anything.

`RoundNearest`: `m53_round` of a quotient of whole numbers is a nearest whole number, on
both sides of zero, where the division cuts toward zero. `ScaledReadBack`: a number that
VARPUT scales, rounds and stores in an integer type whose range it does not leave is
read by VARGET within half a scale. `ScaledRoundTrip` is the same of whole calls on
the instance, through checks, dispatch and library.

### Only model-checked

`CallsEnd` (liveness); of mexnc the rest of `TypeOK`,
`NoGarbage` and `TwoApisAgree`, which say more of the library than the proofs use, and
`ScaledRoundTrip`, `ShapeReversed`, `VarmTransposes` and `RecordRoundTrip`, whose values are
folded over the elements of arrays; shapes, whose bytes and rings are folded over sequences;
the reader of shapes.

No theorem needs the induction theorems of the library, which the provers cannot
instantiate: where an argument is by induction on a number (that a set has an order, that
a sequence has a largest element) it is by a least counterexample, from `WFMin`.

## 5. Not modelled

- NEFIS: headers, byte order and 32/64-bit addresses; validation of arguments beyond
  accepting or refusing; data of fixed groups; copying, packing and comparing; creation of
  a data group with attributes as one call (`vs_def.m` 338-357); the
  second header of a pair of files (989-997). A data group that is refused but enters the
  structure is a step of NefisHash and NefisDef, but no property speaks of what it leaves; an
  attribute name in several slots, which never arises (`NamesApart`), is refused in
  NefisAttributes where the code may set several. The hash function is any
  function from names to buckets. Two sessions writing one file at the same time is
  outside: nothing in the code attempts it or guards against it; one writer and one
  reader is in.
- mexnc: the netCDF library itself, beyond what the operations use;
  `handle_nc_inq_format` and `def_var_fill` of `netcdf4.c` and the cases CREATE, OPEN,
  REDEF and CLOSE of `netcdf2.c`, which the gateway never dispatches to; messages and
  the trace of arguments; failing allocation.
- shapelib: the tree of bounds (SHPTree), which is built from a layer, held only in memory
  and never changed with it; centroids of rings; names of types; part types other than
  rings; queries of fields; writes that fail where the code does not notice (headers, rows,
  closing); tables without fields; `dbf_read.c`. After a shape has been replaced by a smaller one its size in the index stays
  the old one, and measures are read from what follows although its type has none; those
  values are not compared.
- The conversion to netCDF: one sequential program whose variables are data; the `.nc`
  file is made anew each time. The batch script: two runs over one directory, failing
  conversions and kills are hazards of it, listed as such, but nothing in it handles them
  and nothing promises that it does, so there is no property that the code keeps.
- User interfaces, plotting, numerical scripts and vendored copies.

## 6. Plan

What could come next, in this order:

1. `Shapefile_proofs`: `KillKeepsShapes` from the records of an index lying apart, unless
   torn.
2. Creation of a data group with attributes: the composition of NefisDef and
   NefisAttributes with the message that is overwritten.
3. The index arithmetic of `vs_let` and `vs_put` for fixed groups against a reference
   definition.
