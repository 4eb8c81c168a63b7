------------------------------- MODULE NefisDef -------------------------------
(***************************************************************************)
(* vs_def.m: creating and removing the definitions of a NEFIS file.        *)
(*                                                                         *)
(* A file holds four kinds of records, each using records of the kind      *)
(* below it: data groups -> group definitions -> cells -> elements.  On    *)
(* file a record names what it uses; a VS structure in memory holds the    *)
(* same four lists with every name replaced by an index into the list      *)
(* below, and vs_def renumbers these indices with every removal.           *)
(*                                                                         *)
(* Local_remove calls itself: upwards for the commands with a star,        *)
(* downwards for a purge.  Its activation records are the stack call.todo, *)
(* and every change of the file is a step, so that the session can be      *)
(* killed between any two of them.  One change - appending and linking a   *)
(* record, or unlinking it - is atomic here: NefisHash, which holds the    *)
(* writes that make it up, implements NefisStore, where it is atomic.      *)
(*                                                                         *)
(* A structure is a value.  Keep is the one vs_use.m remembers and vs_def  *)
(* works from when it is given none; Vars are the user's variables.  A     *)
(* call that is given a variable leaves Keep as it was, a call that ends   *)
(* in an error leaves both, whatever it has done to the file: structures   *)
(* go stale.                                                               *)
(***************************************************************************)
EXTENDS Integers, Sequences, FiniteSets, SequencesExt

CONSTANTS NamesAt,   \* NamesAt[k]: the names the user gives to records of level k
          Lists,     \* Lists[k]: the lists of names such a record may be given
          EasyNames, \* the names given to the easy creation of a data group
          Vars,      \* the user's variables
          Keep,      \* the lastread structure of vs_use (VSKeep)
          Nowhere,   \* a call of which the user does not take the result
          Given,     \* the records of the file to begin with: [lev, name, refs]
          MaxRec     \* bound on the records ever in the file

Levels == 1..4       \* ElmDef, CelDef, GrpDef, GrpDat

AllNames == EasyNames \cup UNION {NamesAt[k] : k \in Levels}

\* An element uses nothing, a cell elements, the others one record each.
Uses(k, refs) == /\ k = 1 => refs = <<>>
                 /\ k = 2 => refs # <<>>
                 /\ k > 2 => Len(refs) = 1

ASSUME NamesAssumption ==
  /\ DOMAIN NamesAt = Levels /\ DOMAIN Lists = Levels
  /\ \A k \in Levels : \A r \in Lists[k] :
       Uses(k, r) /\ (k > 1 => r \in Seq(NamesAt[k - 1]))
ASSUME HolderAssumption == Keep \notin Vars /\ Nowhere \notin Vars \cup {Keep}
ASSUME BoundAssumption  == MaxRec \in Nat /\ Len(Given) <= MaxRec

\* The file to begin with has no two records of one kind and name, and all that is used.
ASSUME GivenAssumption ==
  /\ Given \in Seq([lev : Levels, name : AllNames, refs : Seq(AllNames)])
  /\ \A o \in DOMAIN Given :
       /\ Uses(Given[o].lev, Given[o].refs)
       /\ \A n \in Range(Given[o].refs) :
            \E p \in DOMAIN Given : Given[p].lev = Given[o].lev - 1 /\ Given[p].name = n
       /\ \A p \in DOMAIN Given :
            Given[p].lev = Given[o].lev /\ Given[p].name = Given[o].name => p = o

Holders == Vars \cup {Keep}

VARIABLES
  records,  \* every record ever appended to the file: [lev, name, refs]
  live,     \* the offsets (ranks) of the records that are linked
  mem,      \* mem[h]: the structure of holder h, or NoVS
  call,     \* the vs_def call in progress
  \* history, which no step of the code depends on
  fresh,    \* the holders whose structure is up to date
  clean     \* no call has changed the file from a structure that was not

file == <<records, live>>
vars == <<records, live, mem, call, fresh, clean>>

NoVS    == <<>>
NoCall  == [todo |-> <<>>, to |-> Nowhere]
Idle    == call = NoCall
Busy    == ~Idle /\ call.todo # <<>>
Offsets == 1..MaxRec
At(L, k) == {o \in L : records[o].lev = k}

------------------------------------------------------------------------------
(* Orders.                                                                 *)

\* The numbers of a set, and the j-th largest number of a sequence.
Ascending(S) ==
  CHOOSE s \in [1..Cardinality(S) -> S] :
    Range(s) = S /\ \A i, j \in DOMAIN s : i < j => s[i] < s[j]

Descending(S) == Reverse(Ascending(S))

Largest(s, j) ==
  Max({r \in Range(s) : Cardinality({i \in DOMAIN s : s[i] >= r}) >= j})

------------------------------------------------------------------------------
(* Structures: list[k] holds the entries of level k; bare, the levels whose *)
(* list is still the [] that vs_use starts from and has no fields.          *)

\* The index of name n in a list, or 0.
IndexOf(list, n) ==
  IF \E i \in DOMAIN list : list[i].name = n
  THEN CHOOSE i \in DOMAIN list : list[i].name = n ELSE 0

\* (slip) The indices are stored in the opposite order.
ResolveReversed(list, names) == Reverse([j \in DOMAIN names |-> IndexOf(list, names[j])])

Resolve(list, names) == [j \in DOMAIN names |-> IndexOf(list, names[j])]

\* The structure vs_use makes of the linked records of a file.  The list of
\* data groups has the order of the hash table, which nothing depends on.
Structure(L) ==
  LET offs(k)  == Ascending(At(L, k))
      named(k) == [i \in DOMAIN offs(k) |-> [name |-> records[offs(k)[i]].name]]
  IN  [list |-> [k \in Levels |-> [i \in DOMAIN offs(k) |->
                   LET o == offs(k)[i]
                   IN  [name |-> records[o].name, off |-> o,
                        refs |-> Resolve(named(k - 1), records[o].refs)]]],
       bare |-> {k \in Levels : At(L, k) = {}}]

\* The entries of level k + 1 that use entry i of level k.
Users(vs, k, i) ==
  IF k = 4 THEN {} ELSE {u \in DOMAIN vs.list[k + 1] : i \in Range(vs.list[k + 1][u].refs)}

\* (slip) The indices behind the removed one are not moved up.
RenumberNot(r, i) == r

\* An index into a list from which entry i is being removed.
Renumber(r, i) == IF r > i THEN r - 1 ELSE r

\* Entry i leaves the list of level k, and the list above is renumbered.
DropList(l, k, i) ==
  [m \in Levels |->
     IF m = k THEN RemoveAt(l[k], i)
     ELSE IF m = k + 1
     THEN [u \in DOMAIN l[m] |->
             [l[m][u] EXCEPT !.refs = [j \in DOMAIN l[m][u].refs |-> Renumber(l[m][u].refs[j], i)]]]
     ELSE l[m]]

Drop(vs, k, i) == [vs EXCEPT !.list = DropList(@, k, i)]

------------------------------------------------------------------------------
(* What a removal should come to, in terms of the records of the file.     *)

UsedBy(o) == {p \in live : /\ records[p].lev = records[o].lev - 1
                           /\ records[p].name \in Range(records[o].refs)}
UsersOf(o) == {p \in live : o \in UsedBy(p)}

Up(S)    == S \cup UNION {UsersOf(o) : o \in S}
Down(S)  == S \cup UNION {UsedBy(o) : o \in S}
Above(o) == Up(Up(Up({o})))
Below(o) == Down(Down(Down({o})))

\* S and whatever is below o that nothing else uses.
Unneeded(S, o) ==
  UNION {R \in SUBSET (S \cup Below(o)) :
           S \subseteq R /\ \A p \in R \ S : UsersOf(p) \subseteq R}

Starred == {"*remove", "*purge"}
Purging == {"purge", "*purge"}

\* The records that are left when command cmd is given for record o.
Left(cmd, o) ==
  LET target == IF cmd \in Starred THEN Above(o) ELSE {o}
      gone   == IF cmd \in Purging THEN Unneeded(target, o) ELSE target
  IN  IF cmd \notin Starred /\ UsersOf(o) # {} THEN live ELSE live \ gone

------------------------------------------------------------------------------
\* A file that vs_ini has created, or that Delft3D has filled.
Init ==
  /\ records = Given
  /\ live = DOMAIN Given
  /\ mem = [h \in Holders |-> NoVS]
  /\ call = NoCall
  /\ fresh = {}
  /\ clean = TRUE

\* vs_use(file): the structure is returned and remembered.
Open(g) ==
  /\ Idle
  /\ mem' = [h \in Holders |-> IF h \in {g, Keep} THEN Structure(live) ELSE mem[h]]
  /\ fresh' = fresh \cup ({g, Keep} \ {Nowhere})
  /\ UNCHANGED <<file, call, clean>>

\* A call from the structure of holder h whose result goes to g.  A call for a
\* name that does not exist has nothing to do but to say so.
Begin(h, g, todo, goal) ==
  /\ Idle
  /\ mem[h] # NoVS
  /\ call' = [todo |-> todo, vs |-> mem[h], from |-> h, to |-> g, goal |-> goal,
              exact |-> h \in fresh, err |-> todo = <<>>, raised |-> FALSE, missed |-> FALSE]
  /\ UNCHANGED <<file, mem, fresh, clean>>

\* fits: the arguments that are not modelled (types, sizes, order, attributes)
\* are valid, and equal to those of a definition that exists already.
Creation(k, n, refs, fits) ==
  [do |-> "create", lev |-> k, name |-> n, refs |-> refs, fits |-> fits]

\* An activation of Local_remove.
Removal(cmd, k, i, nested) ==
  [do |-> "remove", cmd |-> cmd, lev |-> k, idx |-> i, nested |-> nested]

\* vs_def(VS, Type, Name, ...)
CallCreate(h, g, k, n, refs, fits) ==
  /\ k = 2 => fits     \* a cell has no further arguments
  /\ Begin(h, g, <<Creation(k, n, refs, fits)>>, {})

\* vs_def(VS, 'data', Name, {ElmList}, Size, ...): cell, group definition and
\* data group of one name.
CallEasy(h, g, n, elms, fits3, fits4) ==
  Begin(h, g, <<Creation(2, n, elms, TRUE), Creation(3, n, <<n>>, fits3),
                Creation(4, n, <<n>>, fits4)>>, {})

\* vs_def(VS, Command, Type, Name)
CallRemove(h, g, cmd, k, n) ==
  /\ mem[h] # NoVS
  /\ LET i == IndexOf(mem[h].list[k], n) IN
       IF i = 0 THEN Begin(h, g, <<>>, {live})
       ELSE Begin(h, g, <<Removal(cmd, k, i, FALSE)>>,
                  IF h \in fresh THEN {Left(cmd, mem[h].list[k][i].off)} ELSE {})

------------------------------------------------------------------------------
(* The steps of a call.                                                    *)

Task    == Head(call.todo)
Rest    == Tail(call.todo)
VS      == call.vs
List(k) == VS.list[k]

\* What becomes of the history when a call changes the linked records.
FileChanged == fresh' = {} /\ clean' = (clean /\ call.exact)

\* The rest of the call is skipped, and it has a message.
Failed(vs) == [call EXCEPT !.todo = <<>>, !.err = TRUE, !.vs = vs]

\* MATLAB raises an error of its own, which nothing in vs_def catches.
Raised == [call EXCEPT !.todo = <<>>, !.raised = TRUE]

Creating == Busy /\ Task.do = "create"
Known    == IndexOf(List(Task.lev), Task.name)

\* A cell holds an index of no element: vs_use found no element of the name.
Undefined(c) == \E r \in Range(List(2)[c].refs) : r \notin DOMAIN List(1)

\* Is entry i the same definition as the one the task describes?
Match(i) ==
  LET e == List(Task.lev)[i] IN
    IF Task.lev = 2
    THEN {List(1)[e.refs[j]].name : j \in DOMAIN e.refs} = Range(Task.refs)
    ELSE records[e.off].refs = Task.refs /\ Task.fits

\* The name is in the structure already: nothing is written.
CreateExisting ==
  /\ Creating
  /\ Known # 0
  /\ call' = IF Task.lev = 2 /\ Undefined(Known) THEN Raised
             ELSE IF Match(Known) THEN [call EXCEPT !.todo = Rest]
             ELSE Failed(VS)
  /\ UNCHANGED <<file, mem, fresh, clean>>

Refs == IF Task.lev = 1 THEN <<>> ELSE Resolve(List(Task.lev - 1), Task.refs)

\* What is wrong with the arguments of a creation.  A data group needs the
\* sizes of the elements of its cell.
Trouble ==
  IF 0 \in Range(Refs) THEN "message"
  ELSE IF Task.lev = 4 /\ LET c == List(3)[Refs[1]].refs[1]
                          IN  c \notin DOMAIN List(2) \/ Undefined(c) THEN "error"
  ELSE IF ~Task.fits THEN "message" ELSE "none"

CreateInvalid ==
  /\ Creating
  /\ Known = 0
  /\ Trouble # "none"
  /\ call' = IF Trouble = "error" THEN Raised ELSE Failed(VS)
  /\ UNCHANGED <<file, mem, fresh, clean>>

\* AddToHashTable finds the name in the table.
Taken == \E o \in At(live, Task.lev) : records[o].name = Task.name

\* (slip) The new record does not enter the structure.
AddedNot(off) == VS

\* (slip) The list stays one without fields.
AddedBare(off) ==
  [VS EXCEPT !.list[Task.lev] = Append(@, [name |-> Task.name, off |-> off, refs |-> Refs])]

\* The entry of a new record, at the end of its list.
Added(off) ==
  [VS EXCEPT !.list[Task.lev] = Append(@, [name |-> Task.name, off |-> off, refs |-> Refs]),
             !.bare = @ \ {Task.lev}]

\* The record goes to the end of the file and, unless its name is taken
\* there, into its chain.  A data group enters the structure in both cases.
CreateRecord ==
  /\ Creating
  /\ Known = 0
  /\ Trouble = "none"
  /\ Len(records) < MaxRec
  /\ records' = Append(records, [lev |-> Task.lev, name |-> Task.name, refs |-> Task.refs])
  /\ LET off == Len(records) + 1 IN
       IF Taken
       THEN /\ call' = [Failed(IF Task.lev = 4 THEN Added(off) ELSE VS) EXCEPT !.missed = TRUE]
            /\ UNCHANGED <<live, fresh, clean>>
       ELSE /\ live' = live \cup {off}
            /\ call' = [call EXCEPT !.todo = Rest, !.vs = Added(off)]
            /\ FileChanged
  /\ UNCHANGED mem

------------------------------------------------------------------------------
(* Local_remove.                                                           *)

Removing  == Busy /\ Task.do = "remove"
TaskUsers == Users(VS, Task.lev, Task.idx)

\* VS.GrpDef(i).Name with no such i, or a field of [] where the users of a
\* group definition or of a cell are looked up.
BadIndex == \/ Task.idx \notin DOMAIN List(Task.lev)
            \/ Task.lev \in {2, 3} /\ Task.lev + 1 \in VS.bare

RemoveRaises ==
  /\ Removing
  /\ BadIndex
  /\ call' = Raised
  /\ UNCHANGED <<file, mem, fresh, clean>>

\* (slip) Whether a definition is used is not looked at below the first level.
InUseNot == ~Task.nested /\ TaskUsers # {}

InUse == TaskUsers # {}

\* Nothing is removed; only the call for the record itself says so.
RemoveUsed ==
  /\ Removing /\ ~BadIndex
  /\ Task.cmd \notin Starred
  /\ InUse
  /\ call' = [call EXCEPT !.todo = Rest, !.err = ~Task.nested]
  /\ UNCHANGED <<file, mem, fresh, clean>>

\* (slip) The record goes before its users.
UsersLast ==
  <<[Task EXCEPT !.do = "unlink"]>> \o
  [j \in 1..Cardinality(TaskUsers) |->
     Removal("*remove", Task.lev + 1, Descending(TaskUsers)[j], TRUE)]

UsersFirst ==
  [j \in 1..Cardinality(TaskUsers) |->
     Removal("*remove", Task.lev + 1, Descending(TaskUsers)[j], TRUE)]
  \o <<[Task EXCEPT !.do = "unlink"]>>

RemoveUsers ==
  /\ Removing /\ ~BadIndex
  /\ Task.cmd \in Starred
  /\ TaskUsers # {}
  /\ call' = [call EXCEPT !.todo = UsersFirst \o Rest]
  /\ UNCHANGED <<file, mem, fresh, clean>>

\* The removals of what a purged record used: the elements of a cell from the
\* last index to the first, each as often as the cell lists it.
PurgeBelow(cmd, k, refs) ==
  IF cmd \notin Purging \/ k = 1 THEN <<>>
  ELSE IF k = 2
  THEN [j \in DOMAIN refs |-> Removal("remove", 1, Largest(refs, j), TRUE)]
  ELSE IF refs[1] > 0 THEN <<Removal("purge", k - 1, refs[1], TRUE)>> ELSE <<>>

\* RemoveFromHashTable for the record itself.  A failure ends this activation
\* only: the loops of the callers go on, and the last message wins.
UnlinkRecord ==
  /\ Busy
  /\ \/ Task.do = "unlink"
     \/ Task.do = "remove" /\ ~BadIndex /\ (IF Task.cmd \in Starred THEN TaskUsers = {} ELSE ~InUse)
  /\ LET e == List(Task.lev)[Task.idx] IN
       IF e.off \in live
       THEN /\ live' = live \ {e.off}
            /\ call' = [call EXCEPT
                 !.todo = PurgeBelow(Task.cmd, Task.lev, e.refs) \o Rest,
                 !.vs = Drop(VS, Task.lev, Task.idx), !.err = FALSE]
            /\ FileChanged
       ELSE /\ call' = [call EXCEPT !.todo = Rest, !.err = TRUE, !.missed = TRUE]
            /\ UNCHANGED <<live, fresh, clean>>
  /\ UNCHANGED <<records, mem>>

------------------------------------------------------------------------------
\* The holders that receive the structure of a call that ends: the variable
\* it is assigned to, unless an error is raised, and the lastread structure
\* if it came from there and the call has no message.
Returned(caught) ==
  IF call.raised \/ (call.err /\ ~caught) THEN {}
  ELSE ({call.to} \ {Nowhere}) \cup (IF call.from = Keep /\ ~call.err THEN {Keep} ELSE {})

\* caught: the caller takes the message as a second result.
EndCall(caught) ==
  /\ ~Idle
  /\ call.todo = <<>>
  /\ caught => call.to # Nowhere
  /\ mem' = [h \in Holders |-> IF h \in Returned(caught) THEN VS ELSE mem[h]]
  /\ fresh' = IF call.exact /\ ~call.missed THEN fresh \cup Returned(caught)
                                            ELSE fresh \ Returned(caught)
  /\ call' = NoCall
  /\ UNCHANGED <<file, clean>>

\* The session is killed: what is on file stays.
Crash ==
  /\ \E h \in Holders : mem[h] # NoVS
  /\ mem' = [h \in Holders |-> NoVS]
  /\ call' = NoCall
  /\ fresh' = {}
  /\ UNCHANGED <<file, clean>>

CallStep == \/ CreateExisting \/ CreateInvalid \/ CreateRecord
            \/ RemoveRaises \/ RemoveUsed \/ RemoveUsers \/ UnlinkRecord
            \/ \E caught \in BOOLEAN : EndCall(caught)

Next ==
  \/ \E g \in Vars \cup {Nowhere} : Open(g)
  \/ \E h \in Holders, g \in Vars \cup {Nowhere} :
       \/ \E k \in Levels : \E n \in NamesAt[k] :
            \/ \E refs \in Lists[k], fits \in BOOLEAN : CallCreate(h, g, k, n, refs, fits)
            \/ \E cmd \in {"remove", "purge", "*remove", "*purge"} : CallRemove(h, g, cmd, k, n)
       \/ \E n \in EasyNames, elms \in Lists[2], fits3, fits4 \in BOOLEAN :
            CallEasy(h, g, n, elms, fits3, fits4)
  \/ CallStep
  \/ Crash

Spec == Init /\ [][Next]_vars

------------------------------------------------------------------------------
(* Properties.                                                             *)

EntryOK(e) == e.name \in AllNames /\ e.off \in Offsets /\ e.refs \in Seq(Nat)

\* Types.  Only an empty list can be the [] of vs_use.
TypeOK ==
  /\ \A o \in DOMAIN records : records[o].lev \in Levels /\ records[o].name \in AllNames
  /\ Len(records) <= MaxRec
  /\ live \subseteq DOMAIN records
  /\ \A h \in Holders : mem[h] # NoVS =>
       /\ \A k \in Levels : \A e \in Range(mem[h].list[k]) : EntryOK(e)
       /\ \A k \in mem[h].bare : mem[h].list[k] = <<>>
  /\ fresh \subseteq {h \in Holders : mem[h] # NoVS}
  /\ clean \in BOOLEAN

\* Does the file hold what record o names?
Defined(o) ==
  \A n \in Range(records[o].refs) :
     \E p \in live : records[p].lev = records[o].lev - 1 /\ records[p].name = n

\* A record that is linked never uses one that is not, in any state: users
\* are created after what they use and removed before it, also when the
\* session is killed in the middle of a call.
DefinedOnFile == \A o \in live : Defined(o)

\* ... as long as no call has changed the file from a structure that had gone
\* stale.
NoDangling == clean => DefinedOnFile

\* A structure that the last call returned, or that was read since, is in
\* every index what reading the file again would give, unless something is
\* undefined there: an index 0 stays 0 when what it lacks is created.
FreshExact ==
  Idle /\ clean => LET now == Structure(live).list IN \A h \in fresh : mem[h].list = now

\* Every index in entry e of level k leads to the definition that the record
\* of e names, or is 0 for one that was undefined when the file was read.
Leads(vs, k, e) ==
  \A j \in DOMAIN e.refs :
     e.refs[j] # 0 => /\ e.refs[j] \in DOMAIN vs.list[k - 1]
                      /\ vs.list[k - 1][e.refs[j]].name = records[e.off].refs[j]

Sound(vs) == \A k \in Levels : \A e \in Range(vs.list[k]) : Leads(vs, k, e)

\* In every structure, stale or not, the indices that are not 0 lead to the
\* definitions their records name, and none leads nowhere.
IndicesLead == \A h \in Holders : mem[h] # NoVS => Sound(mem[h])

\* ... as long as no call has changed the file from a structure that had gone
\* stale.
IndicesSound == clean => IndicesLead

\* From a structure that is up to date nothing is refused as existing already
\* and no record is missing from its chain.
FreshNeverRefused == clean /\ ~Idle /\ call.exact => ~call.missed

\* A removal from such a structure that runs to its end has removed exactly
\* what its command stands for: "remove" the record if it is unused, "purge"
\* also what only it used, and with a star all that uses it as well.
RemovesExactly ==
  clean /\ ~Idle /\ call.todo = <<>> /\ call.exact /\ ~call.raised =>
    \A left \in call.goal : live = left
==============================================================================
