------------------------------ MODULE NefisHash ------------------------------
(***************************************************************************)
(* One name table of a NEFIS file as vs_ini.m creates it, vs_def.m changes *)
(* it and vs_use.m reads it: a hash table whose buckets head chains of     *)
(* records.  A record is appended at the end of the file and only then     *)
(* linked to the end of its chain; a removal bypasses the record and       *)
(* leaves its bytes, its own link included, where they are.                *)
(*                                                                         *)
(* The module holds every write to the file as a step of its own, so that  *)
(*  - the program can be killed between any two of them (Crash);           *)
(*  - another program can scan the table in between (reader = Other);      *)
(* and it holds the VS structures of the session that writes.  They are    *)
(* values: vs_def works from the structure it is given and returns a       *)
(* changed copy, and a structure that is kept goes stale.                  *)
(*                                                                         *)
(* A file has four such tables (elements, cells, group definitions, data   *)
(* groups) that share this code and the end of the file; this module is    *)
(* one of them.  A record's offset is its rank among the records of its    *)
(* table, which keeps the one fact about offsets the code relies on: later *)
(* records have larger offsets and Nil is larger than all of them.         *)
(***************************************************************************)
EXTENDS Integers, Sequences, FiniteSets, SequencesExt

CONSTANTS Names,     \* names of definitions or data groups
          Buckets,   \* the entries of the hash table (997 in the code)
          HashNr,    \* HashNr[n]: the bucket of name n
          Handles,   \* the variables of the session that hold a VS structure
          Other,     \* a program other than the session, which only reads
          Nobody,    \* nobody is reading
          IsData,    \* TRUE: the table of data groups; FALSE: a definition table
          MaxRec     \* bound on the records ever appended to the table

ASSUME HashAssumption   == HashNr \in [Names -> Buckets]
ASSUME ReaderAssumption == Other \notin Handles /\ Nobody \notin Handles /\ Other # Nobody
ASSUME KindAssumption   == IsData \in BOOLEAN
ASSUME BoundAssumption  == MaxRec \in Nat

Offsets == 1..MaxRec
Nil     == MaxRec + 1   \* all ones: larger than every offset in the file

VARIABLES
  \* the file
  table,    \* table[b]: offset of the first record of bucket b, or Nil
  records,  \* the records in the order they were appended: [link, name]
  size,     \* the file size stored in the header
  \* the session
  open,     \* the handles that hold a VS structure
  mem,      \* mem[h]: the [name, off] pairs in the structure of handle h
  op,       \* the vs_def call in progress
  \* the scan in progress (ReadHashTableGetNonEmptyBuckets)
  reader,   \* who scans: a handle being opened, Other or Nobody
  work,     \* NonEmptyBuck: the offsets found so far
  pos,      \* i: the next of them to look at
  \* history, which no step of the code depends on
  live,     \* the records that are in a chain
  lost,     \* the records that never were nor will be
  fresh,    \* the handles whose structure is up to date
  keep,     \* the records in a chain since the scan began
  ever      \* the records in a chain at some time since the scan began

file    == <<table, records, size, live, lost>>
session == <<open, mem, op, fresh>>
scan    == <<reader, work, pos, keep, ever>>
vars    == <<table, records, size, open, mem, op, reader, work, pos,
             live, lost, fresh, keep, ever>>

NoOp == [step |-> "idle"]
Steps == {"walk", "refused", "linked", "find", "missing", "unlinked"}
CallTypes == [step : Steps, name : Names, off : Offsets, cur : 0..MaxRec,
              from : Handles, to : Handles]

Idle      == op.step = "idle"
Entry(o)  == [name |-> records[o].name, off |-> o]
LiveView  == {Entry(o) : o \in live}
NamesOf(V) == {e.name : e \in V}
Scanning  == reader # Nobody
SessionFree == Idle /\ reader \notin Handles

------------------------------------------------------------------------------
\* vs_ini writes a header and empty hash tables.
Init ==
  /\ table = [b \in Buckets |-> Nil]
  /\ records = <<>>
  /\ size = 0
  /\ open = {}
  /\ mem = [h \in Handles |-> {}]
  /\ op = NoOp
  /\ reader = Nobody /\ work = <<>> /\ pos = 1
  /\ live = {} /\ lost = {} /\ fresh = {} /\ keep = {} /\ ever = {}

\* (slip) Always the head of the chain.
LinkAtHead(b, a) == table[b]

\* The link at address a of bucket b: the bucket itself (a = 0) or record a's link.
LinkAt(b, a) == IF a = 0 THEN table[b] ELSE records[a].link

WriteLink(b, a, l) ==
  IF a = 0
  THEN /\ table' = [table EXCEPT ![b] = l]
       /\ UNCHANGED records
  ELSE /\ records' = [records EXCEPT ![a].link = l]
       /\ UNCHANGED table

\* In MATLAB the caller of vs_def either receives the structure the call
\* returns or, when the call raises an error, keeps what it had.
Return(result) == mem' = [mem EXCEPT ![op.to] = result] /\ open' = open \cup {op.to}

\* (slip) A size one too large.
UpdateFileSizeBefore == size' = Len(records) + 1

UpdateFileSize == size' = Len(records)

ThisEntry == [name |-> op.name, off |-> op.off]

\* (slip) No new record goes into the structure.
AddedNever(refused) == mem[op.from]

\* The structure after a creation.  That of a data group adds the group even
\* when AddToHashTable returned a message; the other three do not.
Added(refused) ==
  IF refused /\ ~IsData THEN mem[op.from] ELSE mem[op.from] \cup {ThisEntry}

------------------------------------------------------------------------------
(* vs_def(VS, Type, Name, ...): creation.                                  *)

\* A name the structure does not hold yet: the record goes to the end of the file.
AppendRecord(h, g, n) ==
  /\ SessionFree
  /\ h \in open
  /\ n \notin NamesOf(mem[h])
  /\ Len(records) < MaxRec
  /\ records' = Append(records, [link |-> Nil, name |-> n])
  /\ op' = [step |-> "walk", name |-> n, off |-> Len(records) + 1,
            cur |-> 0, from |-> h, to |-> g]
  /\ UNCHANGED <<table, size, live, lost, open, mem, fresh, scan>>

CurLink == LinkAt(HashNr[op.name], op.cur)

SameLabel(o) == records[o].name = op.name

\* (slip) A creation does not compare the labels.
RefusedAtInvalid(o) == o > Len(records)

\* An invalid link, or "already exists".
RefusedAt(o) == o > Len(records) \/ SameLabel(o)

\* AddToHashTable follows the chain to its end, comparing every label.
WalkOn ==
  /\ op.step = "walk"
  /\ CurLink # Nil
  /\ op' = IF RefusedAt(CurLink)
           THEN [op EXCEPT !.step = "refused"]
           ELSE [op EXCEPT !.cur = CurLink]
  /\ UNCHANGED <<file, open, mem, fresh, scan>>

\* The last link of the chain is made to point to the new record.
LinkRecord ==
  /\ op.step = "walk"
  /\ CurLink = Nil
  /\ WriteLink(HashNr[op.name], op.cur, op.off)
  /\ live' = live \cup {op.off}
  /\ ever' = IF Scanning THEN ever \cup {op.off} ELSE ever
  /\ op' = [op EXCEPT !.step = "linked"]
  /\ fresh' = fresh \cap {op.from}
  /\ UNCHANGED <<size, lost, open, mem, reader, work, pos, keep>>

\* UpdateFileSize, fclose, and the record is added to the returned structure.
CreateDone ==
  /\ op.step = "linked"
  /\ UpdateFileSize
  /\ Return(Added(FALSE))
  /\ fresh' = IF op.from \in fresh THEN {op.to} ELSE {}
  /\ op' = NoOp
  /\ UNCHANGED <<table, records, live, lost, scan>>

\* AddToHashTable returned a message.
CreateRefused(caught) ==
  /\ op.step = "refused"
  /\ UpdateFileSize
  /\ lost' = lost \cup {op.off}
  /\ IF caught
     THEN /\ Return(Added(TRUE))
          /\ fresh' = IF op.from \in fresh /\ ~IsData
                      THEN fresh \cup {op.to} ELSE fresh \ {op.to}
     ELSE UNCHANGED <<mem, open, fresh>>
  /\ op' = NoOp
  /\ UNCHANGED <<table, records, live, scan>>

------------------------------------------------------------------------------
(* vs_def(VS, 'remove', Type, Name): removal of an unused definition.      *)

BeginRemove(h, g, e) ==
  /\ SessionFree
  /\ h \in open
  /\ e \in mem[h]
  /\ op' = [step |-> "find", name |-> e.name, off |-> e.off,
            cur |-> 0, from |-> h, to |-> g]
  /\ UNCHANGED <<file, open, mem, fresh, scan>>

\* RemoveFromHashTable follows the chain until a link equals the record's offset.
FindOn ==
  /\ op.step = "find"
  /\ CurLink # op.off
  /\ op' = IF CurLink > Len(records)
           THEN [op EXCEPT !.step = "missing"]  \* end of the chain, or invalid link
           ELSE [op EXCEPT !.cur = CurLink]
  /\ UNCHANGED <<file, open, mem, fresh, scan>>

\* (slip) The chain ends where the removed record was.
NothingAfter(o) == Nil

LinkAfter(o) == records[o].link

\* The label stored at the offset must be the name; then the link that led
\* to the record is replaced by the record's own.
UnlinkRecord ==
  /\ op.step = "find"
  /\ CurLink = op.off
  /\ IF SameLabel(op.off)
     THEN /\ WriteLink(HashNr[op.name], op.cur, LinkAfter(op.off))
          /\ live' = live \ {op.off}
          /\ keep' = keep \ {op.off}
          /\ op' = [op EXCEPT !.step = "unlinked"]
          /\ fresh' = fresh \cap {op.from}
     ELSE /\ op' = [op EXCEPT !.step = "missing"]
          /\ UNCHANGED <<table, records, live, keep, fresh>>
  /\ UNCHANGED <<size, lost, open, mem, reader, work, pos, ever>>

RemoveDone ==
  /\ op.step = "unlinked"
  /\ Return(mem[op.from] \ {ThisEntry})
  /\ fresh' = IF op.from \in fresh THEN {op.to} ELSE {}
  /\ op' = NoOp
  /\ UNCHANGED <<file, scan>>

\* A fatal error: the structure is returned as it was, or not at all.
RemoveFailed(caught) ==
  /\ op.step = "missing"
  /\ IF caught
     THEN /\ Return(mem[op.from])
          /\ fresh' = IF op.from \in fresh THEN fresh \cup {op.to}
                                           ELSE fresh \ {op.to}
     ELSE UNCHANGED <<mem, open, fresh>>
  /\ op' = NoOp
  /\ UNCHANGED <<file, scan>>

------------------------------------------------------------------------------
(* vs_use: ReadHashTableGetNonEmptyBuckets.                                *)

\* The links of the non-empty buckets, which one read takes from the file.
Heads == {table[b] : b \in Buckets} \ {Nil}

\* The session opens the file through a handle, or another program does.
BeginScan(r) ==
  /\ ~Scanning
  /\ r \in Handles => Idle
  /\ reader' = r
  /\ work' = SetToSeq(Heads)   \* in the order of the buckets; none is special
  /\ pos' = 1
  /\ keep' = live
  /\ ever' = live
  /\ UNCHANGED <<file, session>>

\* (slip) A removed record leads nowhere, as if its link had been reset.
FollowLive(w) == IF w \in live /\ records[w].link # Nil
                 THEN Append(work, records[w].link) ELSE work

\* (slip) What is found is put in front of the record it was found from.
FollowInFront(w) == IF records[w].link # Nil THEN <<records[w].link>> \o work ELSE work

Follow(w) == IF records[w].link # Nil THEN Append(work, records[w].link) ELSE work

\* (slip) The last record of a chain is looked at again and again.
AdvanceInChain(w) == IF records[w].link # Nil THEN pos + 1 ELSE pos

Advance(w) == pos + 1

ScanRecord ==
  /\ Scanning
  /\ pos <= Len(work)
  /\ LET w == work[pos] IN
       IF w > Len(records)
       THEN /\ work' = RemoveAt(work, pos)   \* cannot move there: dropped
            /\ UNCHANGED pos
       ELSE work' = Follow(w) /\ pos' = Advance(w)
  /\ UNCHANGED <<file, session, reader, keep, ever>>

\* All records found are read into the structure, which replaces the handle's.
EndScan ==
  /\ Scanning
  /\ pos > Len(work)
  /\ IF reader \in Handles
     THEN /\ mem' = [mem EXCEPT ![reader] = {Entry(work[i]) : i \in 1..Len(work)}]
          /\ open' = open \cup {reader}
          /\ fresh' = fresh \cup {reader}
     ELSE UNCHANGED <<mem, open, fresh>>
  /\ reader' = Nobody /\ work' = <<>> /\ pos' = 1 /\ keep' = {} /\ ever' = {}
  /\ UNCHANGED <<file, op>>

------------------------------------------------------------------------------
\* The session is killed.  What it wrote stays; its structures are gone.
Crash ==
  /\ open # {} \/ reader \in Handles
  /\ open' = {}
  /\ mem' = [h \in Handles |-> {}]
  /\ fresh' = {}
  /\ op' = NoOp
  /\ lost' = IF op.step \in {"walk", "refused"} THEN lost \cup {op.off} ELSE lost
  /\ IF reader \in Handles
     THEN reader' = Nobody /\ work' = <<>> /\ pos' = 1 /\ keep' = {} /\ ever' = {}
     ELSE UNCHANGED scan
  /\ UNCHANGED <<table, records, size, live>>

CreateStep == \/ WalkOn
              \/ LinkRecord
              \/ CreateDone
              \/ \E caught \in BOOLEAN : CreateRefused(caught)

RemoveStep == \/ FindOn
              \/ UnlinkRecord
              \/ RemoveDone
              \/ \E caught \in BOOLEAN : RemoveFailed(caught)

Next ==
  \/ \E h, g \in Handles, n \in Names : AppendRecord(h, g, n)
  \/ CreateStep
  \/ \E h, g \in Handles : \E e \in mem[h] : BeginRemove(h, g, e)
  \/ RemoveStep
  \/ \E r \in Handles \cup {Other} : BeginScan(r)
  \/ ScanRecord
  \/ EndScan
  \/ Crash

\* A call that was started runs on (MATLAB is single-threaded, nothing in the
\* loops waits); nobody need ever start one.
Fairness == /\ WF_vars(CreateStep)
            /\ WF_vars(RemoveStep)
            /\ WF_vars(ScanRecord \/ EndScan)

Spec     == Init /\ [][Next]_vars
FairSpec == Spec /\ Fairness

------------------------------------------------------------------------------
(* Properties.                                                             *)

Bucket(o)    == HashNr[records[o].name]
LiveIn(b)    == {o \in live : Bucket(o) = b}
LastLive(b, a) == \A o \in LiveIn(b) : o <= a
Found        == {work[i] : i \in 1..Len(work)}

\* Types.  The size in the header never exceeds the file.
TypeOK ==
  /\ table \in [Buckets -> 1..Nil]
  /\ records \in Seq([link : 1..Nil, name : Names])
  /\ Len(records) <= MaxRec
  /\ size \in 0..Len(records)
  /\ open \subseteq Handles
  /\ mem \in [Handles -> SUBSET [name : Names, off : Offsets]]
  /\ op \in {NoOp} \cup CallTypes
  /\ reader \in Handles \cup {Other, Nobody}
  /\ work \in Seq(Offsets) /\ pos \in 1..Len(work) + 1
  /\ live \subseteq 1..Len(records) /\ lost \subseteq 1..Len(records)
  /\ fresh \subseteq open
  /\ keep \subseteq live /\ keep \subseteq ever /\ ever \subseteq 1..Len(records)

\* l is what the link that precedes offset a's successors in bucket b must be:
\* the next live record of the bucket, or Nil when there is none.
NextLive(b, a, l) ==
  /\ l > a
  /\ l # Nil => l \in LiveIn(b)
  /\ \A o \in LiveIn(b) : o > a => o >= l

\* Each chain is exactly the live records of its bucket in file order: no
\* record is dropped from its chain, is in two chains, or is in one twice, and
\* no chain is cyclic, whatever calls were made from stale structures and
\* wherever the program was killed.
ChainOK ==
  /\ \A b \in Buckets : NextLive(b, 0, table[b])
  /\ \A o \in live : NextLive(Bucket(o), o, records[o].link)

\* No name occurs twice in the table: AddToHashTable refuses what the
\* structure it is called with does not know of.
UniqueNames ==
  \A o, p \in live : records[o].name = records[p].name => o = p

\* While no call is in progress, the structure vs_def returned last, or one
\* that vs_use has read since, agrees with the file.
FreshExact == Idle => \A h \in fresh : mem[h] = LiveView

\* With such a structure no creation ends in "already exists" and no removal
\* in "not found", even after other calls were refused or killed.
FreshNeverRefused == op.step \in {"refused", "missing"} => op.from \notin fresh

\* A structure may be stale, but for the definition tables it never holds a
\* record that was not in the file.
NoPhantom == \A h \in Handles : \A e \in mem[h] : e.off \notin lost

\* A scan that ends has found every record that was in the table all the
\* while, and nothing that was at no time in it, though records come and go
\* underneath it: a removed record still leads to its successors.
ScanComplete == Scanning /\ pos > Len(work) => keep \subseteq Found /\ Found \subseteq ever

\* It finds no record twice.
ScanDistinct == \A i, j \in 1..Len(work) : work[i] = work[j] => i = j

\* The table as the map it stands for.
BoundTo(n) == IF \E o \in live : records[o].name = n
              THEN CHOOSE o \in live : records[o].name = n ELSE 0
Pending    == IF op.step \in {"walk", "refused"} THEN {op.off} ELSE {}

Store == INSTANCE NefisStore WITH
           Ids <- Offsets, None <- 0,
           bound <- [n \in Names |-> BoundTo(n)],
           retired <- (1..Len(records)) \ (live \cup Pending)

\* Creating and removing by chains of links is creating and removing in a map,
\* atomically, and no offset is ever bound again.
ImplementsStore == Store!Spec

\* Every call and every scan comes to an end: no chain leads in a circle.
CallsEnd == (~Idle ~> Idle) /\ (Scanning ~> ~Scanning)
==============================================================================
