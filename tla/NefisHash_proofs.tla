-------------------------- MODULE NefisHash_proofs --------------------------
(***************************************************************************)
(* Proofs about NefisHash, for every set of names, hash function, number   *)
(* of buckets, of handles and of records.                                  *)
(***************************************************************************)
EXTENDS NefisHash, TLAPS, SequenceTheorems, FiniteSetTheorems

Rec == 1..Len(records)

\* Links lead forward and stay in their bucket, those of removed records too.
LinksForward ==
  \A o \in Rec : /\ records[o].link > o
                 /\ records[o].link # Nil => /\ records[o].link \in Rec
                                             /\ Bucket(records[o].link) = Bucket(o)

\* A call that follows a chain stands at its head or at a live record of it.
OnChain == op.cur = 0 \/ op.cur \in LiveIn(HashNr[op.name])

\* What the call in progress knows about the file.
OpOK ==
  /\ op.step = "walk" =>
       /\ op.off = Len(records) /\ op.off \notin live \cup lost
       /\ records[op.off].name = op.name /\ records[op.off].link = Nil
       /\ OnChain
       /\ \A o \in LiveIn(HashNr[op.name]) : o <= op.cur => records[o].name # op.name
       /\ op.from \in fresh => \A o \in live : records[o].name # op.name
  /\ op.step = "refused" =>
       /\ op.off = Len(records) /\ op.off \notin live \cup lost
       /\ op.from \notin fresh
  /\ op.step = "linked" => op.off \in live /\ records[op.off].name = op.name
  /\ op.step = "find" =>
       /\ OnChain
       /\ op.from \in fresh => /\ op.off \in LiveIn(HashNr[op.name])
                               /\ records[op.off].name = op.name
                               /\ op.cur < op.off
  /\ op.step = "missing" => op.from \notin fresh
  /\ op.step = "unlinked" => op.off \in Rec \ (live \cup lost)

\* What the structures of the session know about the file.
MemOK ==
  /\ \A h \in Handles : \A e \in mem[h] :
       /\ e.off \in Rec
       /\ ~IsData => e.off \notin lost
       /\ op.step \in {"walk", "refused"} => e.off # op.off
  /\ \A h \in fresh :
       /\ op.step \in {"linked", "unlinked"} => h = op.from
       /\ op.step = "linked" => mem[h] \cup {ThisEntry} = LiveView
       /\ op.step = "unlinked" => mem[h] \ {ThisEntry} = LiveView
       /\ op.step \notin {"linked", "unlinked"} => mem[h] = LiveView

LostOK == /\ live \cap lost = {}
          /\ ever \cap lost = {}
          /\ op.step \in {"walk", "refused"} => op.off \notin ever

\* What the scan in progress has found and has yet to find.
ScanOK ==
  /\ ~Scanning => work = <<>> /\ pos = 1 /\ keep = {} /\ ever = {}
  /\ reader \in Handles => Idle /\ keep = live /\ ever = live
  /\ Scanning =>
       /\ live \subseteq ever
       /\ \A w \in ever : records[w].link # Nil => records[w].link \in ever
       /\ \A i \in 1..Len(work) : work[i] \in ever
       /\ \A o \in keep : \/ \E i \in 1..Len(work) : work[i] = o
                          \/ \E i \in pos..Len(work) : Bucket(work[i]) = Bucket(o) /\ work[i] < o
       /\ \A w \in ever, o \in keep :
            Bucket(w) = Bucket(o) /\ o > w => o >= records[w].link
       /\ \A i, j \in 1..Len(work) :
            i < j /\ Bucket(work[i]) = Bucket(work[j]) => work[i] < work[j] /\ i < pos

IInv == /\ TypeOK
        /\ ChainOK
        /\ UniqueNames
        /\ LinksForward
        /\ OpOK
        /\ MemOK
        /\ LostOK
        /\ ScanOK

------------------------------------------------------------------------------
LEMMA RecordTypes ==
  ASSUME TypeOK
  PROVE  /\ Len(records) \in Nat
         /\ \A o \in Rec : /\ records[o] \in [link : 1..Nil, name : Names]
                           /\ records[o].link \in 1..Nil
                           /\ records[o].name \in Names
                           /\ Bucket(o) \in Buckets
                           /\ o \in Offsets /\ o < Nil
  <1>1. Len(records) \in Nat /\ Len(records) <= MaxRec
    BY DEF TypeOK
  <1> DEFINE R == [link : 1..Nil, name : Names]
  <1>0. records \in Seq(R)
    BY DEF TypeOK
  <1>2. ASSUME NEW o \in Rec PROVE records[o] \in R
    <2> HIDE DEF R
    <2> QED BY <1>0, ElementOfSeq DEF Rec
  <1>3. ASSUME NEW o \in Rec PROVE o \in Offsets /\ o < Nil
    BY <1>1, BoundAssumption DEF Rec, Offsets, Nil
  <1>4. ASSUME NEW o \in Rec PROVE Bucket(o) \in Buckets
    BY <1>2, HashAssumption DEF Bucket
  <1> QED BY <1>1, <1>2, <1>3, <1>4

\* What writing one link changes.
LEMMA WriteLinkFacts ==
  ASSUME TypeOK, NEW b \in Buckets, NEW a \in 0..Len(records), NEW l \in 1..Nil,
         WriteLink(b, a, l)
  PROVE  /\ table' \in [Buckets -> 1..Nil]
         /\ records' \in Seq([link : 1..Nil, name : Names])
         /\ Len(records') = Len(records)
         /\ \A o \in Rec : records'[o].name = records[o].name
         /\ \A o \in Rec : records'[o].link = IF o = a THEN l ELSE records[o].link
         /\ \A c \in Buckets : table'[c] = IF a = 0 /\ c = b THEN l ELSE table[c]
  <1> DEFINE R == [link : 1..Nil, name : Names]
  <1>0. records \in Seq(R) /\ table \in [Buckets -> 1..Nil] /\ Len(records) \in Nat
    BY RecordTypes DEF TypeOK
  <1>1. CASE a = 0
    BY <1>0, <1>1, SMTT(30) DEF WriteLink, Rec
  <1>2. CASE a # 0
    <2>1. a \in Rec
      BY <1>2, RecordTypes DEF Rec
    <2>2. records' = [records EXCEPT ![a] = [records[a] EXCEPT !.link = l]] /\ table' = table
      BY <1>2 DEF WriteLink
    <2>3. [records[a] EXCEPT !.link = l] \in R
      BY <2>1, RecordTypes
    <2>4. records' \in Seq(R) /\ Len(records') = Len(records)
      <3> HIDE DEF R
      <3> QED BY <1>0, <2>1, <2>2, <2>3 DEF Rec
    <2>5. \A o \in Rec : records'[o] = IF o = a THEN [records[a] EXCEPT !.link = l] ELSE records[o]
      <3> HIDE DEF R
      <3> QED BY <1>0, <2>1, <2>2 DEF Rec
    <2> QED
      BY <1>0, <1>2, <2>1, <2>2, <2>4, <2>5, RecordTypes
  <1> QED BY <1>1, <1>2

\* l follows a in the sorted chain of the offsets in S.
NextIn(S, a, l) ==
  /\ l > a
  /\ l # Nil => l \in S
  /\ \A o \in S : o > a => o >= l

LEMMA NextLiveIsNextIn ==
  ASSUME NEW b, NEW a, NEW l
  PROVE  NextLive(b, a, l) <=> NextIn(LiveIn(b), a, l)
  BY DEF NextLive, NextIn

\* A chain that ends at cur is extended by x.
LEMMA Extend ==
  ASSUME NEW S \in SUBSET Nat, NEW cur \in Nat, NEW x \in Offsets,
         cur < x, \A o \in S : o <= cur
  PROVE  /\ NextIn(S \cup {x}, cur, x)
         /\ NextIn(S \cup {x}, x, Nil)
         /\ \A a \in Nat, l \in 1..Nil :
              NextIn(S, a, l) /\ a < cur /\ cur \in S => NextIn(S \cup {x}, a, l)
  <1> x \in Nat /\ x < Nil
    BY BoundAssumption DEF Offsets, Nil
  <1> QED BY BoundAssumption DEF NextIn, Nil

\* x is taken out of a chain in which it follows cur.
LEMMA Bypass ==
  ASSUME NEW S \in SUBSET Nat, NEW cur \in Nat, NEW x \in S, NEW l \in Nat,
         cur = 0 \/ cur \in S, x # Nil, Nil \in Nat,
         NextIn(S, cur, x), NextIn(S, x, l)
  PROVE  /\ NextIn(S \ {x}, cur, l)
         /\ \A a \in S \cup {0}, k \in Nat :
              NextIn(S, a, k) /\ a # cur => NextIn(S \ {x}, a, k)
  <1>1. NextIn(S \ {x}, cur, l)
    BY DEF NextIn
  <1>2. ASSUME NEW a \in S \cup {0}, NEW k \in Nat, NextIn(S, a, k), a # cur
        PROVE  NextIn(S \ {x}, a, k)
    <2>1. k # x
      BY <1>2 DEF NextIn
    <2> QED BY <1>2, <2>1 DEF NextIn
  <1> QED BY <1>1, <1>2

THEOREM InitInv == Init => IInv
  BY BoundAssumption, ReaderAssumption
  DEF Init, IInv, TypeOK, ChainOK, NextLive, LiveIn, UniqueNames, LinksForward, OpOK,
      MemOK, LostOK, ScanOK, Nil, Offsets, NoOp, Rec, Scanning, Idle

------------------------------------------------------------------------------
LEMMA CallType ==
  ASSUME TypeOK, op.step # "idle"
  PROVE  /\ op \in CallTypes
         /\ op.name \in Names /\ op.off \in Offsets /\ op.cur \in 0..MaxRec
         /\ op.from \in Handles /\ op.to \in Handles
         /\ HashNr[op.name] \in Buckets
         /\ ThisEntry \in [name : Names, off : Offsets]
  BY HashAssumption DEF TypeOK, NoOp, CallTypes, ThisEntry

\* The chains do not change when no link and no live record does.
LEMMA SameChains ==
  ASSUME ChainOK, UniqueNames, LinksForward, UNCHANGED <<table, records, live>>
  PROVE  ChainOK' /\ UniqueNames' /\ LinksForward'
  BY DEF ChainOK, NextLive, LiveIn, Bucket, UniqueNames, LinksForward, Rec

\* Nor does what a call knows of them.
LEMMA SameCall ==
  ASSUME OpOK, UNCHANGED <<records, live, lost, op, fresh>>
  PROVE  OpOK'
  <1>1. LiveIn(HashNr[op.name])' = LiveIn(HashNr[op.name])
    BY DEF LiveIn, Bucket
  <1>2. OnChain => OnChain'
    BY <1>1 DEF OnChain
  <1> QED BY <1>1, <1>2 DEF OpOK, Rec

\* Nor does the scan's progress when it does not move either.
LEMMA SameScan ==
  ASSUME ScanOK, UNCHANGED <<records, live, scan>>, reader \in Handles => Idle'
  PROVE  ScanOK'
  BY DEF ScanOK, scan, Bucket, Scanning

\* Where the walk along a chain leads.
LEMMA CurLinkFacts ==
  ASSUME IInv, op.step \in {"walk", "find"}
  PROVE  /\ NextLive(HashNr[op.name], op.cur, CurLink)
         /\ CurLink \in 1..Nil
         /\ op.cur \in 0..Len(records)
         /\ CurLink # Nil => CurLink \in Rec /\ CurLink \in LiveIn(HashNr[op.name])
  <1>1. HashNr[op.name] \in Buckets /\ op.cur \in 0..MaxRec
    BY CallType DEF IInv
  <1>2. OnChain
    BY DEF IInv, OpOK
  <1>3. CASE op.cur = 0
    BY <1>1, <1>3, RecordTypes DEF IInv, ChainOK, CurLink, LinkAt, NextLive, LiveIn, TypeOK, Rec
  <1>4. CASE op.cur # 0
    <2>1. op.cur \in live /\ Bucket(op.cur) = HashNr[op.name] /\ op.cur \in Rec
      BY <1>2, <1>4 DEF OnChain, LiveIn, IInv, TypeOK, Rec
    <2>2. NextLive(HashNr[op.name], op.cur, CurLink) /\ CurLink \in 1..Nil
      BY <1>4, <2>1, RecordTypes DEF IInv, ChainOK, CurLink, LinkAt
    <2> QED BY <2>1, <2>2, RecordTypes DEF NextLive, LiveIn, IInv, TypeOK, Rec
  <1> QED BY <1>3, <1>4

------------------------------------------------------------------------------
(* One lemma per action: the step preserves the inductive invariant.       *)

LEMMA AppendInv ==
  ASSUME IInv, NEW h \in Handles, NEW g \in Handles, NEW n \in Names, AppendRecord(h, g, n)
  PROVE  IInv'
  <1> DEFINE new == Len(records) + 1
             R   == [link : 1..Nil, name : Names]
             r   == [link |-> Nil, name |-> n]
  <1>1. /\ TypeOK /\ Len(records) \in Nat /\ Len(records) < MaxRec /\ Idle
        /\ h \in open /\ reader \notin Handles
    BY RecordTypes DEF IInv, AppendRecord, SessionFree
  <1>2. r \in R /\ new \in Offsets /\ Nil \in 1..Nil
    BY <1>1, BoundAssumption DEF Nil, Offsets
  <1>3. /\ records' \in Seq(R) /\ Len(records') = new
        /\ \A o \in Rec : records'[o] = records[o]
        /\ records'[new] = r
        /\ Rec' = Rec \cup {new} /\ new \notin Rec
    <2>1. records \in Seq(R) /\ records' = Append(records, r)
      BY DEF IInv, TypeOK, AppendRecord
    <2> HIDE DEF R, r
    <2> QED BY <1>1, <1>2, <2>1 DEF Rec
  <1>4. /\ UNCHANGED <<table, size, live, lost, open, mem, fresh>> /\ UNCHANGED scan
        /\ op' = [step |-> "walk", name |-> n, off |-> new, cur |-> 0, from |-> h, to |-> g]
    BY DEF AppendRecord
  <1>5. TypeOK'
    <2>1. op' \in CallTypes
      BY <1>1, <1>2, <1>4, BoundAssumption DEF CallTypes, Steps
    <2>2. 1..Len(records) \subseteq 1..Len(records') /\ 0..Len(records) \subseteq 0..Len(records')
      BY <1>1, <1>3
    <2>3. Len(records') <= MaxRec
      BY <1>1, <1>3, BoundAssumption
    <2> HIDE DEF new, r
    <2> QED BY <1>1, <1>3, <1>4, <2>1, <2>2, <2>3 DEF TypeOK, scan
  <1>6. \A o \in Rec : Bucket(o)' = Bucket(o)
    BY <1>3 DEF Bucket
  <1>7. live \subseteq Rec /\ ever \subseteq Rec /\ lost \subseteq Rec /\ keep \subseteq Rec
    BY <1>1 DEF TypeOK, Rec
  <1>8. ChainOK' /\ UniqueNames' /\ LinksForward'
    <2>1. \A b \in Buckets : LiveIn(b)' = LiveIn(b)
      BY <1>4, <1>6, <1>7 DEF LiveIn
    <2>2. ChainOK'
      BY <1>3, <1>4, <1>6, <1>7, <2>1, RecordTypes DEF ChainOK, NextLive, IInv
    <2>3. UniqueNames'
      BY <1>3, <1>4, <1>7 DEF UniqueNames, IInv
    <2>4. LinksForward'
      BY <1>1, <1>3, <1>6, RecordTypes, BoundAssumption DEF LinksForward, IInv, Nil
    <2> QED BY <2>2, <2>3, <2>4
  <1>9. OpOK'
    <2>1. ASSUME h \in fresh PROVE \A o \in live : records'[o].name # n
      <3>1. mem[h] = LiveView /\ n \notin NamesOf(mem[h])
        BY <1>1, <2>1 DEF IInv, MemOK, AppendRecord, Idle
      <3>2. ASSUME NEW o \in live PROVE records[o].name \in NamesOf(LiveView)
        <4>1. Entry(o) \in LiveView /\ Entry(o).name = records[o].name
          BY DEF LiveView, Entry
        <4> QED BY <4>1 DEF NamesOf
      <3> QED BY <3>1, <3>2, <1>3, <1>7
    <2>2. op'.step = "walk" /\ op'.off = new /\ op'.name = n /\ op'.cur = 0 /\ op'.from = h
      BY <1>4
    <2>3. \A o \in live : o \in Nat /\ o > 0
      BY <1>1, <1>7 DEF Rec
    <2>4. new \notin live /\ new \notin lost /\ records'[new].name = n /\ records'[new].link = Nil
      BY <1>3, <1>7
    <2> HIDE DEF new, r
    <2> QED BY <1>3, <1>4, <2>1, <2>2, <2>3, <2>4 DEF OpOK, OnChain, LiveIn
  <1>10. MemOK'
    <2>1. LiveView' = LiveView
      BY <1>3, <1>4, <1>7 DEF LiveView, Entry
    <2> QED BY <1>1, <1>3, <1>4, <2>1 DEF MemOK, IInv, Idle
  <1>11. LostOK'
    BY <1>3, <1>4, <1>7 DEF LostOK, IInv, scan
  <1>12. ScanOK'
    <2>1. Scanning => \A i \in 1..Len(work) : work[i] \in Rec
      BY <1>7 DEF IInv, ScanOK
    <2>2. /\ Scanning' = Scanning /\ reader' = reader /\ work' = work /\ pos' = pos
          /\ keep' = keep /\ ever' = ever /\ live' = live
      BY <1>4 DEF scan, Scanning
    <2>3. Scanning => \A i \in 1..Len(work) : Bucket(work[i])' = Bucket(work[i])
      BY <1>6, <2>1, <2>2 DEF Bucket
    <2>4. ScanOK
      BY DEF IInv
    <2>5. \A w \in ever : records'[w].link = records[w].link
      BY <1>3, <1>7
    <2>6. /\ \A w \in ever : Bucket(w)' = Bucket(w)
          /\ \A w \in keep : Bucket(w)' = Bucket(w)
      BY <1>6, <1>7
    <2>7. pos \in 1..Len(work) + 1 /\ Len(work) \in Nat
      BY <1>1 DEF TypeOK
    <2>8. Scanning => \A i \in pos..Len(work) : Bucket(work[i])' = Bucket(work[i])
      BY <2>3, <2>7
    <2> QED BY <1>1, <2>2, <2>3, <2>4, <2>5, <2>6, <2>8 DEF ScanOK
  <1> QED BY <1>5, <1>8, <1>9, <1>10, <1>11, <1>12 DEF IInv

LEMMA WalkInv ==
  ASSUME IInv, WalkOn
  PROVE  IInv'
  <1>1. /\ TypeOK /\ op.step = "walk" /\ CurLink # Nil /\ UNCHANGED <<file, open, mem, fresh, scan>>
        /\ CurLink \in Rec /\ CurLink \in LiveIn(HashNr[op.name]) /\ Len(records) \in Nat
        /\ NextLive(HashNr[op.name], op.cur, CurLink)
        /\ op.cur \in 0..Len(records)
    BY CurLinkFacts, RecordTypes DEF WalkOn, IInv
  <1>2. op \in CallTypes
    BY <1>1, CallType
  <1>3. /\ ~ (CurLink > Len(records))
        /\ CurLink \in 0..MaxRec
    BY <1>1, RecordTypes, BoundAssumption DEF Rec, Offsets
  <1>4. \/ /\ records[CurLink].name = op.name
           /\ op' = [op EXCEPT !.step = "refused"]
        \/ /\ records[CurLink].name # op.name
           /\ op' = [op EXCEPT !.cur = CurLink]
    BY <1>1, <1>3 DEF WalkOn, RefusedAt, SameLabel
  <1>5. op' \in CallTypes /\ op'.step \in {"walk", "refused"} /\ op'.off = op.off
        /\ op'.name = op.name /\ op'.from = op.from
    BY <1>1, <1>2, <1>3, <1>4 DEF CallTypes, Steps
  <1>6. TypeOK'
    BY <1>1, <1>5 DEF TypeOK, file, scan, CallTypes
  <1>7. ChainOK' /\ UniqueNames' /\ LinksForward'
    BY <1>1, SameChains DEF IInv, file
  <1>8. OpOK'
    <2>0. OpOK /\ UniqueNames
      BY DEF IInv
    <2>1. CASE records[CurLink].name = op.name /\ op' = [op EXCEPT !.step = "refused"]
      <3>1. op'.step = "refused"
        BY <1>2, <2>1 DEF CallTypes
      <3> QED BY <1>1, <1>5, <2>0, <2>1, <3>1 DEF OpOK, LiveIn, file
    <2>2. CASE records[CurLink].name # op.name /\ op' = [op EXCEPT !.cur = CurLink]
      <3>1. op'.step = "walk" /\ op'.cur = CurLink
        BY <1>1, <1>2, <2>2 DEF CallTypes
      <3>2. \A o \in LiveIn(HashNr[op.name]) : o <= CurLink => records[o].name # op.name
        <4>1. live \subseteq Rec
          BY <1>1 DEF TypeOK, Rec
        <4> QED BY <1>1, <2>0, <2>2, <4>1, RecordTypes DEF OpOK, NextLive, LiveIn, Rec
      <3> QED BY <1>1, <1>5, <2>0, <2>2, <3>1, <3>2 DEF OpOK, OnChain, LiveIn, Bucket, file
    <2> QED BY <1>4, <2>1, <2>2
  <1>9. MemOK'
    BY <1>1, <1>5 DEF MemOK, IInv, file, LiveView, Entry, Rec
  <1>10. LostOK'
    BY <1>1, <1>5 DEF LostOK, IInv, file, scan
  <1>11. ScanOK'
    BY <1>1, SameScan DEF IInv, ScanOK, Idle, file
  <1> QED BY <1>6, <1>7, <1>8, <1>9, <1>10, <1>11 DEF IInv

\* The end of a call: its result replaces the structure of one handle, and the
\* chains and the scan are as they were.
LEMMA CallEnds ==
  ASSUME IInv, op.step # "idle", op' = NoOp, UNCHANGED <<table, records, live>>, UNCHANGED scan,
         size' \in 0..Len(records), lost' = lost \/ (lost' = lost \cup {op.off} /\ op.step = "refused"),
         NEW m \in SUBSET [name : Names, off : Offsets],
         \A e \in m : e.off \in Rec /\ (~IsData => e.off \notin lost'),
         \/ UNCHANGED <<mem, open>>
         \/ mem' = [mem EXCEPT ![op.to] = m] /\ open' = open \cup {op.to},
         fresh' \subseteq open',
         \A h \in fresh' : mem'[h] = LiveView
  PROVE  IInv'
  <1>1. TypeOK /\ op.to \in Handles /\ op.from \in Handles /\ op.off \in Offsets /\ MemOK /\ OpOK
    BY CallType DEF IInv
  <1>2. op'.step = "idle" /\ op' \in {NoOp} \cup CallTypes
    BY DEF NoOp
  <1>3. /\ mem' \in [Handles -> SUBSET [name : Names, off : Offsets]]
        /\ open' \subseteq Handles
    BY <1>1 DEF TypeOK
  <1>4. lost' \subseteq 1..Len(records)
    <2>1. op.step = "refused" => op.off \in 1..Len(records)
      BY <1>1, RecordTypes DEF OpOK, Offsets
    <2>2. lost \subseteq 1..Len(records)
      BY <1>1 DEF TypeOK
    <2>3. CASE lost' = lost
      BY <2>2, <2>3
    <2>4. CASE lost' = lost \cup {op.off} /\ op.step = "refused"
      BY <2>1, <2>2, <2>4
    <2> QED BY <2>3, <2>4
  <1>5. TypeOK'
    BY <1>1, <1>2, <1>3, <1>4 DEF TypeOK, scan
  <1>6. ChainOK' /\ UniqueNames' /\ LinksForward'
    BY SameChains DEF IInv
  <1>7. OpOK'
    BY <1>2 DEF OpOK
  <1>8. LostOK'
    BY <1>1, <1>2 DEF LostOK, OpOK, IInv, scan
  <1>9. MemOK'
    <2>1. \A h \in Handles : \A e \in mem'[h] : e.off \in Rec /\ (~IsData => e.off \notin lost')
      <3> SUFFICES ASSUME NEW h \in Handles, NEW e \in mem'[h]
                   PROVE  e.off \in Rec /\ (~IsData => e.off \notin lost')
        OBVIOUS
      <3>1. e \in m \/ e \in mem[h]
        BY <1>1 DEF TypeOK
      <3> QED BY <1>1, <3>1 DEF MemOK
    <2>2. LiveView' = LiveView /\ Rec' = Rec
      BY DEF LiveView, Entry, Rec
    <2> QED BY <1>2, <2>1, <2>2 DEF MemOK
  <1>10. ScanOK'
    BY <1>2, SameScan DEF IInv, Idle
  <1> QED BY <1>5, <1>6, <1>7, <1>8, <1>9, <1>10 DEF IInv

LEMMA CreateDoneInv ==
  ASSUME IInv, CreateDone
  PROVE  IInv'
  <1>1. /\ op.step = "linked" /\ op' = NoOp /\ size' = Len(records)
        /\ mem' = [mem EXCEPT ![op.to] = mem[op.from] \cup {ThisEntry}]
        /\ open' = open \cup {op.to}
        /\ fresh' = IF op.from \in fresh THEN {op.to} ELSE {}
        /\ UNCHANGED <<table, records, live>> /\ UNCHANGED scan /\ lost' = lost
    BY DEF CreateDone, UpdateFileSize, Return, Added, scan
  <1>2. /\ TypeOK /\ MemOK /\ OpOK /\ LostOK
        /\ op.from \in Handles /\ op.to \in Handles /\ ThisEntry \in [name : Names, off : Offsets]
        /\ ThisEntry.off = op.off
    BY <1>1, CallType DEF IInv, ThisEntry
  <1> DEFINE m == mem[op.from] \cup {ThisEntry}
  <1>3. m \in SUBSET [name : Names, off : Offsets]
    BY <1>2 DEF TypeOK
  <1>4. op.off \in Rec /\ op.off \notin lost
    BY <1>1, <1>2 DEF OpOK, LostOK, TypeOK, Rec
  <1>5. \A e \in m : e.off \in Rec /\ (~IsData => e.off \notin lost')
    BY <1>1, <1>2, <1>4 DEF MemOK
  <1>6. \A h \in fresh' : mem'[h] = LiveView
    BY <1>1, <1>2 DEF MemOK, TypeOK
  <1>7. size' \in 0..Len(records)
    BY <1>1, <1>2, RecordTypes
  <1> QED BY <1>1, <1>3, <1>5, <1>6, <1>7, CallEnds

LEMMA CreateRefusedInv ==
  ASSUME IInv, NEW caught \in BOOLEAN, CreateRefused(caught)
  PROVE  IInv'
  <1>1. /\ op.step = "refused" /\ op' = NoOp /\ size' = Len(records)
        /\ lost' = lost \cup {op.off}
        /\ UNCHANGED <<table, records, live>> /\ UNCHANGED scan
        /\ \/ /\ mem' = [mem EXCEPT ![op.to] = Added(TRUE)]
              /\ open' = open \cup {op.to}
           \/ UNCHANGED <<mem, open>>
        /\ fresh' \in {fresh, fresh \ {op.to}} /\ (mem' = mem \/ fresh' = fresh \ {op.to})
    BY DEF CreateRefused, UpdateFileSize, Return, scan, IInv, OpOK
  <1>2. /\ TypeOK /\ MemOK /\ OpOK /\ LostOK
        /\ op.from \in Handles /\ op.to \in Handles /\ ThisEntry \in [name : Names, off : Offsets]
        /\ ThisEntry.off = op.off
    BY <1>1, CallType DEF IInv, ThisEntry
  <1>3. Added(TRUE) \in SUBSET [name : Names, off : Offsets]
    BY <1>2 DEF TypeOK, Added
  <1>4. op.off \in Rec
    BY <1>1, <1>2, RecordTypes DEF OpOK, Rec, Offsets
  <1>5. \A e \in Added(TRUE) : e.off \in Rec /\ (~IsData => e.off \notin lost')
    BY <1>1, <1>2, <1>4 DEF MemOK, Added
  <1>6. \A h \in fresh' : mem'[h] = LiveView
    BY <1>1, <1>2, ZenonT(40) DEF MemOK, TypeOK
  <1>7. size' \in 0..Len(records)
    BY <1>1, <1>2, RecordTypes
  <1>8. fresh \subseteq open
    BY <1>2 DEF TypeOK
  <1>9. fresh' \subseteq open'
    BY <1>1, <1>8
  <1> QED BY <1>1, <1>3, <1>5, <1>6, <1>7, <1>9, CallEnds

LEMMA RemoveDoneInv ==
  ASSUME IInv, RemoveDone
  PROVE  IInv'
  <1>1. /\ op.step = "unlinked" /\ op' = NoOp
        /\ mem' = [mem EXCEPT ![op.to] = mem[op.from] \ {ThisEntry}]
        /\ open' = open \cup {op.to}
        /\ fresh' = IF op.from \in fresh THEN {op.to} ELSE {}
        /\ UNCHANGED <<table, records, live>> /\ UNCHANGED scan /\ lost' = lost /\ size' = size
    BY DEF RemoveDone, Return, scan, file
  <1>2. TypeOK /\ MemOK /\ op.from \in Handles /\ op.to \in Handles
    BY <1>1, CallType DEF IInv
  <1> DEFINE m == mem[op.from] \ {ThisEntry}
  <1>3. m \in SUBSET [name : Names, off : Offsets]
    BY <1>2 DEF TypeOK
  <1>4. \A e \in m : e.off \in Rec /\ (~IsData => e.off \notin lost')
    BY <1>1, <1>2 DEF MemOK
  <1>5. \A h \in fresh' : mem'[h] = LiveView
    BY <1>1, <1>2 DEF MemOK, TypeOK
  <1>6. size' \in 0..Len(records)
    BY <1>1, <1>2 DEF TypeOK
  <1> QED BY <1>1, <1>3, <1>4, <1>5, <1>6, CallEnds

LEMMA RemoveFailedInv ==
  ASSUME IInv, NEW caught \in BOOLEAN, RemoveFailed(caught)
  PROVE  IInv'
  <1>1. /\ op.step = "missing" /\ op' = NoOp
        /\ UNCHANGED <<table, records, live>> /\ UNCHANGED scan /\ lost' = lost /\ size' = size
        /\ \/ /\ mem' = [mem EXCEPT ![op.to] = mem[op.from]]
              /\ open' = open \cup {op.to}
           \/ UNCHANGED <<mem, open>>
        /\ fresh' \in {fresh, fresh \ {op.to}} /\ (mem' = mem \/ fresh' = fresh \ {op.to})
    BY DEF RemoveFailed, Return, scan, file, IInv, OpOK
  <1>2. TypeOK /\ MemOK /\ op.from \in Handles /\ op.to \in Handles
    BY <1>1, CallType DEF IInv
  <1>3. mem[op.from] \in SUBSET [name : Names, off : Offsets]
    BY <1>2 DEF TypeOK
  <1>4. \A e \in mem[op.from] : e.off \in Rec /\ (~IsData => e.off \notin lost')
    BY <1>1, <1>2 DEF MemOK
  <1>5. \A h \in fresh' : mem'[h] = LiveView
    BY <1>1, <1>2 DEF MemOK, TypeOK
  <1>6. size' \in 0..Len(records) /\ fresh \subseteq open
    BY <1>1, <1>2 DEF TypeOK
  <1>7. fresh' \subseteq open'
    BY <1>1, <1>6
  <1> QED BY <1>1, <1>3, <1>4, <1>5, <1>6, <1>7, CallEnds

LEMMA BeginRemoveInv ==
  ASSUME IInv, NEW h \in Handles, NEW g \in Handles, NEW e \in mem[h], BeginRemove(h, g, e)
  PROVE  IInv'
  <1>1. /\ TypeOK /\ MemOK /\ Idle /\ reader \notin Handles /\ h \in open
        /\ op' = [step |-> "find", name |-> e.name, off |-> e.off, cur |-> 0, from |-> h, to |-> g]
        /\ UNCHANGED <<table, records, size, live, lost, open, mem, fresh>> /\ UNCHANGED scan
    BY DEF IInv, BeginRemove, SessionFree, file
  <1>2. e \in [name : Names, off : Offsets]
    BY <1>1 DEF TypeOK
  <1>3. op' \in CallTypes
    BY <1>1, <1>2, BoundAssumption DEF CallTypes, Steps
  <1>4. TypeOK'
    BY <1>1, <1>3 DEF TypeOK, scan
  <1>5. ChainOK' /\ UniqueNames' /\ LinksForward'
    BY <1>1, SameChains DEF IInv
  <1>6. OpOK'
    <2>1. h \in fresh => e.off \in live /\ records[e.off].name = e.name
      BY <1>1 DEF MemOK, Idle, LiveView, Entry
    <2> QED BY <1>1, <1>2, <2>1 DEF OpOK, OnChain, LiveIn, Bucket, Offsets
  <1>7. MemOK'
    BY <1>1 DEF MemOK, LiveView, Entry, Idle, Rec
  <1>8. LostOK'
    BY <1>1 DEF LostOK, IInv, scan
  <1>9. ScanOK'
    BY <1>1, SameScan DEF IInv
  <1> QED BY <1>4, <1>5, <1>6, <1>7, <1>8, <1>9 DEF IInv

LEMMA FindInv ==
  ASSUME IInv, FindOn
  PROVE  IInv'
  <1>1. /\ TypeOK /\ MemOK /\ OpOK /\ op.step = "find" /\ CurLink # op.off
        /\ UNCHANGED <<table, records, size, live, lost, open, mem, fresh>> /\ UNCHANGED scan
        /\ CurLink \in 1..Nil
        /\ CurLink # Nil => CurLink \in Rec /\ CurLink \in LiveIn(HashNr[op.name])
        /\ NextLive(HashNr[op.name], op.cur, CurLink)
        /\ op' = IF CurLink > Len(records) THEN [op EXCEPT !.step = "missing"]
                                           ELSE [op EXCEPT !.cur = CurLink]
    BY CurLinkFacts DEF IInv, FindOn, file
  <1>2. op \in CallTypes
    BY <1>1, CallType
  <1>3. CASE CurLink > Len(records)
    <2>1. op' \in CallTypes /\ op'.step = "missing" /\ op'.from = op.from /\ op'.off = op.off
      BY <1>1, <1>2, <1>3 DEF CallTypes, Steps
    <2>2. op.from \notin fresh
      <3>1. CurLink = Nil
        BY <1>1, <1>3, RecordTypes DEF Rec
      <3>2. SUFFICES ASSUME op.from \in fresh PROVE FALSE
        OBVIOUS
      <3>3. op.off \in LiveIn(HashNr[op.name]) /\ op.off > op.cur /\ op.off \in Rec
        BY <1>1, <1>2, <3>2 DEF OpOK, CallTypes, Offsets, LiveIn, TypeOK, Rec
      <3>4. op.off >= Nil
        BY <1>1, <3>1, <3>3 DEF NextLive
      <3> QED BY <1>1, <3>3, <3>4, RecordTypes, BoundAssumption DEF Rec, Nil
    <2>3. TypeOK'
      BY <1>1, <2>1 DEF TypeOK, scan
    <2>4. OpOK'
      BY <1>1, <2>1, <2>2 DEF OpOK
    <2>5. MemOK'
      BY <1>1, <2>1 DEF MemOK, LiveView, Entry, Rec
    <2>6. LostOK'
      BY <1>1, <2>1 DEF LostOK, IInv, scan
    <2>7. ChainOK' /\ UniqueNames' /\ LinksForward'
      BY <1>1, SameChains DEF IInv
    <2>8. ScanOK'
      BY <1>1, SameScan DEF IInv, ScanOK, Idle
    <2> QED BY <2>3, <2>4, <2>5, <2>6, <2>7, <2>8 DEF IInv
  <1>4. CASE ~(CurLink > Len(records))
    <2>1. CurLink \in Rec /\ CurLink \in LiveIn(HashNr[op.name]) /\ CurLink \in 0..MaxRec
      BY <1>1, <1>4, RecordTypes, BoundAssumption DEF Rec, Nil, Offsets, TypeOK
    <2>2. /\ op' \in CallTypes /\ op'.step = "find" /\ op'.from = op.from /\ op'.off = op.off
          /\ op'.name = op.name /\ op'.cur = CurLink
      BY <1>1, <1>2, <1>4, <2>1 DEF CallTypes, Steps
    <2>3. TypeOK'
      BY <1>1, <2>2 DEF TypeOK, scan
    <2>4. OpOK'
      <3>1. op.from \in fresh => CurLink < op.off
        BY <1>1, <1>2, <2>1 DEF OpOK, NextLive, CallTypes, Offsets, Rec
      <3> QED BY <1>1, <2>1, <2>2, <3>1 DEF OpOK, OnChain, LiveIn, Bucket
    <2>5. MemOK'
      BY <1>1, <2>2 DEF MemOK, LiveView, Entry, Rec
    <2>6. LostOK'
      BY <1>1, <2>2 DEF LostOK, IInv, scan
    <2>7. ChainOK' /\ UniqueNames' /\ LinksForward'
      BY <1>1, SameChains DEF IInv
    <2>8. ScanOK'
      BY <1>1, SameScan DEF IInv, ScanOK, Idle
    <2> QED BY <2>3, <2>4, <2>5, <2>6, <2>7, <2>8 DEF IInv
  <1> QED BY <1>3, <1>4

LEMMA LinkInv ==
  ASSUME IInv, LinkRecord
  PROVE  IInv'
  <1> DEFINE b == HashNr[op.name]
  <1>1. /\ TypeOK /\ OpOK /\ MemOK /\ LostOK /\ UniqueNames /\ ChainOK /\ LinksForward /\ ScanOK
        /\ op.step = "walk" /\ CurLink = Nil
        /\ live' = live \cup {op.off}
        /\ ever' = IF Scanning THEN ever \cup {op.off} ELSE ever
        /\ op' = [op EXCEPT !.step = "linked"]
        /\ fresh' = fresh \cap {op.from}
        /\ UNCHANGED <<size, lost, open, mem, reader, work, pos, keep>>
        /\ NextLive(b, op.cur, Nil)
        /\ op.cur \in 0..Len(records)
        /\ WriteLink(b, op.cur, op.off)
    BY CurLinkFacts DEF IInv, LinkRecord
  <1>2. /\ op \in CallTypes /\ b \in Buckets
        /\ op.from \in Handles /\ op.to \in Handles
    BY <1>1, CallType
  <1>3. /\ op.off = Len(records) /\ op.off \notin live \cup lost /\ op.off \in Rec
        /\ records[op.off].name = op.name /\ records[op.off].link = Nil
        /\ OnChain /\ Bucket(op.off) = b /\ Nil \in 1..Nil /\ op.off \in 1..Nil
        /\ Len(records) \in Nat
    BY <1>1, <1>2, RecordTypes, BoundAssumption DEF OpOK, CallTypes, Offsets, Rec, Bucket, Nil
  <1>4. /\ op' \in CallTypes /\ op'.step = "linked" /\ op'.from = op.from /\ op'.off = op.off
        /\ op'.name = op.name /\ op'.to = op.to /\ ThisEntry' = ThisEntry
    BY <1>1, <1>2 DEF CallTypes, Steps, ThisEntry
  <1>5. /\ table' \in [Buckets -> 1..Nil]
        /\ records' \in Seq([link : 1..Nil, name : Names])
        /\ Len(records') = Len(records) /\ Rec' = Rec
        /\ \A o \in Rec : records'[o].name = records[o].name
        /\ \A o \in Rec : records'[o].link = IF o = op.cur THEN op.off ELSE records[o].link
        /\ \A c \in Buckets : table'[c] = IF op.cur = 0 /\ c = b THEN op.off ELSE table[c]
    <2> DEFINE cur == op.cur
               x   == op.off
    <2>1. b \in Buckets /\ cur \in 0..Len(records) /\ x \in 1..Nil /\ TypeOK /\ WriteLink(b, cur, x)
      BY <1>1, <1>2, <1>3
    <2> HIDE DEF b, cur, x
    <2>2. /\ table' \in [Buckets -> 1..Nil]
          /\ records' \in Seq([link : 1..Nil, name : Names])
          /\ Len(records') = Len(records)
          /\ \A o \in Rec : records'[o].name = records[o].name
          /\ \A o \in Rec : records'[o].link = IF o = cur THEN x ELSE records[o].link
          /\ \A c \in Buckets : table'[c] = IF cur = 0 /\ c = b THEN x ELSE table[c]
      BY <2>1, WriteLinkFacts
    <2> USE DEF cur, x
    <2>3. Rec' = Rec
      BY <2>2 DEF Rec
    <2> QED BY <2>2, <2>3
  <1>6. \A o \in Rec : Bucket(o)' = Bucket(o)
    BY <1>5 DEF Bucket
  <1>7. live \subseteq Rec /\ ever \subseteq Rec /\ lost \subseteq Rec /\ keep \subseteq live /\ keep \subseteq ever
    BY <1>1 DEF TypeOK, Rec
  <1>8. TypeOK'
    <2>1. live' \subseteq 1..Len(records') /\ ever' \subseteq 1..Len(records') /\ keep' \subseteq live' /\ keep' \subseteq ever'
      BY <1>1, <1>3, <1>5, <1>7 DEF Rec
    <2> QED BY <1>1, <1>4, <1>5, <2>1 DEF TypeOK
  <1>9. \A c \in Buckets : LiveIn(c)' = IF c = b THEN LiveIn(c) \cup {op.off} ELSE LiveIn(c)
    BY <1>1, <1>3, <1>6, <1>7 DEF LiveIn
  \* The record that is linked to is the last of its bucket.
  <1>10. \A o \in LiveIn(b) : o <= op.cur
    <2>1. \A o \in LiveIn(b) : o \in Rec
      BY <1>7 DEF LiveIn
    <2>2. \A o \in LiveIn(b) : o > op.cur => o >= Nil
      BY <1>1 DEF NextLive
    <2>3. \A o \in Rec : o < Nil /\ o \in Nat
      BY <1>1, <1>3, RecordTypes DEF Rec
    <2> QED BY <1>1, <1>3, <2>1, <2>2, <2>3, BoundAssumption DEF Nil
  <1>11. op.cur < op.off /\ (op.cur # 0 => op.cur \in live /\ op.cur \in Rec /\ Bucket(op.cur) = b)
    <2>1. op.cur # 0 => op.cur \in live /\ op.cur \in Rec /\ Bucket(op.cur) = b
      BY <1>1, <1>3, <1>7 DEF OnChain, LiveIn
    <2>2. op.cur # op.off
      BY <1>1, <1>3, <2>1 DEF Rec
    <2> QED BY <1>1, <1>3, <2>1, <2>2
  <1>12. /\ \A c \in Buckets : LiveIn(c) \in SUBSET Nat
         /\ op.cur \in Nat /\ op.off \in Offsets
    BY <1>1, <1>2, <1>7 DEF LiveIn, Rec, CallTypes
  <1>13. ChainOK'
    <2> DEFINE x   == op.off
               cur == op.cur
               S   == LiveIn(b)
    <2>0. /\ NextIn(S \cup {x}, cur, x)
          /\ NextIn(S \cup {x}, x, Nil)
          /\ \A a \in Nat, l \in 1..Nil :
               NextIn(S, a, l) /\ a < cur /\ cur \in S => NextIn(S \cup {x}, a, l)
      <3>1. S \in SUBSET Nat /\ cur \in Nat /\ x \in Offsets /\ cur < x /\ \A o \in S : o <= cur
        BY <1>2, <1>10, <1>11, <1>12
      <3> HIDE DEF S, cur, x
      <3> QED BY <3>1, Extend
    <2>1. ASSUME NEW c \in Buckets PROVE NextLive(c, 0, table[c])'
      <3> SUFFICES NextIn(LiveIn(c)', 0, table'[c])
        BY DEF NextLive, NextIn
      <3>1. NextIn(LiveIn(c), 0, table[c]) /\ table[c] \in 1..Nil
        BY <1>1, NextLiveIsNextIn DEF ChainOK, TypeOK
      <3>2. CASE c # b
        BY <1>5, <1>9, <3>1, <3>2
      <3>3. CASE c = b /\ cur = 0
        BY <1>5, <1>9, <2>0, <3>3
      <3>4. CASE c = b /\ cur # 0
        <4>1. cur \in S /\ 0 < cur
          BY <1>11, <1>12, <3>4 DEF LiveIn
        <4>2. LiveIn(c)' = S \cup {x} /\ table'[c] = table[b]
          BY <1>5, <1>9, <3>4
        <4> HIDE DEF S, cur, x
        <4> QED BY <2>0, <3>1, <3>4, <4>1, <4>2 DEF S
      <3> QED BY <3>2, <3>3, <3>4
    <2>2. ASSUME NEW o \in live' PROVE NextLive(Bucket(o), o, records[o].link)'
      <3>1. o \in Rec /\ (o = x \/ o \in live) /\ Bucket(o)' = Bucket(o) /\ Bucket(o) \in Buckets
            /\ o \in Nat /\ records[o].link \in 1..Nil
        BY <1>1, <1>3, <1>6, <1>7, RecordTypes DEF Rec
      <3>0. PICK c \in Buckets : c = Bucket(o)
        BY <3>1
      <3> SUFFICES NextIn(LiveIn(c)', o, records'[o].link)
        BY <3>0, <3>1 DEF NextLive, NextIn, LiveIn
      <3>5. \/ c = b /\ LiveIn(c)' = S \cup {x}
            \/ c # b /\ LiveIn(c)' = LiveIn(c)
        BY <1>9
      <3>2. CASE o = x
        <4>1. records'[o].link = Nil /\ c = b
          BY <1>3, <1>5, <1>11, <3>0, <3>1, <3>2
        <4> QED BY <2>0, <3>2, <3>5, <4>1
      <3>3. CASE o # x /\ o = cur
        <4>1. records'[o].link = x /\ c = b
          <5>1. cur # 0
            BY <3>1, <3>3 DEF Rec
          <5>2. Bucket(cur) = b
            BY <1>11, <5>1
          <5> QED BY <1>5, <3>0, <3>1, <3>3, <5>2
        <4> QED BY <2>0, <3>3, <3>5, <4>1
      <3>4. CASE o # x /\ o # cur
        <4>1. NextIn(LiveIn(c), o, records[o].link) /\ records'[o].link = records[o].link
              /\ o \in live
          BY <1>1, <1>5, <3>0, <3>1, <3>4, NextLiveIsNextIn DEF ChainOK
        <4>2. CASE c # b
          BY <3>5, <4>1, <4>2
        <4>3. CASE c = b
          <5>1. o \in S
            BY <3>0, <4>1, <4>3 DEF LiveIn
          <5>2. o < cur
            BY <1>10, <1>12, <3>1, <3>4, <5>1
          <5>3. cur \in S
            BY <1>11, <1>12, <3>1, <5>2 DEF LiveIn
          <5>4. LiveIn(c)' = S \cup {x}
            BY <3>5, <4>3
          <5>5. NextIn(S, o, records[o].link)
            BY <4>1, <4>3
          <5> HIDE DEF S, cur, x
          <5> QED BY <2>0, <3>1, <4>1, <5>2, <5>3, <5>4, <5>5
        <4> QED BY <4>2, <4>3
      <3> QED BY <3>1, <3>2, <3>3, <3>4
    <2> QED BY <2>1, <2>2 DEF ChainOK
  <1>14. UniqueNames'
    <2>1. \A o \in live : records[o].name # op.name
      BY <1>1, <1>3, <1>7, <1>10, HashAssumption DEF OpOK, LiveIn, Bucket
    <2> QED BY <1>1, <1>3, <1>5, <1>7, <2>1 DEF UniqueNames
  <1>15. LinksForward'
    <2> SUFFICES ASSUME NEW o \in Rec
                 PROVE  /\ records'[o].link > o
                        /\ records'[o].link # Nil => /\ records'[o].link \in Rec
                                                     /\ Bucket(records[o].link)' = Bucket(o)'
      BY <1>5 DEF LinksForward
    <2>1. CASE o = op.cur
      <3>1. records'[o].link = op.off /\ op.cur # 0
        BY <1>5, <2>1 DEF Rec
      <3>2. PICK x \in Rec : x = op.off
        BY <1>3
      <3>3. Bucket(x)' = b /\ Bucket(o)' = b
        BY <1>3, <1>6, <1>11, <2>1, <3>1, <3>2
      <3>4. Bucket(records[o].link)' = Bucket(x)'
        BY <3>1, <3>2 DEF Bucket
      <3> HIDE DEF b
      <3> QED BY <1>3, <1>11, <2>1, <3>1, <3>3, <3>4
    <2>2. CASE o # op.cur
      <3>1. /\ records'[o].link = records[o].link /\ records[o].link > o
            /\ records[o].link # Nil => /\ records[o].link \in Rec
                                        /\ Bucket(records[o].link) = Bucket(o)
        BY <1>1, <1>5, <2>2 DEF LinksForward
      <3>2. records[o].link \in Rec => Bucket(records[o].link)' = Bucket(records[o].link)
        BY <1>5, <3>1 DEF Bucket
      <3> QED BY <1>6, <3>1, <3>2
    <2> QED BY <2>1, <2>2
  <1>16. OpOK'
    BY <1>1, <1>3, <1>4, <1>5 DEF OpOK
  <1>17. MemOK'
    <2>1. LiveView' = LiveView \cup {ThisEntry}
      BY <1>1, <1>3, <1>5, <1>7 DEF LiveView, Entry, ThisEntry
    <2>2. \A h \in fresh : mem[h] = LiveView
      BY <1>1 DEF MemOK
    <2> QED BY <1>1, <1>4, <1>5, <2>1, <2>2 DEF MemOK
  <1>18. LostOK'
    BY <1>1, <1>3, <1>4 DEF LostOK
  <1>19. ScanOK'
    <2>1. reader \notin Handles
      BY <1>1 DEF ScanOK, Idle
    <2>2. Scanning' = Scanning
      BY <1>1 DEF Scanning
    <2>3. CASE ~Scanning
      BY <1>1, <2>1, <2>2, <2>3 DEF ScanOK
    <2>4. CASE Scanning
      <3> DEFINE x == op.off
      <3>1. ever' = ever \cup {x} /\ work' = work /\ pos' = pos /\ keep' = keep /\ reader' = reader
            /\ live' = live \cup {x}
        BY <1>1, <2>4
      <3>2. /\ live \subseteq ever
            /\ \A w \in ever : records[w].link # Nil => records[w].link \in ever
            /\ \A i \in 1..Len(work) : work[i] \in ever
            /\ \A o \in keep : \/ \E i \in 1..Len(work) : work[i] = o
                               \/ \E i \in pos..Len(work) : Bucket(work[i]) = Bucket(o) /\ work[i] < o
            /\ \A w \in ever, o \in keep :
                 Bucket(w) = Bucket(o) /\ o > w => o >= records[w].link
            /\ \A i, j \in 1..Len(work) :
                 i < j /\ Bucket(work[i]) = Bucket(work[j]) => work[i] < work[j] /\ i < pos
        BY <1>1, <2>4 DEF ScanOK
      <3>3. Len(work) \in Nat /\ pos \in 1..Len(work) + 1
        BY <1>1 DEF TypeOK
      <3>4. /\ \A i \in 1..Len(work) : work[i] \in Rec /\ Bucket(work[i])' = Bucket(work[i])
            /\ \A i \in pos..Len(work) : i \in 1..Len(work)
            /\ \A o \in keep : o \in Rec /\ o \in live /\ Bucket(o)' = Bucket(o)
        <4>1. \A i \in 1..Len(work) : work[i] \in Rec
          BY <1>7, <3>2
        <4>2. \A i \in 1..Len(work) : Bucket(work[i])' = Bucket(work[i])
          BY <1>6, <4>1, <3>1 DEF Bucket
        <4> QED BY <1>6, <1>7, <3>3, <4>1, <4>2
      <3>5. \A w \in ever' : records'[w].link # Nil => records'[w].link \in ever'
        BY <1>3, <1>5, <1>7, <3>1, <3>2, SMTT(30)
      <3>6. \A o \in keep : \/ \E i \in 1..Len(work) : work[i] = o
                           \/ \E i \in pos..Len(work) : Bucket(work[i])' = Bucket(o)' /\ work[i] < o
        BY <3>2, <3>4
      <3>7. ASSUME NEW w \in ever', NEW o \in keep, Bucket(w)' = Bucket(o)', o > w
            PROVE  o >= records'[w].link
        <4>1. w \in Rec /\ o \in Rec /\ Bucket(w) = Bucket(o) /\ w \in Nat /\ o \in Nat
          BY <1>3, <1>6, <1>7, <3>1, <3>4, <3>7 DEF Rec
        <4>2. w # x
          BY <1>3, <3>7, <4>1 DEF Rec
        <4>3. w # op.cur
          <5> SUFFICES ASSUME w = op.cur PROVE FALSE
            OBVIOUS
          <5>1. Bucket(o) = b /\ o \in live
            BY <1>11, <3>4, <4>1, <1>3 DEF Rec
          <5> QED BY <1>10, <1>12, <3>7, <4>1, <5>1 DEF LiveIn
        <4> QED BY <1>5, <3>1, <3>2, <3>7, <4>1, <4>2, <4>3
      <3>8. \A i, j \in 1..Len(work) :
               i < j /\ Bucket(work[i])' = Bucket(work[j])' => work[i] < work[j] /\ i < pos
        BY <3>2, <3>4
      <3>9. live' \subseteq ever' /\ \A i \in 1..Len(work) : work[i] \in ever'
        BY <3>1, <3>2
      <3> QED BY <2>1, <2>2, <2>4, <3>1, <3>5, <3>6, <3>7, <3>8, <3>9 DEF ScanOK
    <2> QED BY <2>3, <2>4
  <1> QED BY <1>8, <1>13, <1>14, <1>15, <1>16, <1>17, <1>18, <1>19 DEF IInv

LEMMA UnlinkInv ==
  ASSUME IInv, UnlinkRecord
  PROVE  IInv'
  <1> DEFINE b == HashNr[op.name]
  <1>1. /\ TypeOK /\ OpOK /\ MemOK /\ LostOK /\ UniqueNames /\ ChainOK /\ LinksForward /\ ScanOK
        /\ op.step = "find" /\ CurLink = op.off
        /\ UNCHANGED <<size, lost, open, mem, reader, work, pos, ever>>
        /\ NextLive(b, op.cur, op.off)
        /\ op.cur \in 0..Len(records)
        /\ CurLink # Nil => CurLink \in Rec /\ CurLink \in LiveIn(b)
    BY CurLinkFacts DEF IInv, UnlinkRecord
  <1>2. /\ op \in CallTypes /\ b \in Buckets /\ op.off \in Offsets
        /\ op.from \in Handles /\ op.to \in Handles
    BY <1>1, CallType
  <1>3. CASE ~SameLabel(op.off)
    <2>1. /\ op' = [op EXCEPT !.step = "missing"]
          /\ UNCHANGED <<table, records, live, keep, fresh>>
      BY <1>3 DEF UnlinkRecord
    <2>2. op' \in CallTypes /\ op'.step = "missing" /\ op'.from = op.from /\ op'.off = op.off
      BY <1>2, <2>1 DEF CallTypes, Steps
    <2>3. op.from \notin fresh
      BY <1>1, <1>3 DEF OpOK, SameLabel
    <2>4. TypeOK'
      BY <1>1, <2>1, <2>2 DEF TypeOK
    <2>5. OpOK'
      BY <2>1, <2>2, <2>3 DEF OpOK
    <2>6. MemOK'
      BY <1>1, <2>1, <2>2 DEF MemOK, LiveView, Entry, Rec
    <2>7. LostOK'
      BY <1>1, <2>1, <2>2 DEF LostOK
    <2>8. ChainOK' /\ UniqueNames' /\ LinksForward'
      BY <1>1, <2>1, SameChains
    <2>9. ScanOK'
      BY <1>1, <2>1, SameScan DEF ScanOK, Idle, scan
    <2> QED BY <2>4, <2>5, <2>6, <2>7, <2>8, <2>9 DEF IInv
  <1>4. CASE SameLabel(op.off)
    <2> DEFINE cur == op.cur
               x   == op.off
               l   == records[op.off].link
               S   == LiveIn(b)
    <2>1. /\ WriteLink(b, cur, l)
          /\ live' = live \ {x} /\ keep' = keep \ {x}
          /\ op' = [op EXCEPT !.step = "unlinked"]
          /\ fresh' = fresh \cap {op.from}
      BY <1>4 DEF UnlinkRecord, LinkAfter
    <2>2. /\ op' \in CallTypes /\ op'.step = "unlinked" /\ op'.from = op.from /\ op'.off = op.off
          /\ op'.name = op.name /\ op'.to = op.to /\ ThisEntry' = ThisEntry
      BY <1>2, <2>1 DEF CallTypes, Steps, ThisEntry
    <2>3. /\ x \in Rec /\ x \in live /\ Bucket(x) = b /\ x \notin lost
          /\ records[x].name = op.name /\ l \in 1..Nil /\ x # Nil
          /\ Len(records) \in Nat /\ Nil \in Nat
      BY <1>1, <1>2, <1>4, RecordTypes, BoundAssumption DEF LiveIn, SameLabel, LostOK, Nil, Offsets
    <2>4. /\ table' \in [Buckets -> 1..Nil]
          /\ records' \in Seq([link : 1..Nil, name : Names])
          /\ Len(records') = Len(records) /\ Rec' = Rec
          /\ \A o \in Rec : records'[o].name = records[o].name
          /\ \A o \in Rec : records'[o].link = IF o = cur THEN l ELSE records[o].link
          /\ \A c \in Buckets : table'[c] = IF cur = 0 /\ c = b THEN l ELSE table[c]
      <3>1. b \in Buckets /\ cur \in 0..Len(records) /\ l \in 1..Nil /\ TypeOK /\ WriteLink(b, cur, l)
        BY <1>1, <1>2, <2>1, <2>3
      <3> HIDE DEF b, cur, l
      <3>2. /\ table' \in [Buckets -> 1..Nil]
            /\ records' \in Seq([link : 1..Nil, name : Names])
            /\ Len(records') = Len(records)
            /\ \A o \in Rec : records'[o].name = records[o].name
            /\ \A o \in Rec : records'[o].link = IF o = cur THEN l ELSE records[o].link
            /\ \A c \in Buckets : table'[c] = IF cur = 0 /\ c = b THEN l ELSE table[c]
        BY <3>1, WriteLinkFacts
      <3>3. Rec' = Rec
        BY <3>2 DEF Rec
      <3> QED BY <3>2, <3>3
    <2>5. \A o \in Rec : Bucket(o)' = Bucket(o)
      BY <2>4 DEF Bucket
    <2>6. live \subseteq Rec /\ ever \subseteq Rec /\ lost \subseteq Rec /\ keep \subseteq live /\ keep \subseteq ever
      BY <1>1 DEF TypeOK, Rec
    <2>7. TypeOK'
      <3>1. live' \subseteq 1..Len(records') /\ ever' \subseteq 1..Len(records')
            /\ keep' \subseteq live' /\ keep' \subseteq ever'
        BY <1>1, <2>1, <2>4, <2>6 DEF Rec
      <3> HIDE DEF b, cur, x, l, S
      <3> QED BY <1>1, <2>1, <2>2, <2>4, <3>1 DEF TypeOK
    <2>8. \A c \in Buckets : LiveIn(c)' = IF c = b THEN S \ {x} ELSE LiveIn(c)
      BY <2>1, <2>3, <2>5, <2>6 DEF LiveIn
    <2>9. /\ cur = 0 \/ cur \in S
          /\ cur \in Nat /\ S \in SUBSET Nat /\ x \in S /\ l \in Nat /\ x \in Nat
          /\ NextIn(S, cur, x) /\ NextIn(S, x, l)
      <3>1. cur = 0 \/ cur \in S
        BY <1>1 DEF OpOK, OnChain
      <3>2. cur \in Nat /\ S \in SUBSET Nat /\ x \in S /\ l \in Nat /\ x \in Nat
        <4>1. S \subseteq Rec /\ x \in S
          BY <2>3, <2>6 DEF LiveIn
        <4>2. Rec \subseteq Nat /\ 1..Nil \subseteq Nat /\ 0..Len(records) \subseteq Nat
          BY DEF Rec
        <4> QED BY <1>1, <2>3, <4>1, <4>2
      <3>3. NextIn(S, cur, x)
        BY <1>1, NextLiveIsNextIn
      <3>4. NextIn(S, x, l)
        BY <1>1, <2>3, NextLiveIsNextIn DEF ChainOK
      <3> QED BY <3>1, <3>2, <3>3, <3>4
    <2>10. /\ NextIn(S \ {x}, cur, l)
           /\ \A a \in S \cup {0}, k \in Nat :
                NextIn(S, a, k) /\ a # cur => NextIn(S \ {x}, a, k)
      <3> HIDE DEF S, cur, x, l
      <3> QED BY <2>3, <2>9, Bypass
    <2>11. cur < x /\ x < l
      BY <2>9 DEF NextIn
    <2>12. ChainOK'
      <3>1. ASSUME NEW c \in Buckets PROVE NextLive(c, 0, table[c])'
        <4> SUFFICES NextIn(LiveIn(c)', 0, table'[c])
          BY DEF NextLive, NextIn
        <4>1. NextIn(LiveIn(c), 0, table[c]) /\ table[c] \in Nat
          BY <1>1, NextLiveIsNextIn, <2>3 DEF ChainOK, TypeOK
        <4>2. \/ c = b /\ LiveIn(c)' = S \ {x}
              \/ c # b /\ LiveIn(c)' = LiveIn(c) /\ table'[c] = table[c]
          BY <2>4, <2>8
        <4>3. CASE c = b /\ cur = 0
          BY <2>4, <2>10, <4>2, <4>3
        <4>4. CASE c = b /\ cur # 0
          <5>1. table'[c] = table[c] /\ NextIn(S, 0, table[c])
            BY <2>4, <4>1, <4>4
          <5> HIDE DEF S, cur, x, l
          <5> QED BY <2>10, <4>1, <4>2, <4>4, <5>1
        <4> QED BY <4>1, <4>2, <4>3, <4>4
      <3>2. ASSUME NEW o \in live' PROVE NextLive(Bucket(o), o, records[o].link)'
        <4>1. /\ o \in Rec /\ o # x /\ o \in live /\ Bucket(o)' = Bucket(o) /\ Bucket(o) \in Buckets
              /\ o \in Nat /\ records[o].link \in Nat
          BY <1>1, <2>1, <2>3, <2>5, <2>6, RecordTypes DEF Rec
        <4>2. PICK c \in Buckets : c = Bucket(o)
          BY <4>1
        <4> SUFFICES NextIn(LiveIn(c)', o, records'[o].link)
          BY <4>1, <4>2 DEF NextLive, NextIn, LiveIn
        <4>3. NextIn(LiveIn(c), o, records[o].link)
          BY <1>1, <4>1, <4>2, NextLiveIsNextIn DEF ChainOK
        <4>4. \/ c = b /\ LiveIn(c)' = S \ {x} /\ o \in S
              \/ c # b /\ LiveIn(c)' = LiveIn(c)
          BY <2>8, <4>1, <4>2 DEF LiveIn
        <4>5. CASE o = cur
          <5>1. c = b
            BY <2>9, <4>1, <4>2, <4>5 DEF LiveIn, Rec
          <5>2. records'[o].link = l
            BY <2>4, <4>1, <4>5
          <5> QED BY <2>10, <4>4, <4>5, <5>1, <5>2
        <4>6. CASE o # cur
          <5>1. records'[o].link = records[o].link
            BY <2>4, <4>1, <4>6
          <5>2. CASE c # b
            BY <4>3, <4>4, <5>1, <5>2
          <5>3. CASE c = b
            <6>1. NextIn(S, o, records[o].link)
              BY <4>3, <5>3
            <6> HIDE DEF S, cur, x, l
            <6> QED BY <2>10, <4>1, <4>4, <4>6, <5>1, <5>3, <6>1
          <5> QED BY <5>2, <5>3
        <4> QED BY <4>5, <4>6
      <3> QED BY <3>1, <3>2 DEF ChainOK
    <2>13. UniqueNames'
      BY <1>1, <2>1, <2>4, <2>6 DEF UniqueNames
    <2>14. l # Nil => l \in Rec /\ Bucket(l) = b
      BY <1>1, <2>3 DEF LinksForward
    <2>15. LinksForward'
      <3> SUFFICES ASSUME NEW o \in Rec
                   PROVE  /\ records'[o].link > o
                          /\ records'[o].link # Nil => /\ records'[o].link \in Rec
                                                       /\ Bucket(records[o].link)' = Bucket(o)'
        BY <2>4 DEF LinksForward
      <3>1. CASE o = cur
        <4>1. records'[o].link = l /\ cur # 0
          BY <2>4, <3>1 DEF Rec
        <4>2. Bucket(o)' = b
          BY <2>5, <2>9, <3>1, <4>1 DEF LiveIn
        <4>3. l \in Rec => Bucket(records[o].link)' = Bucket(l)
          <5>1. SUFFICES ASSUME l \in Rec PROVE Bucket(records[o].link)' = Bucket(l)
            OBVIOUS
          <5>2. PICK k \in Rec : k = l
            BY <5>1
          <5>3. Bucket(records[o].link)' = Bucket(k)'
            BY <4>1, <5>2 DEF Bucket
          <5> QED BY <2>5, <5>2, <5>3
        <4>4. l > o
          BY <2>9, <2>11, <3>1
        <4> HIDE DEF l
        <4> QED BY <2>14, <4>1, <4>2, <4>3, <4>4
      <3>2. CASE o # cur
        <4>1. /\ records'[o].link = records[o].link /\ records[o].link > o
              /\ records[o].link # Nil => /\ records[o].link \in Rec
                                          /\ Bucket(records[o].link) = Bucket(o)
          BY <1>1, <2>4, <3>2 DEF LinksForward
        <4>2. records[o].link \in Rec => Bucket(records[o].link)' = Bucket(records[o].link)
          BY <2>4, <4>1 DEF Bucket
        <4> QED BY <2>5, <4>1, <4>2
      <3> QED BY <3>1, <3>2
    <2>16. OpOK'
      BY <2>1, <2>2, <2>3, <1>1, <2>4 DEF OpOK
    <2>17. MemOK'
      <3>1. LiveView' = LiveView \ {ThisEntry}
        <4>1. LiveView' = {[name |-> records[o].name, off |-> o] : o \in live \ {x}}
          BY <2>1, <2>4, <2>6 DEF LiveView, Entry
        <4>2. ThisEntry = [name |-> records[x].name, off |-> x]
          BY <2>3 DEF ThisEntry
        <4> QED BY <4>1, <4>2 DEF LiveView, Entry
      <3>2. \A h \in fresh : mem[h] = LiveView
        BY <1>1 DEF MemOK
      <3> QED BY <1>1, <2>1, <2>2, <2>4, <3>1, <3>2 DEF MemOK
    <2>18. LostOK'
      BY <1>1, <2>1, <2>2 DEF LostOK
    <2>19. ScanOK'
      <3>1. reader \notin Handles
        BY <1>1 DEF ScanOK, Idle
      <3>2. Scanning' = Scanning
        BY <1>1 DEF Scanning
      <3>3. CASE ~Scanning
        BY <1>1, <2>1, <3>1, <3>2, <3>3 DEF ScanOK
      <3>4. CASE Scanning
        <4>1. ever' = ever /\ work' = work /\ pos' = pos /\ keep' = keep \ {x} /\ reader' = reader
              /\ live' = live \ {x}
          BY <1>1, <2>1
        <4>2. /\ live \subseteq ever
              /\ \A w \in ever : records[w].link # Nil => records[w].link \in ever
              /\ \A i \in 1..Len(work) : work[i] \in ever
              /\ \A o \in keep : \/ \E i \in 1..Len(work) : work[i] = o
                                 \/ \E i \in pos..Len(work) : Bucket(work[i]) = Bucket(o) /\ work[i] < o
              /\ \A w \in ever, o \in keep :
                   Bucket(w) = Bucket(o) /\ o > w => o >= records[w].link
              /\ \A i, j \in 1..Len(work) :
                   i < j /\ Bucket(work[i]) = Bucket(work[j]) => work[i] < work[j] /\ i < pos
          BY <1>1, <3>4 DEF ScanOK
        <4>3. Len(work) \in Nat /\ pos \in 1..Len(work) + 1
          BY <1>1 DEF TypeOK
        <4>4. /\ \A i \in 1..Len(work) : work[i] \in Rec /\ Bucket(work[i])' = Bucket(work[i])
              /\ \A i \in pos..Len(work) : i \in 1..Len(work)
              /\ \A o \in keep : o \in Rec /\ o \in live /\ Bucket(o)' = Bucket(o)
          <5>1. \A i \in 1..Len(work) : work[i] \in Rec
            BY <2>6, <4>2
          <5>2. \A i \in 1..Len(work) : Bucket(work[i])' = Bucket(work[i])
            BY <2>5, <5>1, <4>1 DEF Bucket
          <5> QED BY <2>5, <2>6, <4>3, <5>1, <5>2
        <4>5. \A w \in ever : records'[w].link # Nil => records'[w].link \in ever
          <5> HIDE DEF b, cur
          <5> QED BY <2>3, <2>4, <2>6, <4>2
        <4>6. \A o \in keep : \/ \E i \in 1..Len(work) : work[i] = o
                             \/ \E i \in pos..Len(work) : Bucket(work[i])' = Bucket(o)' /\ work[i] < o
          BY <4>2, <4>4
        <4>7. ASSUME NEW w \in ever, NEW o \in keep \ {x}, Bucket(w)' = Bucket(o)', o > w
              PROVE  o >= records'[w].link
          <5>1. w \in Rec /\ o \in Rec /\ Bucket(w) = Bucket(o) /\ w \in Nat /\ o \in Nat
            BY <2>5, <2>6, <4>4, <4>7 DEF Rec
          <5>2. CASE w = cur
            <6>1. o \in S
              BY <2>9, <4>4, <5>1, <5>2 DEF LiveIn, Rec
            <6>2. o >= x /\ o # x
              BY <2>9, <4>7, <5>2, <6>1 DEF NextIn
            <6>3. o >= l
              BY <2>9, <5>1, <6>1, <6>2 DEF NextIn
            <6>4. records'[w].link = l
              BY <2>4, <5>1, <5>2
            <6> QED BY <6>3, <6>4
          <5>3. CASE w # cur
            BY <2>4, <4>2, <4>7, <5>1, <5>3
          <5> QED BY <5>2, <5>3
        <4>8. \A i, j \in 1..Len(work) :
                 i < j /\ Bucket(work[i])' = Bucket(work[j])' => work[i] < work[j] /\ i < pos
          BY <4>2, <4>4
        <4>9. live' \subseteq ever'
          BY <4>1, <4>2
        <4> HIDE DEF b, cur, x, l, S
        <4> QED BY <3>1, <3>2, <3>4, <4>1, <4>2, <4>5, <4>6, <4>7, <4>8, <4>9 DEF ScanOK
      <3> QED BY <3>3, <3>4
    <2> QED BY <2>7, <2>12, <2>13, <2>15, <2>16, <2>17, <2>18, <2>19 DEF IInv
  <1> QED BY <1>3, <1>4

------------------------------------------------------------------------------
\* SetToSeq lists a finite set, each element once.
LEMMA SetToSeqFacts ==
  ASSUME NEW S, IsFiniteSet(S)
  PROVE  /\ SetToSeq(S) \in Seq(S)
         /\ \A x \in S : \E i \in 1..Len(SetToSeq(S)) : SetToSeq(S)[i] = x
         /\ \A i, j \in 1..Len(SetToSeq(S)) : SetToSeq(S)[i] = SetToSeq(S)[j] => i = j
  <1> DEFINE n == Cardinality(S)
             f == SetToSeq(S)
  <1>1. n \in Nat /\ ExistsBijection(1..n, S)
    BY FS_CardinalityType
  <1>2. \E g \in [1..n -> S] : IsInjective(g)
    BY <1>1 DEF ExistsBijection, Bijection, Injection
  <1>3. f \in [1..n -> S] /\ IsInjective(f)
    BY <1>2 DEF SetToSeq
  <1>4. f \in Injection(1..n, S)
    BY <1>3 DEF Injection
  <1>5. Cardinality(1..n) = n
    BY <1>1, FS_Interval
  <1>6. f \in Surjection(1..n, S)
    <2> HIDE DEF f
    <2> QED BY <1>4, <1>5, FS_Injection
  <1>7. f \in Seq(S) /\ Len(f) = n
    <2> HIDE DEF n, f
    <2> QED BY <1>1, <1>3, LenProperties
  <1> HIDE DEF n, f
  <1>8. /\ \A x \in S : \E i \in 1..n : f[i] = x
        /\ \A i, j \in 1..n : f[i] = f[j] => i = j
    BY <1>3, <1>6 DEF Surjection, IsInjective
  <1> QED BY <1>7, <1>8 DEF f

\* The heads are the first live records of the non-empty buckets.
LEMMA HeadFacts ==
  ASSUME IInv
  PROVE  /\ Heads \subseteq Offsets /\ Heads \subseteq live /\ IsFiniteSet(Heads)
         /\ \A x \in Heads : x = table[Bucket(x)]
         /\ \A o \in live : \E x \in Heads : Bucket(x) = Bucket(o) /\ x <= o
  <1>1. TypeOK /\ ChainOK
    BY DEF IInv
  <1>2. ASSUME NEW b \in Buckets, table[b] # Nil
        PROVE  table[b] \in live /\ Bucket(table[b]) = b
    BY <1>1, <1>2 DEF ChainOK, NextLive, LiveIn
  <1>3. Heads \subseteq live /\ \A x \in Heads : x = table[Bucket(x)]
    BY <1>2 DEF Heads
  <1>4. \A o \in live : o \in Rec /\ o \in Offsets /\ o \in Nat /\ o > 0 /\ o < Nil /\ Bucket(o) \in Buckets
    <2>1. live \subseteq Rec
      BY <1>1 DEF TypeOK, Rec
    <2>2. \A o \in Rec : o \in Nat /\ o > 0
      BY <1>1, RecordTypes DEF Rec
    <2> QED BY <1>1, <2>1, <2>2, RecordTypes
  <1>5. ASSUME NEW o \in live
        PROVE  \E x \in Heads : Bucket(x) = Bucket(o) /\ x <= o
    <2>1. NextLive(Bucket(o), 0, table[Bucket(o)]) /\ o \in LiveIn(Bucket(o))
      BY <1>1, <1>4 DEF ChainOK, LiveIn
    <2>2. table[Bucket(o)] <= o
      BY <1>4, <2>1 DEF NextLive
    <2>3. table[Bucket(o)] # Nil
      BY <1>1, <1>4, <2>2, BoundAssumption DEF Nil, TypeOK
    <2>4. table[Bucket(o)] \in Heads /\ Bucket(table[Bucket(o)]) = Bucket(o)
      BY <1>2, <1>4, <2>3 DEF Heads
    <2> QED BY <2>2, <2>4
  <1>6. IsFiniteSet(Heads)
    <2>1. IsFiniteSet(1..MaxRec) /\ Heads \subseteq 1..MaxRec
      BY <1>3, <1>4, BoundAssumption, FS_Interval DEF Offsets
    <2> QED BY <2>1, FS_Subset
  <1> QED BY <1>3, <1>4, <1>5, <1>6

LEMMA BeginScanInv ==
  ASSUME IInv, NEW r \in Handles \cup {Other}, BeginScan(r)
  PROVE  IInv'
  <1>1. /\ TypeOK /\ ChainOK /\ OpOK /\ MemOK /\ LostOK /\ UniqueNames /\ LinksForward
        /\ UNCHANGED <<table, records, size, live, lost, open, mem, op, fresh>>
        /\ reader' = r /\ work' = SetToSeq(Heads) /\ pos' = 1 /\ keep' = live /\ ever' = live
        /\ r \in Handles => Idle
    BY DEF IInv, BeginScan, file, session
  <1>2. /\ work' \in Seq(Heads)
        /\ \A x \in Heads : \E i \in 1..Len(work') : work'[i] = x
        /\ \A i, j \in 1..Len(work') : work'[i] = work'[j] => i = j
    BY <1>1, HeadFacts, SetToSeqFacts, ZenonT(40)
  <1>3. Len(work') \in Nat /\ \A i \in 1..Len(work') : work'[i] \in Heads
    BY <1>2, ElementOfSeq, LenProperties
  <1>4. TypeOK'
    <2>1. work' \in Seq(Offsets)
      BY <1>2, HeadFacts
    <2>2. pos' \in 1..Len(work') + 1
      BY <1>1, <1>3
    <2> QED BY <1>1, <2>1, <2>2 DEF TypeOK
  <1>5. ChainOK' /\ UniqueNames' /\ LinksForward'
    BY <1>1, SameChains
  <1>6. OpOK'
    BY <1>1, SameCall
  <1>7. MemOK'
    BY <1>1 DEF MemOK, LiveView, Entry, ThisEntry, Rec
  <1>8. LostOK'
    BY <1>1 DEF LostOK, OpOK
  <1>9. ScanOK'
    <2>1. Scanning'
      BY <1>1, ReaderAssumption DEF Scanning
    <2>2. r \in Handles => Idle'
      BY <1>1 DEF Idle
    <2>3. \A o \in Rec : Bucket(o)' = Bucket(o)
      BY <1>1 DEF Bucket
    <2>4. \A o \in live : o \in Rec /\ o \in Nat
      BY <1>1 DEF TypeOK, Rec
    <2>5. \A w \in live : NextLive(Bucket(w), w, records[w].link)
      BY <1>1 DEF ChainOK
    <2>6. \A w \in live : records[w].link # Nil => records[w].link \in live
      BY <2>5 DEF NextLive, LiveIn
    <2>7. ASSUME NEW w \in live, NEW o \in live, Bucket(w) = Bucket(o), o > w
          PROVE  o >= records[w].link
      BY <2>5, <2>7 DEF NextLive, LiveIn
    <2>8. \A i \in 1..Len(work') : work'[i] \in live /\ Bucket(work[i])' = Bucket(work'[i])
      BY <1>1, <1>3, HeadFacts DEF Bucket
    <2>9. ASSUME NEW o \in live
          PROVE  \/ \E i \in 1..Len(work') : work'[i] = o
                 \/ \E i \in pos'..Len(work') : Bucket(work[i])' = Bucket(o)' /\ work'[i] < o
      <3>1. PICK x \in Heads : Bucket(x) = Bucket(o) /\ x <= o
        BY HeadFacts
      <3>2. PICK i \in 1..Len(work') : work'[i] = x
        BY <1>2
      <3>3. x \in Nat /\ o \in Nat /\ Bucket(o)' = Bucket(o)
        BY <2>3, <2>4, HeadFacts
      <3>4. Bucket(work[i])' = Bucket(x)
        BY <2>8, <3>2
      <3> QED BY <1>1, <3>1, <3>2, <3>3, <3>4
    <2>10. ASSUME NEW i \in 1..Len(work'), NEW j \in 1..Len(work'), i < j,
                  Bucket(work[i])' = Bucket(work[j])'
           PROVE  FALSE
      <3>1. Bucket(work'[i]) = Bucket(work'[j])
        BY <2>8, <2>10
      <3>2. work'[i] = table[Bucket(work'[i])] /\ work'[j] = table[Bucket(work'[j])]
        BY <1>3, HeadFacts
      <3>3. i = j
        BY <1>2, <3>1, <3>2
      <3> QED BY <1>3, <2>10, <3>3
    <2>11. \A w, o \in live : Bucket(w)' = Bucket(o)' /\ o > w => o >= records[w].link
      BY <2>3, <2>4, <2>7
    <2> QED BY <1>1, <2>1, <2>2, <2>6, <2>8, <2>9, <2>10, <2>11 DEF ScanOK
  <1> QED BY <1>4, <1>5, <1>6, <1>7, <1>8, <1>9 DEF IInv

LEMMA ScanRecordInv ==
  ASSUME IInv, ScanRecord
  PROVE  IInv'
  <1> DEFINE w == work[pos]
             l == records[w].link
  <1>1. /\ TypeOK /\ ChainOK /\ OpOK /\ MemOK /\ LostOK /\ UniqueNames /\ LinksForward /\ ScanOK
        /\ UNCHANGED <<table, records, size, live, lost, open, mem, op, fresh, reader, keep, ever>>
        /\ Scanning /\ pos <= Len(work)
    BY DEF IInv, ScanRecord, file, session
  <1>2. /\ live \subseteq ever
        /\ \A v \in ever : records[v].link # Nil => records[v].link \in ever
        /\ \A i \in 1..Len(work) : work[i] \in ever
        /\ \A o \in keep : \/ \E i \in 1..Len(work) : work[i] = o
                           \/ \E i \in pos..Len(work) : Bucket(work[i]) = Bucket(o) /\ work[i] < o
        /\ \A v \in ever, o \in keep :
             Bucket(v) = Bucket(o) /\ o > v => o >= records[v].link
        /\ \A i, j \in 1..Len(work) :
             i < j /\ Bucket(work[i]) = Bucket(work[j]) => work[i] < work[j] /\ i < pos
    BY <1>1 DEF ScanOK
  <1>3. Len(work) \in Nat /\ pos \in 1..Len(work) /\ work \in Seq(Offsets)
    BY <1>1 DEF TypeOK
  <1>4. ever \subseteq Rec /\ keep \subseteq Rec /\ \A o \in Rec : o \in Nat /\ o <= Len(records)
    BY <1>1, RecordTypes DEF TypeOK, Rec
  <1>5. w \in ever /\ w \in Rec /\ l \in 1..Nil /\ l > w /\ (l # Nil => l \in ever /\ l \in Rec /\ Bucket(l) = Bucket(w))
    BY <1>1, <1>2, <1>3, <1>4, RecordTypes DEF LinksForward
  <1>6. /\ work' = IF l # Nil THEN Append(work, l) ELSE work
        /\ pos' = pos + 1
    <2>1. ~(w > Len(records))
      BY <1>1, <1>4, <1>5, RecordTypes
    <2> QED BY <2>1 DEF ScanRecord, Follow, Advance
  <1>7. \/ /\ l # Nil /\ l \in Offsets
           /\ work' \in Seq(Offsets) /\ Len(work') = Len(work) + 1 /\ work'[Len(work) + 1] = l
           /\ \A i \in 1..Len(work) : work'[i] = work[i]
        \/ l = Nil /\ work' = work
    <2>1. l # Nil => l \in Offsets
      BY <1>1, <1>5, RecordTypes
    <2> HIDE DEF l
    <2> QED BY <1>3, <1>6, <2>1
  <1>8. TypeOK'
    <2>1. work' \in Seq(Offsets) /\ pos' \in 1..Len(work') + 1
      BY <1>3, <1>6, <1>7
    <2> QED BY <1>1, <2>1 DEF TypeOK
  <1>9. ChainOK' /\ UniqueNames' /\ LinksForward'
    BY <1>1, SameChains
  <1>10. OpOK'
    BY <1>1, SameCall
  <1>11. MemOK'
    BY <1>1 DEF MemOK, LiveView, Entry, ThisEntry, Rec
  <1>12. LostOK'
    BY <1>1 DEF LostOK
  <1>13. ScanOK'
    <2>1. Scanning' /\ (reader \in Handles => Idle' /\ keep = live /\ ever = live)
      BY <1>1 DEF Scanning, ScanOK, Idle
    <2>2. \A i \in 1..Len(work') : \/ i \in 1..Len(work) /\ work'[i] = work[i]
                                   \/ i = Len(work) + 1 /\ work'[i] = l /\ l # Nil
      BY <1>3, <1>7
    <2>3. 1..Len(work) \subseteq 1..Len(work')
      BY <1>3, <1>7
    <2>4. \A i \in 1..Len(work') : work'[i] \in ever
      BY <1>2, <1>5, <2>2
    <2>5. ASSUME NEW o \in keep
          PROVE  \/ \E i \in 1..Len(work') : work'[i] = o
                 \/ \E i \in pos'..Len(work') : Bucket(work'[i]) = Bucket(o) /\ work'[i] < o
      <3>1. CASE \E i \in 1..Len(work) : work[i] = o
        BY <2>3, <1>7, <3>1
      <3>2. CASE \E i \in pos..Len(work) : Bucket(work[i]) = Bucket(o) /\ work[i] < o
        <4>1. PICK i \in pos..Len(work) : Bucket(work[i]) = Bucket(o) /\ work[i] < o
          BY <3>2
        <4>2. CASE i # pos
          <5>1. i \in pos'..Len(work') /\ work'[i] = work[i]
            BY <1>3, <1>6, <1>7, <4>2
          <5> QED BY <4>1, <5>1
        <4>3. CASE i = pos
          <5>1. o >= l /\ o \in Nat /\ o < Nil
            BY <1>1, <1>2, <1>4, <1>5, <4>1, <4>3, RecordTypes
          <5>2. l # Nil /\ l \in Nat
            BY <1>5, <5>1
          <5>3. Len(work) + 1 \in pos'..Len(work') /\ Len(work) + 1 \in 1..Len(work')
                /\ work'[Len(work) + 1] = l
            BY <1>3, <1>6, <1>7, <5>2
          <5>4. Bucket(l) = Bucket(o)
            BY <1>5, <4>1, <4>3, <5>2
          <5>5. l = o \/ l < o
            BY <5>1, <5>2
          <5> HIDE DEF l
          <5> QED BY <5>3, <5>4, <5>5
        <4> QED BY <4>2, <4>3
      <3> QED BY <1>2, <3>1, <3>2
    <2>6. ASSUME NEW i \in 1..Len(work'), NEW j \in 1..Len(work'), i < j,
                 Bucket(work'[i]) = Bucket(work'[j])
          PROVE  work'[i] < work'[j] /\ i < pos'
      <3>1. i \in 1..Len(work) /\ work'[i] = work[i]
        BY <1>3, <2>2, <2>6
      <3>2. CASE j \in 1..Len(work) /\ work'[j] = work[j]
        BY <1>2, <1>3, <1>6, <2>6, <3>1, <3>2
      <3>3. CASE j = Len(work) + 1 /\ work'[j] = l /\ l # Nil
        <4>1. Bucket(work[i]) = Bucket(w)
          BY <1>5, <2>6, <3>1, <3>3
        <4>2. ~(i > pos)
          BY <1>2, <1>3, <3>1, <4>1
        <4>3. work[i] < w \/ i = pos
          BY <1>2, <1>3, <3>1, <4>1, <4>2
        <4>4. work[i] \in Nat /\ w \in Nat /\ l \in Nat
          BY <1>2, <1>4, <1>5, <3>1
        <4>5. work[i] < l
          BY <1>5, <4>3, <4>4
        <4> QED BY <1>3, <1>6, <3>1, <3>3, <4>2, <4>5
      <3> QED BY <2>2, <3>2, <3>3
    <2>7. \A i \in 1..Len(work') : Bucket(work[i])' = Bucket(work'[i])
      BY <1>1 DEF Bucket
    <2>8. \A o \in ever \cup keep : Bucket(o)' = Bucket(o)
      BY <1>1 DEF Bucket
    <2>9. Len(work') \in Nat /\ pos' \in 1..Len(work') + 1
      BY <1>3, <1>6, <1>7
    <2>10. \A i \in pos'..Len(work') : i \in 1..Len(work')
      BY <2>9
    <2> HIDE DEF w, l
    <2> QED BY <1>1, <1>2, <2>1, <2>4, <2>5, <2>6, <2>7, <2>8, <2>10 DEF ScanOK
  <1> QED BY <1>8, <1>9, <1>10, <1>11, <1>12, <1>13 DEF IInv

\* What a scan has found when it ends.
LEMMA ScanEnds ==
  ASSUME IInv, Scanning, pos > Len(work)
  PROVE  keep \subseteq Found /\ Found \subseteq ever
  <1>1. pos..Len(work) = {}
    BY DEF IInv, TypeOK
  <1> QED BY <1>1 DEF IInv, ScanOK, Found

LEMMA EndScanInv ==
  ASSUME IInv, EndScan
  PROVE  IInv'
  <1>1. /\ TypeOK /\ ChainOK /\ OpOK /\ MemOK /\ LostOK /\ UniqueNames /\ LinksForward /\ ScanOK
        /\ UNCHANGED <<table, records, size, live, lost, op>>
        /\ Scanning /\ pos > Len(work)
        /\ reader' = Nobody /\ work' = <<>> /\ pos' = 1 /\ keep' = {} /\ ever' = {}
    BY DEF IInv, EndScan, file
  <1>2. \/ /\ reader \in Handles
           /\ mem' = [mem EXCEPT ![reader] = {Entry(work[i]) : i \in 1..Len(work)}]
           /\ open' = open \cup {reader} /\ fresh' = fresh \cup {reader}
        \/ UNCHANGED <<mem, open, fresh>>
    BY DEF EndScan
  <1>3. reader \in Handles => {Entry(work[i]) : i \in 1..Len(work)} = LiveView
    <2>1. reader \in Handles => Found = live
      BY <1>1, ScanEnds DEF ScanOK
    <2>2. {Entry(work[i]) : i \in 1..Len(work)} = {Entry(o) : o \in Found}
      BY DEF Found
    <2> QED BY <2>1, <2>2 DEF LiveView
  <1>4. \A e \in LiveView : e \in [name : Names, off : Offsets] /\ e.off \in Rec /\ e.off \notin lost
    <2> SUFFICES ASSUME NEW o \in live
                 PROVE  /\ Entry(o) \in [name : Names, off : Offsets]
                        /\ Entry(o).off \in Rec /\ Entry(o).off \notin lost
      BY DEF LiveView
    <2>1. o \in Rec /\ o \notin lost
      BY <1>1 DEF LostOK, TypeOK, Rec
    <2>2. records[o].name \in Names /\ o \in Offsets
      BY <1>1, <2>1, RecordTypes
    <2> QED BY <2>1, <2>2 DEF Entry
  <1>5. TypeOK'
    <2>1. mem' \in [Handles -> SUBSET [name : Names, off : Offsets]]
      BY <1>1, <1>2, <1>3, <1>4 DEF TypeOK
    <2>2. work' \in Seq(Offsets) /\ pos' \in 1..Len(work') + 1
      BY <1>1
    <2> QED BY <1>1, <1>2, <2>1, <2>2 DEF TypeOK
  <1>6. ChainOK' /\ UniqueNames' /\ LinksForward'
    BY <1>1, SameChains
  <1>7. reader \in Handles => Idle
    BY <1>1 DEF ScanOK
  <1>8. OpOK'
    <2>1. CASE reader \in Handles
      BY <1>1, <1>7, <2>1 DEF OpOK, Idle
    <2>2. CASE UNCHANGED <<mem, open, fresh>>
      BY <1>1, <2>2, SameCall
    <2> QED BY <1>2, <2>1, <2>2
  <1>9. MemOK'
    <2>1. LiveView' = LiveView /\ Rec' = Rec /\ ThisEntry' = ThisEntry
      BY <1>1 DEF LiveView, Entry, Rec, ThisEntry
    <2>2. CASE reader \in Handles /\ mem' = [mem EXCEPT ![reader] = LiveView]
               /\ fresh' = fresh \cup {reader}
      <3>1. \A h \in Handles : mem'[h] = IF h = reader THEN LiveView ELSE mem[h]
        BY <1>1, <2>2 DEF TypeOK
      <3>2. op.step = "idle" /\ op' = op /\ lost' = lost
        BY <1>1, <1>7, <2>2 DEF Idle
      <3>3. fresh' \subseteq Handles
        BY <1>1, <2>2 DEF TypeOK
      <3> QED BY <1>1, <1>4, <2>1, <2>2, <3>1, <3>2, <3>3 DEF MemOK
    <2>3. CASE UNCHANGED <<mem, open, fresh>>
      BY <1>1, <2>1, <2>3 DEF MemOK
    <2> QED BY <1>2, <1>3, <2>2, <2>3
  <1>10. LostOK'
    BY <1>1 DEF LostOK
  <1>11. ScanOK'
    BY <1>1, ReaderAssumption DEF ScanOK, Scanning
  <1> QED BY <1>5, <1>6, <1>8, <1>9, <1>10, <1>11 DEF IInv

LEMMA CrashInv ==
  ASSUME IInv, Crash
  PROVE  IInv'
  <1>1. /\ TypeOK /\ ChainOK /\ OpOK /\ MemOK /\ LostOK /\ UniqueNames /\ LinksForward /\ ScanOK
        /\ UNCHANGED <<table, records, size, live>>
        /\ open' = {} /\ mem' = [h \in Handles |-> {}] /\ fresh' = {} /\ op' = NoOp
        /\ lost' = IF op.step \in {"walk", "refused"} THEN lost \cup {op.off} ELSE lost
    BY DEF IInv, Crash
  <1>2. \/ /\ reader' = Nobody /\ work' = <<>> /\ pos' = 1 /\ keep' = {} /\ ever' = {}
        \/ reader \notin Handles /\ UNCHANGED <<reader, work, pos, keep, ever>>
    BY DEF Crash, scan
  <1>3. op.step \in {"walk", "refused"} => op.off \in Rec /\ op.off \notin live
    BY <1>1, CallType, RecordTypes DEF OpOK, Rec, Offsets
  <1>4. TypeOK'
    <2>1. lost' \subseteq 1..Len(records')
      BY <1>1, <1>3 DEF TypeOK, Rec
    <2>2. work' \in Seq(Offsets) /\ pos' \in 1..Len(work') + 1
      <3>1. CASE work' = <<>> /\ pos' = 1
        BY <3>1
      <3>2. CASE UNCHANGED <<work, pos>>
        BY <1>1, <3>2 DEF TypeOK
      <3> QED BY <1>2, <3>1, <3>2
    <2>3. mem' \in [Handles -> SUBSET [name : Names, off : Offsets]]
      BY <1>1
    <2>4. reader' \in Handles \cup {Other, Nobody} /\ keep' \subseteq live'
          /\ keep' \subseteq ever' /\ ever' \subseteq 1..Len(records')
      BY <1>1, <1>2 DEF TypeOK
    <2>5. size' \in 0..Len(records') /\ live' \subseteq 1..Len(records') /\ op' \in {NoOp} \cup CallTypes
      BY <1>1 DEF TypeOK
    <2>6. /\ table' \in [Buckets -> 1..Nil]
          /\ records' \in Seq([link : 1..Nil, name : Names])
          /\ Len(records') <= MaxRec
      BY <1>1 DEF TypeOK
    <2>7. open' \subseteq Handles /\ fresh' \subseteq open'
      BY <1>1
    <2> QED BY <2>1, <2>2, <2>3, <2>4, <2>5, <2>6, <2>7 DEF TypeOK
  <1>5. ChainOK' /\ UniqueNames' /\ LinksForward'
    BY <1>1, SameChains
  <1>6. OpOK'
    BY <1>1 DEF OpOK, NoOp
  <1>7. MemOK'
    BY <1>1 DEF MemOK, NoOp
  <1>8. LostOK'
    BY <1>1, <1>2, <1>3 DEF LostOK, NoOp
  <1>9. ScanOK'
    <2>1. CASE reader' = Nobody /\ work' = <<>> /\ pos' = 1 /\ keep' = {} /\ ever' = {}
      BY <1>1, <2>1, ReaderAssumption DEF ScanOK, Scanning
    <2>2. CASE reader \notin Handles /\ UNCHANGED <<reader, work, pos, keep, ever>>
      BY <1>1, <2>2, SameScan DEF scan
    <2> QED BY <1>2, <2>1, <2>2
  <1> QED BY <1>4, <1>5, <1>6, <1>7, <1>8, <1>9 DEF IInv

------------------------------------------------------------------------------
(* The invariants.                                                         *)

LEMMA StutterInv ==
  ASSUME IInv, UNCHANGED vars
  PROVE  IInv'
  <1>1. TypeOK'
    BY DEF IInv, TypeOK, vars
  <1>2. ChainOK' /\ UniqueNames' /\ LinksForward'
    BY SameChains DEF IInv, vars
  <1>3. OpOK'
    BY SameCall DEF IInv, vars
  <1>4. MemOK'
    BY DEF IInv, MemOK, LiveView, Entry, ThisEntry, Rec, vars
  <1>5. LostOK'
    BY DEF IInv, LostOK, vars
  <1>6. ScanOK'
    BY SameScan DEF IInv, ScanOK, Idle, scan, vars
  <1> QED BY <1>1, <1>2, <1>3, <1>4, <1>5, <1>6 DEF IInv

LEMMA NextInv == IInv /\ [Next]_vars => IInv'
  <1> SUFFICES ASSUME IInv, [Next]_vars PROVE IInv'
    OBVIOUS
  <1>1. ASSUME NEW h \in Handles, NEW g \in Handles, NEW n \in Names, AppendRecord(h, g, n)
        PROVE  IInv'
    BY <1>1, AppendInv
  <1>2. CASE CreateStep
    BY <1>2, WalkInv, LinkInv, CreateDoneInv, CreateRefusedInv DEF CreateStep
  <1>3. ASSUME NEW h \in Handles, NEW g \in Handles, NEW e \in mem[h], BeginRemove(h, g, e)
        PROVE  IInv'
    BY <1>3, BeginRemoveInv
  <1>4. CASE RemoveStep
    BY <1>4, FindInv, UnlinkInv, RemoveDoneInv, RemoveFailedInv DEF RemoveStep
  <1>5. ASSUME NEW r \in Handles \cup {Other}, BeginScan(r)
        PROVE  IInv'
    BY <1>5, BeginScanInv
  <1>6. CASE ScanRecord
    BY <1>6, ScanRecordInv
  <1>7. CASE EndScan
    BY <1>7, EndScanInv
  <1>8. CASE Crash
    BY <1>8, CrashInv
  <1>9. CASE UNCHANGED vars
    BY <1>9, StutterInv
  <1> QED BY <1>1, <1>2, <1>3, <1>4, <1>5, <1>6, <1>7, <1>8, <1>9 DEF Next

\* The inductive invariant holds in every reachable state.
THEOREM Inductive == Spec => []IInv
  BY InitInv, NextInv, PTL DEF Spec

\* Every variable keeps its type; the size in the header never exceeds the file.
THEOREM Typing == Spec => []TypeOK
  <1>1. IInv => TypeOK
    BY DEF IInv
  <1> QED BY <1>1, Inductive, PTL

\* The chains are exactly the live records, bucket by bucket in file order,
\* through every creation, removal, refusal and kill.
THEOREM ChainsAreTheRecords == Spec => []ChainOK
  <1>1. IInv => ChainOK
    BY DEF IInv
  <1> QED BY <1>1, Inductive, PTL

\* No name is in the table twice, from however stale a structure it is created.
THEOREM NamesAreUnique == Spec => []UniqueNames
  <1>1. IInv => UniqueNames
    BY DEF IInv
  <1> QED BY <1>1, Inductive, PTL

\* The structure a call returns agrees with the file.
THEOREM ReturnedIsExact == Spec => []FreshExact
  <1>1. IInv => FreshExact
    BY DEF IInv, MemOK, FreshExact, Idle
  <1> QED BY <1>1, Inductive, PTL

\* A call with an up-to-date structure is never refused by the file.
THEOREM FreshSucceeds == Spec => []FreshNeverRefused
  <1>1. IInv => FreshNeverRefused
    BY DEF IInv, OpOK, FreshNeverRefused
  <1> QED BY <1>1, Inductive, PTL

\* The structures of a definition table hold no record that never was in it.
THEOREM NothingUnreal ==
  ASSUME ~IsData
  PROVE  Spec => []NoPhantom
  <1>1. IInv => NoPhantom
    BY DEF IInv, MemOK, NoPhantom
  <1> QED BY <1>1, Inductive, PTL

\* A scan beside a writer finds all that stayed and nothing that never was.
THEOREM ScansAreComplete == Spec => []ScanComplete
  <1>1. IInv => ScanComplete
    BY ScanEnds DEF ScanComplete
  <1> QED BY <1>1, Inductive, PTL

\* A scan beside a writer finds no record twice.
THEOREM ScansAreDistinct == Spec => []ScanDistinct
  <1>1. ASSUME IInv PROVE ScanDistinct
    <2>1. \A i \in 1..Len(work) : work[i] \in Nat
      <3>1. work \in Seq(Offsets)
        BY <1>1 DEF IInv, TypeOK
      <3>2. \A i \in 1..Len(work) : work[i] \in Offsets
        BY <3>1, ElementOfSeq
      <3> QED BY <3>2, BoundAssumption DEF Offsets
    <2>2. CASE ~Scanning
      BY <1>1, <2>2 DEF IInv, ScanOK, ScanDistinct
    <2>3. CASE Scanning
      <3> SUFFICES ASSUME NEW i \in 1..Len(work), NEW j \in 1..Len(work),
                          work[i] = work[j], i # j
                   PROVE  FALSE
        BY DEF ScanDistinct
      <3>1. Bucket(work[i]) = Bucket(work[j])
        OBVIOUS
      <3>2. work[i] < work[j] \/ work[j] < work[i]
        BY <1>1, <2>3, <3>1 DEF IInv, ScanOK
      <3> QED BY <2>1, <3>2
    <2> QED BY <2>2, <2>3
  <1> QED BY <1>1, Inductive, PTL

------------------------------------------------------------------------------
(* The refinement.                                                         *)

\* What name n stands for among the records of L, with the names in r.
BoundBy(L, r, n) == IF \E o \in L : r[o].name = n THEN CHOOSE o \in L : r[o].name = n ELSE 0

LEMMA BoundByFacts ==
  ASSUME NEW L, NEW r, \A o, p \in L : r[o].name = r[p].name => o = p
  PROVE  /\ \A o \in L : BoundBy(L, r, r[o].name) = o
         /\ \A n : (\A o \in L : r[o].name # n) => BoundBy(L, r, n) = 0
         /\ \A n : BoundBy(L, r, n) \in L \cup {0}
  BY DEF BoundBy

LEMMA SameBound ==
  ASSUME NEW L, NEW r, NEW s, \A o, p \in L : r[o].name = r[p].name => o = p,
         \A o \in L : s[o].name = r[o].name
  PROVE  \A n : BoundBy(L, s, n) = BoundBy(L, r, n)
  <1> SUFFICES ASSUME NEW n PROVE BoundBy(L, s, n) = BoundBy(L, r, n)
    OBVIOUS
  <1>1. CASE \E o \in L : r[o].name = n
    <2>1. PICK o \in L : r[o].name = n
      BY <1>1
    <2>2. BoundBy(L, r, r[o].name) = o
      BY BoundByFacts
    <2>3. BoundBy(L, s, s[o].name) = o
      BY BoundByFacts
    <2> QED BY <2>1, <2>2, <2>3
  <1>2. CASE ~ \E o \in L : r[o].name = n
    BY <1>2 DEF BoundBy
  <1> QED BY <1>1, <1>2

LEMMA BoundByAdd ==
  ASSUME NEW L, NEW r, NEW s, NEW x,
         \A o, p \in L : r[o].name = r[p].name => o = p,
         \A o, p \in L \cup {x} : s[o].name = s[p].name => o = p,
         \A o \in L : s[o].name = r[o].name
  PROVE  \A n : BoundBy(L \cup {x}, s, n) = IF n = s[x].name THEN x ELSE BoundBy(L, r, n)
  <1> SUFFICES ASSUME NEW n
               PROVE BoundBy(L \cup {x}, s, n) = IF n = s[x].name THEN x ELSE BoundBy(L, r, n)
    OBVIOUS
  <1>0. /\ \A o \in L \cup {x} : BoundBy(L \cup {x}, s, s[o].name) = o
        /\ (\A o \in L \cup {x} : s[o].name # n) => BoundBy(L \cup {x}, s, n) = 0
    BY BoundByFacts
  <1>1. CASE n = s[x].name
    BY <1>0, <1>1
  <1>2. CASE n # s[x].name /\ \E o \in L : r[o].name = n
    <2>1. PICK o \in L : r[o].name = n
      BY <1>2
    <2>2. BoundBy(L, r, r[o].name) = o
      BY BoundByFacts
    <2> QED BY <1>0, <1>2, <2>1, <2>2
  <1>3. CASE n # s[x].name /\ ~ \E o \in L : r[o].name = n
    BY <1>0, <1>3, BoundByFacts
  <1> QED BY <1>1, <1>2, <1>3

LEMMA BoundByDrop ==
  ASSUME NEW L, NEW r, NEW s, NEW x \in L,
         \A o, p \in L : r[o].name = r[p].name => o = p,
         \A o \in L : s[o].name = r[o].name
  PROVE  \A n : BoundBy(L \ {x}, s, n) = IF n = r[x].name THEN 0 ELSE BoundBy(L, r, n)
  <1> SUFFICES ASSUME NEW n
               PROVE BoundBy(L \ {x}, s, n) = IF n = r[x].name THEN 0 ELSE BoundBy(L, r, n)
    OBVIOUS
  <1>0. /\ \A o \in L \ {x} : BoundBy(L \ {x}, s, s[o].name) = o
        /\ (\A o \in L \ {x} : s[o].name # n) => BoundBy(L \ {x}, s, n) = 0
    BY BoundByFacts
  <1>1. CASE n = r[x].name
    BY <1>0, <1>1
  <1>2. CASE n # r[x].name /\ \E o \in L : r[o].name = n
    <2>1. PICK o \in L : r[o].name = n
      BY <1>2
    <2>2. BoundBy(L, r, r[o].name) = o
      BY BoundByFacts
    <2> QED BY <1>0, <1>2, <2>1, <2>2
  <1>3. CASE n # r[x].name /\ ~ \E o \in L : r[o].name = n
    BY <1>0, <1>3, BoundByFacts
  <1> QED BY <1>1, <1>2, <1>3

LEMMA WriteKeepsNames ==
  ASSUME TypeOK, NEW b, NEW a \in 0..Len(records), NEW l, WriteLink(b, a, l)
  PROVE  Rec' = Rec /\ \A o \in Rec : records'[o].name = records[o].name
  <1>1. CASE a = 0
    BY <1>1 DEF WriteLink, Rec
  <1>2. CASE a # 0
    <2>1. a \in Rec /\ records[a] \in [link : 1..Nil, name : Names]
      BY <1>2, RecordTypes DEF Rec
    <2>2. records' = [records EXCEPT ![a] = [records[a] EXCEPT !.link = l]]
      BY <1>2 DEF WriteLink
    <2>3. [records[a] EXCEPT !.link = l].name = records[a].name
      BY <2>1
    <2>4. DOMAIN records = Rec
      BY DEF TypeOK, Rec
    <2>5. Len(records') = Len(records)
      <3> DEFINE v == [records[a] EXCEPT !.link = l]
      <3> HIDE DEF v
      <3>1. records \in Seq([link : 1..Nil, name : Names])
        BY DEF TypeOK
      <3> QED BY <2>1, <2>2, <2>4, <3>1 DEF v, Rec
    <2> QED BY <2>1, <2>2, <2>3, <2>4, <2>5 DEF Rec
  <1> QED BY <1>1, <1>2

Bound   == [n \in Names |-> BoundBy(live, records, n)]
Retired == Rec \ (live \cup Pending)

\* The store stays as it is when live records and their names do.
LEMMA SameStore ==
  ASSUME IInv, UNCHANGED live, \A o \in live : records'[o].name = records[o].name
  PROVE  Bound' = Bound
  <1>1. \A n : BoundBy(live, records', n) = BoundBy(live, records, n)
    BY SameBound DEF IInv, UniqueNames
  <1> QED BY <1>1 DEF Bound

LEMMA LoseStep ==
  ASSUME IInv, NEW o \in Offsets, o \notin live, Bound' = Bound, Retired' = Retired \cup {o}
  PROVE  Store!Lose(o)
  <1>1. \A m \in Names : Bound[m] # o
    BY BoundByFacts DEF IInv, UniqueNames, Bound, Offsets
  <1> QED BY <1>1 DEF Store!Lose, Bound, Retired, BoundTo, BoundBy, Rec

LEMMA StoreInit == Init => Store!Init
  BY DEF Init, Store!Init, BoundTo, Pending, NoOp

\* One step of the chains is at most one step of the store.
LEMMA StoreStep == IInv /\ [Next]_vars => [Store!Next]_(Store!vars)
  <1> SUFFICES ASSUME IInv, [Next]_vars
               PROVE  Store!Next \/ (Bound' = Bound /\ Retired' = Retired)
    BY DEF Store!vars, Bound, Retired, BoundTo, BoundBy, Rec
  <1>1. /\ TypeOK /\ OpOK /\ UniqueNames /\ live \subseteq Rec /\ Len(records) \in Nat
        /\ op.step # "idle" => op.off \in Offsets /\ op.name \in Names
    BY CallType, RecordTypes DEF IInv, TypeOK, Rec
  <1>2. ASSUME NEW h \in Handles, NEW g \in Handles, NEW n \in Names, AppendRecord(h, g, n)
        PROVE  Bound' = Bound /\ Retired' = Retired
    <2>1. /\ op.step = "idle" /\ live' = live /\ op'.step = "walk" /\ op'.off = Len(records) + 1
          /\ records' = Append(records, [link |-> Nil, name |-> n])
      BY <1>2 DEF AppendRecord, SessionFree, Idle
    <2>2. Len(records') = Len(records) + 1 /\ \A o \in Rec : records'[o] = records[o]
      <3> DEFINE R == [link : 1..Nil, name : Names]
                 r == [link |-> Nil, name |-> n]
      <3>1. records \in Seq(R) /\ r \in R /\ records' = Append(records, r)
        BY <1>1, <2>1, BoundAssumption DEF TypeOK, Nil
      <3> HIDE DEF R, r
      <3> QED BY <3>1 DEF Rec
    <2>3. Bound' = Bound
      BY <1>1, <2>1, <2>2, SameStore
    <2>4. Retired' = (Rec \cup {Len(records) + 1}) \ (live \cup {Len(records) + 1})
          /\ Retired = Rec \ live /\ Len(records) + 1 \notin Rec
      BY <1>1, <2>1, <2>2 DEF Retired, Rec, Pending
    <2> QED BY <2>3, <2>4
  <1>3. ASSUME UNCHANGED <<table, records, live>>,
               Pending' = Pending
        PROVE  Bound' = Bound /\ Retired' = Retired
    BY <1>3, SameStore DEF Retired, Rec
  <1>4. CASE WalkOn
    BY <1>3, <1>4 DEF WalkOn, file, Pending
  <1>5. CASE LinkRecord
    <2>1. /\ op.step = "walk" /\ live' = live \cup {op.off} /\ op'.step = "linked"
          /\ op.off \in Rec /\ op.off \notin live /\ records[op.off].name = op.name
          /\ WriteLink(HashNr[op.name], op.cur, op.off) /\ op.cur \in 0..Len(records)
      <3>1. op.step = "walk" /\ op \in CallTypes
        BY <1>1, <1>5, CallType DEF LinkRecord
      <3>2. op'.step = "linked"
        BY <1>5, <3>1 DEF LinkRecord, CallTypes
      <3>3. op.off \in Rec /\ op.off \notin live /\ records[op.off].name = op.name
        BY <1>1, <3>1 DEF OpOK, Rec, CallTypes, Offsets
      <3> QED BY <1>5, <3>1, <3>2, <3>3, CurLinkFacts DEF LinkRecord
    <2>2. Rec' = Rec /\ \A o \in Rec : records'[o].name = records[o].name
      BY <1>1, <2>1, WriteKeepsNames
    <2>3. UniqueNames'
      BY <1>5, LinkInv DEF IInv
    <2>4. \A n : BoundBy(live', records', n) = IF n = op.name THEN op.off ELSE BoundBy(live, records, n)
      <3> DEFINE x == op.off
      <3>1. /\ \A o, p \in live : records[o].name = records[p].name => o = p
            /\ \A o, p \in live \cup {x} : records'[o].name = records'[p].name => o = p
            /\ \A o \in live : records'[o].name = records[o].name
            /\ records'[x].name = op.name /\ live' = live \cup {x}
        BY <1>1, <2>1, <2>2, <2>3 DEF UniqueNames
      <3> HIDE DEF x
      <3>2. \A n : BoundBy(live \cup {x}, records', n) =
                     IF n = records'[x].name THEN x ELSE BoundBy(live, records, n)
        BY <3>1, BoundByAdd
      <3> QED BY <3>1, <3>2 DEF x
    <2>5. Bound' = [Bound EXCEPT ![op.name] = op.off]
      BY <2>4 DEF Bound
    <2>6. Retired' = Retired /\ op.off \notin Retired
      BY <2>1, <2>2 DEF Retired, Pending
    <2>7. op.name \in Names /\ op.off \in Offsets /\ op.off # 0
      BY <1>1, <2>1 DEF Offsets
    <2>8. Bound[op.name] = 0
      <3>1. \A o \in live : records[o].name # op.name
        BY <2>1, <2>2, <2>3, <1>1 DEF UniqueNames
      <3> QED BY <1>1, <2>7, <3>1, BoundByFacts DEF Bound, UniqueNames
    <2>9. \A m \in Names : Bound[m] # op.off
      BY <1>1, <2>1, <2>7, BoundByFacts DEF Bound, UniqueNames
    <2>10. Store!Create(op.name, op.off)
      BY <2>5, <2>6, <2>8, <2>9 DEF Store!Create, Bound, Retired, BoundTo, BoundBy, Rec
    <2> QED BY <2>7, <2>10 DEF Store!Next
  <1>6. CASE CreateDone
    BY <1>3, <1>6 DEF CreateDone, Pending, NoOp
  <1>7. ASSUME NEW caught \in BOOLEAN, CreateRefused(caught)
        PROVE  Store!Next
    <2>1. /\ op.step = "refused" /\ op' = NoOp /\ UNCHANGED <<table, records, live>>
      BY <1>7 DEF CreateRefused
    <2>2. op.off \in Rec /\ op.off \notin live /\ op.off \in Offsets
      BY <1>1, <2>1 DEF OpOK, Rec, Offsets
    <2>3. Bound' = Bound
      BY <2>1, SameStore
    <2>4. Retired' = Retired \cup {op.off}
      BY <2>1, <2>2 DEF Retired, Pending, NoOp, Rec
    <2>5. Store!Lose(op.off)
      BY <1>1, <2>1, <2>2, <2>3, <2>4, LoseStep
    <2> QED BY <2>2, <2>5 DEF Store!Next
  <1>8. ASSUME NEW h \in Handles, NEW g \in Handles, NEW e \in mem[h], BeginRemove(h, g, e)
        PROVE  Bound' = Bound /\ Retired' = Retired
    BY <1>3, <1>8 DEF BeginRemove, file, SessionFree, Idle, Pending
  <1>9. CASE FindOn
    <2>1. op \in CallTypes /\ op.step = "find"
      BY <1>1, <1>9, CallType DEF FindOn
    <2>2. op'.step \in {"find", "missing"}
      BY <1>9, <2>1 DEF FindOn, CallTypes
    <2> QED BY <1>3, <1>9, <2>1, <2>2 DEF FindOn, file, Pending
  <1>10. CASE UnlinkRecord
    <2>0. op \in CallTypes /\ op.step = "find" /\ CurLink = op.off
      BY <1>1, <1>10, CallType DEF UnlinkRecord
    <2>1. CASE ~SameLabel(op.off)
      <3>1. op'.step = "missing" /\ UNCHANGED <<table, records, live>>
        BY <1>10, <2>0, <2>1 DEF UnlinkRecord, CallTypes
      <3> QED BY <1>3, <2>0, <3>1 DEF Pending
    <2>2. CASE SameLabel(op.off)
      <3>1. /\ live' = live \ {op.off} /\ op'.step = "unlinked"
            /\ records[op.off].name = op.name
            /\ WriteLink(HashNr[op.name], op.cur, LinkAfter(op.off))
        BY <1>10, <2>0, <2>2 DEF UnlinkRecord, CallTypes, SameLabel
      <3>2. op.off \in live /\ op.off \in Rec /\ op.cur \in 0..Len(records) /\ op.off \in Offsets
        BY <1>1, <2>0, CurLinkFacts, BoundAssumption DEF LiveIn, Nil, Offsets
      <3>3. Rec' = Rec /\ \A o \in Rec : records'[o].name = records[o].name
        BY <1>1, <3>1, <3>2, WriteKeepsNames
      <3>4. \A n : BoundBy(live', records', n) = IF n = op.name THEN 0 ELSE BoundBy(live, records, n)
        <4> DEFINE x == op.off
                   r == records
                   t == records'
        <4>1. /\ \A o, p \in live : r[o].name = r[p].name => o = p
              /\ \A o \in live : t[o].name = r[o].name
              /\ x \in live
          BY <1>1, <3>1, <3>2, <3>3 DEF UniqueNames
        <4>2. r[x].name = op.name /\ live' = live \ {x}
          BY <3>1
        <4> HIDE DEF x, r, t
        <4>3. \A n : BoundBy(live \ {x}, t, n) = IF n = r[x].name THEN 0 ELSE BoundBy(live, r, n)
          BY <4>1, BoundByDrop
        <4> QED BY <4>2, <4>3 DEF r, t
      <3>5. Bound' = [Bound EXCEPT ![op.name] = 0]
        BY <3>4 DEF Bound
      <3>6. op.name \in Names /\ op.off # 0
        BY <1>1, <2>0, <3>2 DEF Offsets
      <3>7. Bound[op.name] = op.off
        BY <1>1, <3>1, <3>2, <3>6, BoundByFacts DEF Bound, UniqueNames
      <3>8. Retired' = Retired \cup {op.off}
        BY <2>0, <3>1, <3>2, <3>3 DEF Retired, Pending
      <3>9. Store!Remove(op.name)
        BY <3>5, <3>6, <3>7, <3>8 DEF Store!Remove, Bound, Retired, BoundTo, BoundBy, Rec
      <3> QED BY <3>6, <3>9 DEF Store!Next
    <2> QED BY <2>1, <2>2
  <1>11. CASE RemoveDone
    BY <1>3, <1>11 DEF RemoveDone, file, Pending, NoOp
  <1>12. ASSUME NEW caught \in BOOLEAN, RemoveFailed(caught)
         PROVE  Bound' = Bound /\ Retired' = Retired
    BY <1>3, <1>12 DEF RemoveFailed, file, Pending, NoOp
  <1>13. ASSUME NEW r \in Handles \cup {Other}, BeginScan(r)
         PROVE  Bound' = Bound /\ Retired' = Retired
    BY <1>3, <1>13 DEF BeginScan, file, session, Pending
  <1>14. CASE ScanRecord
    BY <1>3, <1>14 DEF ScanRecord, file, session, Pending
  <1>15. CASE EndScan
    BY <1>3, <1>15 DEF EndScan, file, Pending
  <1>16. CASE Crash
    <2>1. UNCHANGED <<table, records, live>> /\ op' = NoOp
      BY <1>16 DEF Crash
    <2>2. CASE op.step \notin {"walk", "refused"}
      BY <1>3, <2>1, <2>2 DEF Pending, NoOp
    <2>3. CASE op.step \in {"walk", "refused"}
      <3>1. op.off \in Rec /\ op.off \notin live /\ op.off \in Offsets
        BY <1>1, <2>3 DEF OpOK, Rec, Offsets
      <3>2. Bound' = Bound
        BY <2>1, SameStore
      <3>3. Retired' = Retired \cup {op.off}
        BY <2>1, <2>3, <3>1 DEF Retired, Pending, NoOp, Rec
      <3>4. Store!Lose(op.off)
        BY <1>1, <2>1, <3>1, <3>2, <3>3, LoseStep
      <3> QED BY <3>1, <3>4 DEF Store!Next
    <2> QED BY <2>2, <2>3
  <1>17. CASE UNCHANGED vars
    BY <1>3, <1>17 DEF vars, Pending
  <1>18. CASE CreateStep
    BY <1>18, <1>4, <1>5, <1>6, <1>7 DEF CreateStep
  <1>19. CASE RemoveStep
    BY <1>19, <1>9, <1>10, <1>11, <1>12 DEF RemoveStep
  <1> QED BY <1>2, <1>8, <1>13, <1>14, <1>15, <1>16, <1>17, <1>18, <1>19 DEF Next

\* The chains implement the map: every creation and removal is one atomic step
\* of NefisStore, and what is interrupted is at most a wasted record.
THEOREM Refinement == Spec => ImplementsStore
  BY StoreInit, StoreStep, Inductive, PTL DEF Spec, Store!Spec, ImplementsStore
=============================================================================
