------------------------------ MODULE MCNefisDef ------------------------------
(* Small instances of NefisDef: two elements, a cell that shares one of them  *)
(* with the cell of an easily created data group, and its definitions.        *)
EXTENDS NefisDef

CONSTANTS e1, e2, c1, d1, g1, v1

MCNames  == <<{e1, e2}, {c1, d1}, {d1, g1}, {d1}>>
MCLists  == <<{<<>>}, {<<e2>>, <<e2, e1>>}, {<<c1>>, <<d1>>}, {<<d1>>, <<g1>>}>>

\* The same with one group definition, and with new cells of one element.
MCNamesFew == [MCNames EXCEPT ![3] = {d1}]
MCListsFew == [MCLists EXCEPT ![2] = {<<e2>>}, ![4] = {<<d1>>}]

Rec(k, n, refs) == [lev |-> k, name |-> n, refs |-> refs]

\* A file whose only data group uses one of its two cells.
MCGiven  == <<Rec(1, e1, <<>>), Rec(1, e2, <<>>), Rec(2, c1, <<e2, e1>>), Rec(3, g1, <<c1>>),
              Rec(4, d1, <<g1>>)>>

\* The same with the names of an easily created data group, which is not there yet.
MCGivenFew == [SubSeq(MCGiven, 1, 4) EXCEPT ![4] = Rec(3, d1, <<c1>>)]

\* A cell may also list an element twice.
MCTwice  == [MCLists EXCEPT ![2] = @ \cup {<<e1, e1>>}]

\* Constraint: where a call has changed the file from a stale structure, the
\* invariants say nothing any more.
WhileClean == clean
===============================================================================
