---------------------------- MODULE MCNefisVarDim ----------------------------
(* Small instances of NefisVarDim: with two pointers in a table the indices   *)
(* run to 15, and 2, 4 and 8 each need a new table on another level.          *)
EXTENDS NefisVarDim

CONSTANT h

MCIndices == {1, 2, 3, 5, 8, 12}
MCData    == <<[i \in MCIndices |-> i]>>
MCBatches == {{1}, {2}, {5}, {8}, {3, 5}, {1, 2, 8}, {2, 5, 12}}
===============================================================================
