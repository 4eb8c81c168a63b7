----------------------------- MODULE MCNefisHash -----------------------------
(* Small instances of NefisHash: three names, two of which share a bucket.    *)
EXTENDS NefisHash, TLC

CONSTANTS n1, n2, n3, h1, h2

MCNames   == {n1, n2, n3}
MCHashNr  == (n1 :> 1) @@ (n2 :> 1) @@ (n3 :> 2)
MCHandles == {h1, h2}
HandleSymmetry == Permutations(MCHandles)
===============================================================================
