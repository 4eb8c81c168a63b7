----------------------------- MODULE NefisStore -----------------------------
(***************************************************************************)
(* What one NEFIS name table promises its users, whatever the layout of    *)
(* the file: a partial map from names (of elements, cells, group           *)
(* definitions or data groups) to record identities.                       *)
(*                                                                         *)
(*  - a name that is bound is never bound again until it is removed        *)
(*    (vs_def: "In none of the cases will the function overwrite existing  *)
(*    data/definitions");                                                  *)
(*  - an identity is bound at most once in the life of the file: what a    *)
(*    removed name stood for never comes back under any name;              *)
(*  - creating and removing are atomic, also when the program is killed.   *)
(*                                                                         *)
(* NefisHash implements this specification.                                *)
(***************************************************************************)
EXTENDS Integers

CONSTANTS Names,   \* the names of the definitions or data groups
          Ids,     \* record identities
          None     \* "not bound"; not an identity

VARIABLES bound,   \* bound[n]: the identity the name n stands for, or None
          retired  \* the identities that can never be bound any more

vars == <<bound, retired>>

TypeOK == /\ bound \in [Names -> Ids \cup {None}]
          /\ retired \subseteq Ids

Init == /\ bound = [n \in Names |-> None]
        /\ retired = {}

Create(n, id) ==
  /\ bound[n] = None
  /\ id \notin retired
  /\ \A m \in Names : bound[m] # id
  /\ bound' = [bound EXCEPT ![n] = id]
  /\ UNCHANGED retired

Remove(n) ==
  /\ bound[n] # None
  /\ bound' = [bound EXCEPT ![n] = None]
  /\ retired' = retired \cup {bound[n]}

\* An interrupted or refused creation wastes an identity.
Lose(id) ==
  /\ \A m \in Names : bound[m] # id
  /\ retired' = retired \cup {id}
  /\ UNCHANGED bound

Next == \/ \E n \in Names, id \in Ids : Create(n, id)
        \/ \E n \in Names : Remove(n)
        \/ \E id \in Ids : Lose(id)

Spec == Init /\ [][Next]_vars
=============================================================================
