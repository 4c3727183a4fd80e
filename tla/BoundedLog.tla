---------------------------- MODULE BoundedLog -----------------------------
(***************************************************************************)
(* What a bounded log promises: entries are added one by one, room is made *)
(* by dropping the oldest, and never below the newest Keep of them.        *)
(***************************************************************************)
EXTENDS Naturals, FiniteSets

CONSTANT Keep

VARIABLES newest, kept   \* entries are numbered as they are logged

Start == newest = 0 /\ kept = {}

Log ==
    /\ newest' = newest + 1
    /\ kept' = kept \cup {newest + 1}

DropOldest ==
    /\ \E n \in kept : kept' = {k \in kept : k > n}
    /\ Cardinality(kept') >= Keep
    /\ UNCHANGED newest

Spec == Start /\ [][Log \/ DropOldest]_<<newest, kept>>
=============================================================================
