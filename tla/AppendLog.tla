------------------------------ MODULE AppendLog ------------------------------
(***************************************************************************)
(* What a value log promises to the rest of DisKV: a write yields a fresh  *)
(* address (vlog number, offset) behind every earlier one, and what is     *)
(* stored at an address never changes, moves or disappears.                *)
(***************************************************************************)
EXTENDS Integers

CONSTANT Entries

VARIABLE store  \* set of [vlog, offset, entry]

\* Address a lies behind address b.
Behind(a, b) == a.vlog > b.vlog \/ (a.vlog = b.vlog /\ a.offset > b.offset)

Init == store = {}

Write ==
  \E a \in store' :
    /\ a.entry \in Entries
    /\ \A b \in store : Behind(a, b)
    /\ store' = store \cup {a}

Spec == Init /\ [][Write]_store
=============================================================================
