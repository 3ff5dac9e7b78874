------------------------------- MODULE MCLsm -------------------------------
(* Small instances of the tree. *)
EXTENDS Lsm

\* Two keys, of which one is deleted.
PutsAndDeletes == {<<1, "value">>, <<2, "value">>, <<1, "deletion">>}

\* One key: every memtable overlaps every file, so that level 0 fills up.
OnePut == {<<1, "value">>}
=============================================================================
