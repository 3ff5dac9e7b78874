---------------------------- MODULE MCVlogManager ----------------------------
(* Entries of three sizes around a small write buffer: one that is buffered, *)
(* one that fills the buffer exactly and one that is larger than the buffer. *)
EXTENDS VlogReader

CONSTANTS small, exact, large

MCEntries == {small, exact, large}

MCSize == [e \in MCEntries |-> CASE e = small -> 2
                                 [] e = exact -> 6
                                 [] e = large -> 9]
=============================================================================
