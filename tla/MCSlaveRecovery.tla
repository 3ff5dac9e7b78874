--------------------------- MODULE MCSlaveRecovery ---------------------------
(* Two entries, a small one and one that fills the write buffer alone, so    *)
(* that records are lost with the buffer, flushed by the next record, and    *)
(* flushed by a rotation.                                                    *)
EXTENDS SlaveRecovery

CONSTANTS small, exact

MCEntries == {small, exact}

MCSize == [e \in MCEntries |-> IF e = small THEN 1 ELSE 4]
=============================================================================
