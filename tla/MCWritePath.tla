----------------------------- MODULE MCWritePath -----------------------------
(* A small batch and one of two operations that is larger than the buffer. *)
EXTENDS WritePath

Put    == [key |-> 1, type |-> "value", size |-> 2]
Other  == [key |-> 2, type |-> "value", size |-> 3]
Delete == [key |-> 1, type |-> "deletion", size |-> 1]

MCInputs ==
  {[batch |-> <<Put>>, sync |-> FALSE], [batch |-> <<Put>>, sync |-> TRUE],
   [batch |-> <<Other, Delete>>, sync |-> FALSE], [batch |-> nullptr, sync |-> FALSE]}
=============================================================================
