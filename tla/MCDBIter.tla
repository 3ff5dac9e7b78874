------------------------------ MODULE MCDBIter ------------------------------
EXTENDS DBIter

Seqs == INSTANCE SequencesExt

\* What was written: all histories of three writes to three keys, of which
\* the second may be deleted, after a first write.
Writes == {<<1, "value">>, <<2, "value">>, <<2, "deletion">>, <<3, "value">>}

History == {h \in [1 .. 4 -> Writes] : h[1] # <<2, "deletion">>}

Written(h, lo, hi) ==
  Seqs!SetToSortSeq({[key |-> h[s][1], seq |-> s, type |-> h[s][2]] : s \in lo .. hi}, Before)

\* Level 1: files of m blocks, of which each has n entries.
LevelFiles(s, n, m, unreadable) ==
  [i \in 1 .. (Len(s) + n * m - 1) \div (n * m) |->
     TableBuilder(SubSeq(s, (i - 1) * n * m + 1, Minimum({i * n * m, Len(s)})), n, unreadable)]

\* The oldest c[1] writes are in level 1, up to c[2] in level 0, then in the
\* memtables.
Cuts == {<<0, 2, 3>>, <<0, 4, 4>>, <<2, 3, 3>>, <<2, 3, 4>>, <<3, 3, 4>>, <<3, 4, 4>>, <<4, 4, 4>>}

MCTrees ==
  {[mem |-> Written(h, c[3] + 1, 4), imm |-> Written(h, c[2] + 1, c[3]),
    level0 |-> IF c[1] = c[2] THEN <<>> ELSE <<TableBuilder(Written(h, c[1] + 1, c[2]), 2, u)>>,
    level1 |-> LevelFiles(Written(h, 1, c[1]), p[1], p[2], u)] :
     h \in History, c \in Cuts, p \in {<<1, 3>>, <<3, 2>>}, u \in {{}, {2}, {0}}}

\* One bit of every key is shared with each of the others.
MCBloomBits == <<{1, 2}, {2, 3}, {1, 3}>>
=============================================================================
