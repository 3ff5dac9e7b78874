----------------------------- MODULE TableFile -----------------------------
(***************************************************************************)
(* A sorted table as TableBuilder writes it and Table reads it: blocks of  *)
(* entries, the index and the filters.  A deletion, which has no value, is *)
(* a fourth of the size of another entry.                                  *)
(*                                                                         *)
(* User keys are numbers that stand for strings: an even key is one        *)
(* character, an odd key is longer, so that only an odd one is shortened.  *)
(***************************************************************************)
EXTENDS Iterators

CONSTANTS
  block_restart_interval,
  kFilterBase,  \* the part of a file that shares a filter, in deletions
  BloomBits     \* user key -> the bits it sets

ASSUME TableAssumption == block_restart_interval \in Nat \ {0} /\ kFilterBase \in Nat \ {0}

-----------------------------------------------------------------------------
(* Writing *)

\* A key after "start" and before "limit", with a shorter user key if there is one.
FindShortestSeparator(start, limit) ==
  IF start.key % 2 = 1 /\ start.key + 1 < limit.key
  THEN [key |-> start.key + 1, seq |-> kMaxSequenceNumber, type |-> "value"] ELSE start

FindShortSuccessor(last) ==
  IF last.key % 2 = 1
  THEN [key |-> last.key + 1, seq |-> kMaxSequenceNumber, type |-> "value"] ELSE last

\* A block is written when it has block_size entries, and at the end.
DataBlocks(s, block_size) ==
  [i \in 1 .. (Len(s) + block_size - 1) \div block_size |->
     SubSeq(s, (i - 1) * block_size + 1, Minimum({i * block_size, Len(s)}))]

LastEntry(block) == block[Len(block)]

IndexBlock(blocks) ==
  [i \in DOMAIN blocks |-> IF i = Len(blocks) THEN FindShortSuccessor(LastEntry(blocks[i]))
                           ELSE FindShortestSeparator(LastEntry(blocks[i]), blocks[i + 1][1])]

\* Where the block after the first i begins.
Offset(blocks) ==
  LET size(b) == Len(b) + 3 * Cardinality({j \in DOMAIN b : b[j].type # "deletion"})
      offset[i \in 0 .. Len(blocks)] == IF i = 0 THEN 0 ELSE offset[i - 1] + size(blocks[i])
  IN offset

CreateFilter(keys) == UNION {BloomBits[k] : k \in keys}

\* Faulty variant: one filter is generated, however far the offset has moved.
StartBlockOnce(r, offset) ==
  IF offset \div kFilterBase <= Len(r.filters) THEN r
  ELSE [filters |-> Append(r.filters, CreateFilter(r.keys)), keys |-> {}]

\* StartBlock: filters up to that of the offset are generated, all but the
\* first of them empty.
StartBlock(r, offset) ==
  LET new == offset \div kFilterBase - Len(r.filters)
  IN IF new <= 0 THEN r
     ELSE [filters |-> r.filters \o [i \in 1 .. new |-> IF i = 1 THEN CreateFilter(r.keys) ELSE {}],
           keys |-> {}]

FilterBlock(blocks) ==
  LET offset == Offset(blocks)
      r[i \in 0 .. Len(blocks)] ==
        IF i = 0 THEN [filters |-> <<>>, keys |-> {}]
        ELSE StartBlock([r[i - 1] EXCEPT !.keys = @ \cup {blocks[i][j].key : j \in DOMAIN blocks[i]}],
                        offset[i])
      last == r[Len(blocks)]
  IN IF last.keys = {} THEN last.filters ELSE Append(last.filters, CreateFilter(last.keys))

\* The file with the entries s; "unreadable" are its blocks that cannot be
\* read later, and 0 if it cannot be opened.
TableBuilder(s, block_size, unreadable) ==
  LET blocks == DataBlocks(s, block_size)
  IN [blocks |-> blocks, index |-> IndexBlock(blocks), filters |-> FilterBlock(blocks),
      offset |-> Offset(blocks), largest |-> s[Len(s)], unreadable |-> unreadable]

-----------------------------------------------------------------------------
(* Reading *)

\* A block that cannot be read is an iterator with an error.
BlockReader(f, i) ==
  IF i \in f.unreadable THEN ErrorIterator ELSE BlockIterator(f.blocks[i], block_restart_interval)

IndexIterator(f) == BlockIterator(f.index, 1)

TableIterator(f) ==
  TwoLevelIterator(IndexIterator(f), [i \in DOMAIN f.blocks |-> BlockReader(f, i)])

\* Table::Open
Opens(f) == 0 \notin f.unreadable

\* TableCache::NewIterator
NewIterator(f) == IF Opens(f) THEN TableIterator(f) ELSE ErrorIterator

\* A filter may say yes for a key it was not given, and one with no keys never does.
KeyMayMatch(f, i, k) ==
  LET index == f.offset[i - 1] \div kFilterBase
  IN index < Len(f.filters) => f.filters[index + 1] # {} /\ BloomBits[k] \subseteq f.filters[index + 1]

\* TableCache::Get and Table::InternalGet, with or without filters: the
\* entry for (k, s), as a set, and whether the status is ok.
TableGet(f, k, s, filtered) ==
  LET t == [key |-> k, seq |-> s]
      i == ItSeek(IndexIterator(f), t)
      b == ItSeek(BlockReader(f, i.cur), t)
  IN IF ~Opens(f) THEN [ok |-> FALSE, found |-> {}]
     ELSE IF ~Valid(i) \/ (filtered /\ ~KeyMayMatch(f, i.cur, k)) THEN [ok |-> TRUE, found |-> {}]
     ELSE [ok |-> Ok(b), found |-> IF Valid(b) /\ Key(b).key = k THEN {Key(b)} ELSE {}]
=============================================================================
