----------------------------- MODULE Iterators -----------------------------
(***************************************************************************)
(* The iterators below a scan of the tree, as records and operators on     *)
(* them: lists (the memtable and the files of a level), blocks with        *)
(* restart points, two-level iterators (blocks of a table, tables of a     *)
(* level) and merging iterators.  An operator takes an iterator to the     *)
(* iterator after the call.  Positions count from 1; 0 is "not valid".     *)
(***************************************************************************)
EXTENDS VersionSet, Sequences

\* What key_ holds when it was put together from the wrong bytes, or is empty.
NoKey == [key |-> 0, seq |-> 0, type |-> "none"]

Maximum(S) == CHOOSE n \in S : \A m \in S : m <= n
Minimum(S) == CHOOSE n \in S : \A m \in S : n <= m

\* NewErrorIterator: never valid.
ErrorIterator == [kind |-> "error", cur |-> 0]
Null          == [kind |-> "null", cur |-> 0]

\* MemTableIterator over the skip list, LevelFileNumIterator over the files.
ListIterator(s) == [kind |-> "list", s |-> s, cur |-> 0]

-----------------------------------------------------------------------------
(* Block::Iter.  An entry stores its key as a difference to the one before, *)
(* except at the restart points, every "interval" entries.                  *)

BlockIterator(s, interval) ==
  [kind |-> "block", s |-> s, interval |-> interval, cur |-> 0,
   restart_index |-> Maximum({1, (Len(s) + interval - 1) \div interval}), key |-> NoKey]

num_restarts(b) == Maximum({1, (Len(b.s) + b.interval - 1) \div b.interval})

GetRestartPoint(b, r) == r * b.interval + 1

MarkInvalid(b) == [b EXCEPT !.cur = 0, !.restart_index = num_restarts(b)]

\* What entry i decodes to, after the key last decoded.
Decoded(b, i, key) ==
  IF (i - 1) % b.interval = 0 \/ key = b.s[i - 1] THEN b.s[i] ELSE NoKey

\* ParseNextKey, with entry i the next one.
ParseNextKey(b, i) ==
  IF i > Len(b.s) THEN MarkInvalid(b)
  ELSE [b EXCEPT !.cur = i, !.key = Decoded(b, i, b.key),
          !.restart_index = Maximum({@} \cup {r \in @ + 1 .. num_restarts(b) - 1 :
                                                GetRestartPoint(b, r) < i})]

SeekToRestartPoint(b, r) == [b EXCEPT !.restart_index = r, !.key = NoKey]

\* The entries from restart point r up to entry "to" parsed, one after the other.
ParsedTo(b, r, to) ==
  LET from == GetRestartPoint(b, r)
      p[i \in from - 1 .. to] ==
        IF i < from THEN SeekToRestartPoint(b, r) ELSE ParseNextKey(p[i - 1], i)
  IN p[to]

BlockPrev(b) ==
  LET before == {r \in 0 .. b.restart_index : GetRestartPoint(b, r) < b.cur}
  IN IF before = {} THEN MarkInvalid(b) ELSE ParsedTo(b, Maximum(before), b.cur - 1)

\* The binary search: the last restart point with a key before the target.
RestartBefore(b, t, left, right) ==
  LET search[l \in 0 .. num_restarts(b), r \in 0 .. num_restarts(b)] ==
        IF l >= r THEN l
        ELSE LET mid == (l + r + 1) \div 2
             IN IF Before(b.s[GetRestartPoint(b, mid)], t) THEN search[mid, r] ELSE search[l, mid - 1]
  IN search[left, right]

BlockSeek(b, t) ==
  LET less    == b.cur # 0 /\ Before(b.key, t)
      greater == b.cur # 0 /\ Before(t, b.key)
      left    == RestartBefore(b, t, IF less THEN b.restart_index ELSE 0,
                               IF greater THEN b.restart_index ELSE num_restarts(b) - 1)
      skip    == left = b.restart_index /\ less
      from    == IF skip THEN b.cur + 1 ELSE GetRestartPoint(b, left)
      p[i \in from - 1 .. Len(b.s) + 1] ==
        IF i < from THEN IF skip THEN b ELSE SeekToRestartPoint(b, left)
        ELSE ParseNextKey(p[i - 1], i)
  IN IF b.cur # 0 /\ ~less /\ ~greater THEN b
     ELSE p[Minimum({i \in from .. Len(b.s) + 1 : i > Len(b.s) \/ ~Before(p[i].key, t)})]

-----------------------------------------------------------------------------
(* Two-level and merging iterators *)

\* "kids" are the iterators block_function makes, "handle" is the one in use.
TwoLevelIterator(index, kids) ==
  [kind |-> "two", index |-> index, kids |-> kids, handle |-> 0, data |-> Null,
   failed |-> FALSE, cur |-> 0]

\* NewMergingIterator returns an only child as it is.
MergingIterator(kids) ==
  IF Len(kids) = 1 THEN kids[1]
  ELSE [kind |-> "merge", kids |-> kids, cur |-> 0, direction |-> "forward"]

RECURSIVE Valid(_), Key(_), Ok(_)
RECURSIVE ItSeek(_, _), SeekToFirst(_), SeekToLast(_), ItNext(_), ItPrev(_)

Valid(it) == IF it.kind = "two" THEN Valid(it.data) ELSE it.cur # 0

Key(it) ==
  CASE it.kind = "list"  -> it.s[it.cur]
    [] it.kind = "block" -> it.key
    [] it.kind = "two"   -> Key(it.data)
    [] it.kind = "merge" -> Key(it.kids[it.cur])

\* status().ok()
Ok(it) ==
  CASE it.kind = "error" -> FALSE
    [] it.kind = "two"   -> Ok(it.index) /\ Ok(it.data) /\ ~it.failed
    [] it.kind = "merge" -> \A i \in DOMAIN it.kids : Ok(it.kids[i])
    [] OTHER -> TRUE

SetDataIterator(it, data) == [it EXCEPT !.data = data, !.failed = @ \/ ~Ok(it.data)]

InitDataBlock(it) ==
  IF ~Valid(it.index) THEN SetDataIterator(it, Null)
  ELSE IF it.data # Null /\ it.handle = it.index.cur THEN it
  ELSE [SetDataIterator(it, it.kids[it.index.cur]) EXCEPT !.handle = it.index.cur]

RECURSIVE SkipEmptyDataBlocksForward(_), SkipEmptyDataBlocksBackward(_)

SkipEmptyDataBlocksForward(it) ==
  IF Valid(it.data) THEN it
  ELSE IF ~Valid(it.index) THEN SetDataIterator(it, Null)
  ELSE LET moved == InitDataBlock([it EXCEPT !.index = ItNext(@)])
       IN SkipEmptyDataBlocksForward([moved EXCEPT !.data = SeekToFirst(@)])

SkipEmptyDataBlocksBackward(it) ==
  IF Valid(it.data) THEN it
  ELSE IF ~Valid(it.index) THEN SetDataIterator(it, Null)
  ELSE LET moved == InitDataBlock([it EXCEPT !.index = ItPrev(@)])
       IN SkipEmptyDataBlocksBackward([moved EXCEPT !.data = SeekToLast(@)])

\* Among equal keys the first child, and backwards the last one, is taken.
FindSmallest(it) ==
  LET valid == {i \in DOMAIN it.kids : Valid(it.kids[i])}
      least == {i \in valid : \A j \in valid : ~Before(Key(it.kids[j]), Key(it.kids[i]))}
  IN [it EXCEPT !.cur = IF valid = {} THEN 0 ELSE Minimum(least)]

FindLargest(it) ==
  LET valid == {i \in DOMAIN it.kids : Valid(it.kids[i])}
      most  == {i \in valid : \A j \in valid : ~Before(Key(it.kids[i]), Key(it.kids[j]))}
  IN [it EXCEPT !.cur = IF valid = {} THEN 0 ELSE Maximum(most)]

\* A child that follows after the direction is turned.
TurnForward(kid, k) ==
  LET at == ItSeek(kid, k) IN IF Valid(at) /\ Key(at) = k THEN ItNext(at) ELSE at

TurnBackward(kid, k) == LET at == ItSeek(kid, k) IN IF Valid(at) THEN ItPrev(at) ELSE SeekToLast(at)

-----------------------------------------------------------------------------
(* The interface *)

ItSeek(it, t) ==
  CASE it.kind = "list" ->
         LET from == {i \in DOMAIN it.s : ~Before(it.s[i], t)}
         IN [it EXCEPT !.cur = IF from = {} THEN 0 ELSE Minimum(from)]
    [] it.kind = "block" -> BlockSeek(it, t)
    [] it.kind = "two" ->
         LET moved == InitDataBlock([it EXCEPT !.index = ItSeek(@, t)])
         IN SkipEmptyDataBlocksForward([moved EXCEPT !.data = ItSeek(@, t)])
    [] it.kind = "merge" ->
         [FindSmallest([it EXCEPT !.kids = [i \in DOMAIN @ |-> ItSeek(@[i], t)]])
            EXCEPT !.direction = "forward"]
    [] OTHER -> it

SeekToFirst(it) ==
  CASE it.kind = "list"  -> [it EXCEPT !.cur = Minimum({1, Len(it.s)})]
    [] it.kind = "block" -> ParseNextKey(SeekToRestartPoint(it, 0), 1)
    [] it.kind = "two" ->
         LET moved == InitDataBlock([it EXCEPT !.index = SeekToFirst(@)])
         IN SkipEmptyDataBlocksForward([moved EXCEPT !.data = SeekToFirst(@)])
    [] it.kind = "merge" ->
         [FindSmallest([it EXCEPT !.kids = [i \in DOMAIN @ |-> SeekToFirst(@[i])]])
            EXCEPT !.direction = "forward"]
    [] OTHER -> it

SeekToLast(it) ==
  CASE it.kind = "list"  -> [it EXCEPT !.cur = Len(it.s)]
    [] it.kind = "block" -> IF it.s = <<>> THEN MarkInvalid(it)
                            ELSE ParsedTo(it, num_restarts(it) - 1, Len(it.s))
    [] it.kind = "two" ->
         LET moved == InitDataBlock([it EXCEPT !.index = SeekToLast(@)])
         IN SkipEmptyDataBlocksBackward([moved EXCEPT !.data = SeekToLast(@)])
    [] it.kind = "merge" ->
         [FindLargest([it EXCEPT !.kids = [i \in DOMAIN @ |-> SeekToLast(@[i])]])
            EXCEPT !.direction = "reverse"]
    [] OTHER -> it

\* Next and Prev are called on valid iterators only.
ItNext(it) ==
  CASE it.kind = "list"  -> [it EXCEPT !.cur = IF @ = Len(it.s) THEN 0 ELSE @ + 1]
    [] it.kind = "block" -> ParseNextKey(it, it.cur + 1)
    [] it.kind = "two"   -> SkipEmptyDataBlocksForward([it EXCEPT !.data = ItNext(@)])
    [] it.kind = "merge" ->
         LET k == Key(it)
         IN [FindSmallest([it EXCEPT !.kids =
               [i \in DOMAIN @ |-> IF i = it.cur THEN ItNext(@[i])
                                   ELSE IF it.direction = "forward" THEN @[i]
                                   ELSE TurnForward(@[i], k)]])
               EXCEPT !.direction = "forward"]

ItPrev(it) ==
  CASE it.kind = "list"  -> [it EXCEPT !.cur = @ - 1]
    [] it.kind = "block" -> BlockPrev(it)
    [] it.kind = "two"   -> SkipEmptyDataBlocksBackward([it EXCEPT !.data = ItPrev(@)])
    [] it.kind = "merge" ->
         LET k == Key(it)
         IN [FindLargest([it EXCEPT !.kids =
               [i \in DOMAIN @ |-> IF i = it.cur THEN ItPrev(@[i])
                                   ELSE IF it.direction = "reverse" THEN @[i]
                                   ELSE TurnBackward(@[i], k)]])
               EXCEPT !.direction = "reverse"]
=============================================================================
