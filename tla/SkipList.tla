------------------------------ MODULE SkipList ------------------------------
(***************************************************************************)
(* The skip lists of the memtables (db/skiplist.h, db/memtable.cc) with    *)
(* one writer, which the caller provides for, and a reader that holds no   *)
(* lock.  A step of the reader is one load of a next_ pointer; a step of   *)
(* the writer links a node on one level.                                   *)
(*                                                                         *)
(* A node is its internal key.  All lists share the function "next"; every *)
(* list has a head of its own, and the null pointer sorts behind all keys. *)
(***************************************************************************)
EXTENDS Integers, Sequences, FiniteSets

CONSTANTS
  NumKeys,     \* user keys are 1 .. NumKeys
  kMaxHeight,
  MaxLists     \* bound: memtables

Lists == 1 .. MaxLists

VARIABLES
  next,        \* node -> its next_ pointers, lowest level first
  max_height,  \* list -> max_height_
  node,        \* the writer: the node that Insert links, and where
  reader

HeadOf(m) == [key |-> 0, seq |-> m]
Null      == [key |-> NumKeys + 1, seq |-> 0]

\* InternalKeyComparator: by user key, then by decreasing sequence number.
Before(a, b) == a.key < b.key \/ (a.key = b.key /\ a.seq > b.seq)

NoNode   == [on |-> FALSE, list |-> 0, x |-> Null, height |-> 0, level |-> 0]
NoReader == [pc |-> "idle", op |-> "get", key |-> 0, snap |-> 0, lists |-> <<>>, files |-> {},
             seen |-> {}, target |-> Null, x |-> Null, level |-> 0, acked |-> {}]

InitLists ==
  /\ next = [n \in {HeadOf(m) : m \in Lists} |-> [i \in 1 .. kMaxHeight |-> Null]]
  /\ max_height = [m \in Lists |-> 1]
  /\ node = NoNode
  /\ reader = NoReader

-----------------------------------------------------------------------------
(* Insert *)

\* The last node before x on level i: what FindGreaterOrEqual leaves in prev[i].
RECURSIVE Previous(_, _, _)
Previous(p, x, i) == IF Before(next[p][i], x) THEN Previous(next[p][i], x, i) ELSE p

prev(m, x, i) ==
  LET from[l \in 1 .. kMaxHeight] ==
        IF l >= max_height[m] THEN HeadOf(m) ELSE Previous(from[l + 1], x, l + 1)
  IN  Previous(from[i], x, i)

\* RandomHeight and NewNode; max_height_ is stored before the node is linked.
NewNode(m, x, height) ==
  /\ node' = [on |-> TRUE, list |-> m, x |-> x, height |-> height, level |-> 1]
  /\ max_height' = [max_height EXCEPT ![m] = IF height > @ THEN height ELSE @]
  /\ UNCHANGED next

\* Faulty variant: the pointers of the new node are not set.
LinkedUnset(p, x, i) ==
  [n \in DOMAIN next \cup {x} |->
     IF n = p THEN [next[p] EXCEPT ![i] = x]
     ELSE IF n \notin DOMAIN next THEN <<Null>>
     ELSE IF n = x THEN Append(next[x], Null) ELSE next[n]]

\* The node gets its successor on level i, and its predecessor points to it.
Linked(p, x, i) ==
  [n \in DOMAIN next \cup {x} |->
     IF n = p THEN [next[p] EXCEPT ![i] = x]
     ELSE IF n \notin DOMAIN next THEN <<next[p][i]>>
     ELSE IF n = x THEN Append(next[x], next[p][i]) ELSE next[n]]

Link ==
  /\ node.on
  /\ next' = Linked(prev(node.list, node.x, node.level), node.x, node.level)
  /\ node' = IF node.level = node.height THEN NoNode ELSE [node EXCEPT !.level = @ + 1]
  /\ UNCHANGED <<max_height, reader>>

-----------------------------------------------------------------------------
(* The reader.  "get" is MemTable::Get on the memtables and then the        *)
(* tables; "forward" and "backward" move an iterator over one memtable.     *)

Reader(pc) == reader.pc = pc /\ UNCHANGED <<next, max_height, node>>

\* A search begins at the head, on the level max_height_ gives: the relaxed
\* load may return an old value.
BeginSearch ==
  /\ Reader("begin")
  /\ \E h \in 1 .. max_height[reader.lists[1]] :
       reader' = [reader EXCEPT !.pc = "search", !.x = HeadOf(reader.lists[1]), !.level = h]

\* The newest of the nodes S for the key that the snapshot sees.
Newest(S, k, snap) ==
  {n \in S : /\ n.key = k /\ n.seq <= snap
             /\ \A o \in S : o.key = k /\ o.seq <= snap => o.seq <= n.seq}

\* The key is not in this list: the next one, or the tables.
NextList(r) ==
  IF Len(r.lists) > 1
  THEN [r EXCEPT !.pc = "begin", !.lists = Tail(@)]
  ELSE [r EXCEPT !.pc = "done", !.seen = Newest(r.files, r.key, r.snap)]

Found(n) ==
  IF n.key = reader.key THEN [reader EXCEPT !.pc = "done", !.seen = {n}] ELSE NextList(reader)

\* Prev, and SeekToLast at first: the node before the target, which becomes
\* the next target; the head is the end.
Backed(x) ==
  IF x = HeadOf(reader.lists[1]) THEN [reader EXCEPT !.pc = "done"]
  ELSE [reader EXCEPT !.pc = "begin", !.seen = @ \cup {x}, !.target = x]

\* FindGreaterOrEqual, FindLessThan and FindLast: along a level, or down.
\* With the null pointer as its target FindLessThan is FindLast.
Search ==
  LET n == next[reader.x][reader.level]
  IN  /\ Reader("search")
      /\ reader' = IF Before(n, reader.target) THEN [reader EXCEPT !.x = n]
                   ELSE IF reader.level > 1 THEN [reader EXCEPT !.level = @ - 1]
                   ELSE IF reader.op = "get" THEN Found(n) ELSE Backed(reader.x)

\* SeekToFirst and Next
Advance ==
  LET n == next[reader.x][1]
  IN  /\ Reader("advance")
      /\ reader' = IF n = Null THEN [reader EXCEPT !.pc = "done"]
                   ELSE [reader EXCEPT !.x = n, !.seen = @ \cup {n}]

ReaderStep == BeginSearch \/ Search \/ Advance
=============================================================================
