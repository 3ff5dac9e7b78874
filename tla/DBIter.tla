------------------------------- MODULE DBIter -------------------------------
(***************************************************************************)
(* A scan of the tree (DBAddrIter over NewInternalIterator), as SCAN_ADDR  *)
(* and recovery use it: one user who seeks and steps in both directions,   *)
(* over a tree that no longer changes, since the iterator holds it.  "at"  *)
(* is where an ordinary cursor over the visible pairs would be.            *)
(***************************************************************************)
EXTENDS TableFile

CONSTANTS
  Trees,        \* memtables as sequences of entries, levels as sequences of files
  Snapshots,    \* sequence numbers to read at
  NumKeys

ASSUME DBIterAssumption == NumKeys \in Nat

VARIABLES
  tree, sequence,
  it,   \* the DBAddrIter: iter, direction, valid, saved_key, saved_value
  at    \* history

vars == <<tree, sequence, it, at>>

-----------------------------------------------------------------------------
(* The internal iterator *)

NewConcatenatingIterator(files) ==
  TwoLevelIterator(ListIterator([i \in DOMAIN files |-> files[i].largest]),
                   [i \in DOMAIN files |-> NewIterator(files[i])])

\* Version::AddIterators: each file of level 0, and the levels that have files.
AddIterators(t) ==
  [i \in DOMAIN t.level0 |-> NewIterator(t.level0[i])]
    \o (IF t.level1 = <<>> THEN <<>> ELSE <<NewConcatenatingIterator(t.level1)>>)

NewInternalIterator(t) ==
  MergingIterator(<<ListIterator(t.mem)>>
                    \o (IF t.imm = <<>> THEN <<>> ELSE <<ListIterator(t.imm)>>)
                    \o AddIterators(t))

-----------------------------------------------------------------------------
(* DBAddrIter.  A saved_key that was cleared is before all keys. *)

RECURSIVE FindNextUserEntry(_, _), FindPrevUserEntry(_, _)

FindNextUserEntry(d, skipping) ==
  IF ~Valid(d.iter) THEN [d EXCEPT !.valid = FALSE, !.saved_key = 0]
  ELSE LET e    == Key(d.iter)
           next == [d EXCEPT !.iter = ItNext(@)]
       IN IF e.seq > sequence THEN FindNextUserEntry(next, skipping)
          ELSE CASE e.type = "deletion" ->
                      FindNextUserEntry([next EXCEPT !.saved_key = e.key], TRUE)
                 [] e.type = "value" /\ ~(skipping /\ e.key <= d.saved_key) ->
                      [d EXCEPT !.valid = TRUE, !.saved_key = 0]
                 [] OTHER -> FindNextUserEntry(next, skipping)

EndOfPrevUnchecked(d, value_type) == [d EXCEPT !.valid = TRUE]

EndOfPrev(d, value_type) ==
  IF value_type = "deletion"
  THEN [d EXCEPT !.valid = FALSE, !.saved_key = 0, !.saved_value = 0, !.direction = "forward"]
  ELSE [d EXCEPT !.valid = TRUE]

\* value_type is that of the entry last seen.
FindPrevUserEntry(d, value_type) ==
  LET e    == Key(d.iter)
      prev == [d EXCEPT !.iter = ItPrev(@)]
      seen == Valid(d.iter) /\ e.seq <= sequence
  IN IF ~Valid(d.iter) \/ (seen /\ value_type # "deletion" /\ e.key < d.saved_key)
     THEN EndOfPrev(d, value_type)
     ELSE IF ~seen THEN FindPrevUserEntry(prev, value_type)
     ELSE IF e.type = "deletion"
     THEN FindPrevUserEntry([prev EXCEPT !.saved_key = 0, !.saved_value = 0], "deletion")
     ELSE FindPrevUserEntry([prev EXCEPT !.saved_key = e.key, !.saved_value = e.seq], "value")

DBSeekAfresh(d, k) ==
  FindNextUserEntry([d EXCEPT !.direction = "forward", !.saved_key = 0, !.saved_value = 0,
                       !.iter = ItSeek(NewInternalIterator(tree), [key |-> k, seq |-> sequence])], FALSE)

DBSeek(d, k) ==
  LET to == [d EXCEPT !.direction = "forward", !.saved_key = 0, !.saved_value = 0,
                      !.iter = ItSeek(@, [key |-> k, seq |-> sequence])]
  IN IF Valid(to.iter) THEN FindNextUserEntry(to, FALSE) ELSE [to EXCEPT !.valid = FALSE]

DBSeekToFirst(d) ==
  LET to == [d EXCEPT !.direction = "forward", !.saved_value = 0, !.iter = SeekToFirst(@)]
  IN IF Valid(to.iter) THEN FindNextUserEntry(to, FALSE) ELSE [to EXCEPT !.valid = FALSE]

DBSeekToLast(d) ==
  FindPrevUserEntry([d EXCEPT !.direction = "reverse", !.saved_value = 0, !.iter = SeekToLast(@)],
                    "deletion")

\* Backwards, the internal iterator is just before the entries of the key.
DBNext(d) ==
  LET to == IF d.direction = "reverse"
            THEN [d EXCEPT !.direction = "forward",
                           !.iter = IF Valid(@) THEN ItNext(@) ELSE SeekToFirst(@)]
            ELSE [d EXCEPT !.saved_key = Key(d.iter).key, !.iter = ItNext(@)]
  IN IF Valid(to.iter) THEN FindNextUserEntry(to, TRUE)
     ELSE [to EXCEPT !.valid = FALSE, !.saved_key = 0]

RECURSIVE BeforeKey(_, _)

BeforeKey(iter, k) == IF Valid(iter) /\ Key(iter).key >= k THEN BeforeKey(ItPrev(iter), k) ELSE iter

DBPrevInPlace(d) ==
  FindPrevUserEntry([d EXCEPT !.direction = "reverse", !.saved_key = Key(d.iter).key], "deletion")

DBPrev(d) ==
  IF d.direction = "reverse" THEN FindPrevUserEntry(d, "deletion")
  ELSE LET k  == Key(d.iter).key
           to == [d EXCEPT !.saved_key = k, !.iter = BeforeKey(@, k)]
       IN IF Valid(to.iter) THEN FindPrevUserEntry([to EXCEPT !.direction = "reverse"], "deletion")
          ELSE [to EXCEPT !.valid = FALSE, !.saved_key = 0, !.saved_value = 0]

\* key() and value()
Pair(d) ==
  IF d.direction = "forward" THEN <<Key(d.iter).key, Key(d.iter).seq>>
  ELSE <<d.saved_key, d.saved_value>>

-----------------------------------------------------------------------------
(* The cursor that a user imagines *)

EntriesIn(s) == {s[i] : i \in DOMAIN s}

EntriesOfFile(f) == UNION {EntriesIn(f.blocks[i]) : i \in DOMAIN f.blocks}

Files(t) == EntriesIn(t.level0) \cup EntriesIn(t.level1)

EntriesOf(t) ==
  EntriesIn(t.mem) \cup EntriesIn(t.imm) \cup UNION {EntriesOfFile(f) : f \in Files(t)}

\* The key-value pairs that the snapshot shows.
Visible ==
  {<<e.key, e.seq>> : e \in {e \in UNION {Seek(EntriesOf(tree), k, sequence) : k \in 1 .. NumKeys} :
                               e.type = "value"}}

VisibleKeys == {p[1] : p \in Visible}

From(k)  == LET S == {v \in VisibleKeys : v >= k} IN IF S = {} THEN 0 ELSE Minimum(S)
UpTo(k)  == LET S == {v \in VisibleKeys : v <= k} IN IF S = {} THEN 0 ELSE Maximum(S)

-----------------------------------------------------------------------------
(* Calls *)

Init ==
  /\ tree \in Trees /\ sequence \in Snapshots
  /\ it = [iter |-> NewInternalIterator(tree), direction |-> "forward", valid |-> FALSE,
           saved_key |-> 0, saved_value |-> 0]
  /\ at = 0

CallSeek(k) == it' = DBSeek(it, k) /\ at' = From(k) /\ UNCHANGED <<tree, sequence>>

CallSeekToFirst == it' = DBSeekToFirst(it) /\ at' = From(0) /\ UNCHANGED <<tree, sequence>>

CallSeekToLast == it' = DBSeekToLast(it) /\ at' = UpTo(NumKeys) /\ UNCHANGED <<tree, sequence>>

CallNext == it.valid /\ it' = DBNext(it) /\ at' = From(at + 1) /\ UNCHANGED <<tree, sequence>>

CallPrev == it.valid /\ it' = DBPrev(it) /\ at' = UpTo(at - 1) /\ UNCHANGED <<tree, sequence>>

Next ==
  \/ \E k \in 1 .. NumKeys : CallSeek(k)
  \/ CallSeekToFirst \/ CallSeekToLast \/ CallNext \/ CallPrev

Spec == Init /\ [][Next]_vars

-----------------------------------------------------------------------------
(* The type of the state. *)
TypeOK ==
  /\ it.valid \in BOOLEAN /\ it.direction \in {"forward", "reverse"}
  /\ it.valid => Pair(it) \in (1 .. NumKeys) \X (1 .. kMaxSequenceNumber)
  /\ at \in 0 .. NumKeys

(* While status() is ok, a scan shows what an ordinary cursor over the      *)
(* visible pairs shows: the newest value that the snapshot sees, deletions *)
(* and older values hidden, whichever memtable, file or block an entry is  *)
(* in and however often the direction is turned.                           *)
CursorAgrees ==
  Ok(it.iter) => /\ it.valid <=> at # 0
                 /\ it.valid => Pair(it) \in Visible /\ Pair(it)[1] = at

(* An error is reported until the scan ends: a block that was skipped      *)
(* because it cannot be read never looks like a gap in the data.           *)
ErrorsStay == [][~Ok(it.iter) => ~Ok(it'.iter)]_vars

(* A lookup in a table finds the newest entry that the snapshot sees, or   *)
(* reports an error: the keys that separate the blocks in the index lead   *)
(* to the right block, also when the entries of a user key are spread over *)
(* two, and the filter of a block never denies a key it has.               *)
TableGetsAgree ==
  \A f \in Files(tree), k \in 1 .. NumKeys, filtered \in BOOLEAN :
    LET r == TableGet(f, k, sequence, filtered)
    IN r.ok => r.found = Seek(EntriesOfFile(f), k, sequence)
=============================================================================
