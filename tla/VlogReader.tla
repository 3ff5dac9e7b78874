----------------------------- MODULE VlogReader -----------------------------
(***************************************************************************)
(* The sequential reader of a vlog file, VReader (db/vlog_reader.cc), and  *)
(* the walk of execute_gc_on_file over its records, on the files that      *)
(* VlogManager has rotated.  A failing read(2) is left out.                *)
(*                                                                         *)
(* The bytes in buffer_ are always a run of the file: the state of a       *)
(* reader is where this run begins and ends, and eof_.                     *)
(***************************************************************************)
EXTENDS VlogManager, FiniteSets

CONSTANT BlockSizes  \* values of kBlockSize, the bytes read from the file at a time

ASSUME BlockAssumption == \A b \in BlockSizes : b \in Nat /\ b > kVHeaderSize

NewReader(b) == [block |-> b, from |-> 0, to |-> 0, eof |-> FALSE, ok |-> TRUE, record |-> Garbage]

Failed(r) == [r EXCEPT !.ok = FALSE, !.record = Garbage]

\* Reads of n bytes end at the end of the file.
ReadTo(f, p, n) == IF p + n < f.len THEN p + n ELSE f.len

\* Faulty variant: what is left in the buffer is not counted.
FilledAfresh(r, f) ==
  IF r.eof \/ r.to - r.from >= kVHeaderSize THEN r
  ELSE LET to == ReadTo(f, r.to, r.block)
       IN  [r EXCEPT !.from = r.to, !.to = to, !.eof = to - r.to < r.block]

\* The buffer is filled up when it does not hold a header.
Filled(r, f) ==
  IF r.eof \/ r.to - r.from >= kVHeaderSize THEN r
  ELSE LET to == ReadTo(f, r.to, r.block - (r.to - r.from))
       IN  [r EXCEPT !.to = to, !.eof = to - r.from < r.block]

\* The records whose header starts at p; the checksum tells bytes that are
\* not all there, or another record's, from the body.
HeadersAt(f, p) == {x \in f.recs : x.at = p}

\* The record ends outside the buffer: a long rest is read on its own, for a
\* short one the next block is.
ReadAcross(r, f, body, x) ==
  LET left == Size[x.entry] - (r.to - body)
      end  == r.to + left
      to   == ReadTo(f, r.to, r.block)
  IN  IF left > r.block \div 2
      THEN IF end > f.len THEN Failed([r EXCEPT !.from = f.len, !.to = f.len, !.eof = TRUE])
           ELSE [r EXCEPT !.from = end, !.to = end, !.record = x.entry]
      ELSE IF to < end THEN Failed([r EXCEPT !.from = r.to, !.to = to, !.eof = TRUE])
           ELSE [r EXCEPT !.from = end, !.to = to, !.eof = to - r.to < r.block,
                          !.record = x.entry]

\* VReader::ReadRecord
ReadRecord(r0, f) ==
  LET r    == Filled(r0, f)
      body == r.from + kVHeaderSize
  IN  IF r.to < body \/ HeadersAt(f, r.from) = {} THEN Failed(r)
      ELSE LET x   == CHOOSE x \in HeadersAt(f, r.from) : TRUE
               end == body + Size[x.entry]
           IN  IF end <= r.to THEN [r EXCEPT !.from = end, !.record = x.entry]
               ELSE IF r.eof THEN Failed(r)
               ELSE ReadAcross(r, f, body, x)

\* The loop of execute_gc_on_file: a record and the offset that is computed
\* for its body by adding up the lengths of the records before.
RECURSIVE Walk(_, _, _)
Walk(r0, f, rec_offset) ==
  LET r == ReadRecord(r0, f)
  IN  IF ~r.ok THEN {}
      ELSE {[offset |-> rec_offset + kVHeaderSize, entry |-> r.record]}
           \cup Walk(r, f, rec_offset + kVHeaderSize + Size[r.record])

\* The first n bytes of a file, as a crash in the middle of an append leaves it.
Cut(f, n) == [len |-> n, recs |-> {x \in f.recs : x.at + kVHeaderSize <= n}]

-----------------------------------------------------------------------------
(***************************************************************************)
(* Garbage collection examines the records under the addresses they were   *)
(* given: walking a rotated file with VReader and adding up lengths, as    *)
(* execute_gc_on_file does, yields exactly the addresses that              *)
(* write_value_to_vlog returned for the file, wherever the records lie in  *)
(* the blocks that are read; and of a file that was cut off anywhere it    *)
(* yields exactly the records that are complete.                           *)
(***************************************************************************)
WalkFindsAddresses ==
  \A b \in BlockSizes, n \in 1 .. cur_vlog_ - 1 : \A len \in 0 .. files[n].len :
    Walk(NewReader(b), Cut(files[n], len), 0) =
      {[offset |-> a.offset, entry |-> a.entry] :
         a \in {a \in returned : a.vlog = n /\ a.offset + Size[a.entry] <= len}}
=============================================================================
