-------------------------------- MODULE Vlog --------------------------------
(***************************************************************************)
(* The value log of one slave: db/vlog_manager.{h,cc}, db/vlog_writer.cc   *)
(* and db/vlog_fetcher.cc, as pure operators on the state of one VlogInfo  *)
(* and of its file.                                                        *)
(*                                                                         *)
(* Bytes are abstracted to WHERE records lie.  A chunk stands for a run of *)
(* bytes: its length, and the set of records in it with the position where *)
(* each record's header starts.  A file is a chunk, and so is the write    *)
(* buffer of a VlogInfo (buffer_ with size_ = its length).                 *)
(***************************************************************************)
EXTENDS Integers

CONSTANTS
  Entries,         \* what callers hand to AddRecord (encoded key/value pairs)
  Size,            \* [Entries -> Nat]: bytes of the encoded entry
  WriteBufferSize, \* capacity of VlogInfo::buffer_
  kVHeaderSize,    \* bytes of a record header (checksum and length)
  Garbage          \* what parsing bytes that are no record body yields

ASSUME VlogAssumption ==
  /\ Size \in [Entries -> Nat \ {0}]
  /\ WriteBufferSize \in Nat
  /\ kVHeaderSize \in Nat \ {0}
  /\ Garbage \notin Entries

Placed == [at : Nat, entry : Entries]

Chunk == [len : Nat, recs : SUBSET Placed]

NoBytes == [len |-> 0, recs |-> {}]

\* Header and body of one record.
RecordOf(e) ==
  [len |-> kVHeaderSize + Size[e], recs |-> {[at |-> 0, entry |-> e]}]

\* WritableFile::SyncedAppend, and the memcpy behind the bytes of a buffer.
Append2(c, d) ==
  [len  |-> c.len + d.len,
   recs |-> c.recs \cup {[at |-> c.len + r.at, entry |-> r.entry] : r \in d.recs}]

\* vlog::Parse of the `size` bytes at position p.
BodyAt(c, p, size) ==
  IF \E r \in c.recs : r.at + kVHeaderSize = p /\ Size[r.entry] = size
  THEN (CHOOSE r \in c.recs : r.at + kVHeaderSize = p /\ Size[r.entry] = size).entry
  ELSE Garbage

\* Records lie inside the chunk, and no two start at the same place.
WellPlaced(c) ==
  /\ \A r \in c.recs : r.at + kVHeaderSize + Size[r.entry] <= c.len
  /\ \A r, s \in c.recs : r.at = s.at => r = s

-----------------------------------------------------------------------------
(* VlogInfo: head_ is the file offset that buffer_[0] will get.            *)

VlogInfo == [head : Nat, buf : Chunk]

NewVlogInfo == [head |-> 0, buf |-> NoBytes]

WritePos(v) == v.head + v.buf.len

\* Faulty variant: head_ does not move when the buffer is written.
FlushBufferKeepsHead(v, f) ==
  [info |-> [head |-> v.head, buf |-> NoBytes],
   file |-> Append2(f, v.buf)]

\* VlogManager::FlushCurrentBuffer on the current VlogInfo.
FlushBuffer(v, f) ==
  [info |-> [head |-> v.head + v.buf.len, buf |-> NoBytes],
   file |-> Append2(f, v.buf)]

\* Faulty variants of AddRecord: the room check forgets the header; a large
\* record is written before the buffer that precedes it.
AddRecordHeaderForgotten(v, f, e) ==
  IF v.buf.len + Size[e] <= WriteBufferSize
  THEN [info |-> [v EXCEPT !.buf = Append2(@, RecordOf(e))], file |-> f]
  ELSE [info |-> [head |-> WritePos(v), buf |-> RecordOf(e)], file |-> Append2(f, v.buf)]

AddRecordLargeFirst(v, f, e) ==
  LET need == kVHeaderSize + Size[e]
  IN  IF v.buf.len + need <= WriteBufferSize
      THEN [info |-> [v EXCEPT !.buf = Append2(@, RecordOf(e))], file |-> f]
      ELSE [info |-> [head |-> WritePos(v) + need, buf |-> NoBytes],
            file |-> Append2(Append2(f, RecordOf(e)), v.buf)]

\* VWriter::AddRecord: make room by writing the buffer out, then buffer the
\* record, or write it straight to the file when it is larger than the buffer.
AddRecord(v, f, e) ==
  LET need    == kVHeaderSize + Size[e]
      flushed == FlushBuffer(v, f)
  IN  IF v.buf.len + need <= WriteBufferSize
      THEN [info |-> [v EXCEPT !.buf = Append2(@, RecordOf(e))], file |-> f]
      ELSE IF need <= WriteBufferSize
           THEN [info |-> [flushed.info EXCEPT !.buf = RecordOf(e)],
                 file |-> flushed.file]
           ELSE [info |-> [flushed.info EXCEPT !.head = @ + need],
                 file |-> Append2(flushed.file, RecordOf(e))]

\* Faulty variant of Get: the first byte after head_ is looked for on disk.
GetBoundary(v, f, offset, size) ==
  IF offset > v.head + kVHeaderSize
  THEN BodyAt(v.buf, offset - v.head, size)
  ELSE BodyAt(f, offset, size)

\* VlogFetcher::Get: offsets from head_ on are served from the buffer.
Get(v, f, offset, size) ==
  IF offset >= v.head
  THEN BodyAt(v.buf, offset - v.head, size)
  ELSE BodyAt(f, offset, size)

\* f with n mapped to x, whether or not n was in its domain.
With(f, n, x) == [m \in DOMAIN f \cup {n} |-> IF m = n THEN x ELSE f[m]]
=============================================================================
