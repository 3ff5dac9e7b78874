------------------------------ MODULE WritePath ------------------------------
(***************************************************************************)
(* DBImpl::Write (db/db_impl.cc) with the tree's own vlog: threads queue   *)
(* up in writers_, the first of them writes for a group, its record goes   *)
(* to the vlog and its operations, with their addresses, to the memtable.  *)
(*                                                                         *)
(* A step is a critical section of mutex_, or a step of the group's leader *)
(* or of the reader while they do not hold it.  A call is known by its     *)
(* number.  What happens to an immutable memtable, and the waits for level *)
(* 0, are in Lsm; here a memtable becomes a part of the tables in one      *)
(* step.                                                                   *)
(***************************************************************************)
EXTENDS SkipList

Seqs == INSTANCE SequencesExt

CONSTANTS
  Inputs,           \* [batch, sync]; a batch is a sequence of operations [key, type, size]
  NumWriters,       \* threads
  write_buffer_size, \* entries a memtable takes
  WriteBufferSize,  \* bytes of the buffer of a vlog
  kVHeaderSize, kHeader, max_vlog_size,
  kSmallBatch,      \* 128 << 10
  kMaxBatch,        \* 1 << 20
  MaxWrites,        \* bound: calls of Write
  MaxOps,           \* bound: operations in all batches
  MaxEvents         \* bound: reads and failing system calls

ASSUME WritePathAssumption ==
  /\ \A in \in Inputs : \A j \in DOMAIN in.batch : in.batch[j].key \in 1 .. NumKeys
  /\ MaxWrites < MaxLists

nullptr == <<>>  \* the batch of TEST_CompactMemTable

VARIABLES
  writers_,      \* the queue: numbers of calls
  calls,         \* the calls of Write so far
  group,         \* what the leader writes
  mem_, imm_,    \* numbers of skip lists; imm_ = 0 if there is none
  entries,       \* node -> its list, type and address, and where its bytes are
  files,         \* nodes in tables
  last_sequence, bg_error_,
  vlog,          \* number, bytes written, bytes of them in the buffer
  vlog_head_,
  drifted,       \* history: vlogs in which an append has failed
  events

lists == <<next, max_height, node, reader>>
mems  == <<mem_, imm_, entries, files>>
log   == <<vlog, vlog_head_, drifted>>
vars  == <<writers_, calls, group, mems, last_sequence, bg_error_, log, events, lists>>

NoGroup == [n |-> 0, ops |-> <<>>, seq |-> 0, place |-> 0, done |-> 0, status |-> "ok", sync_error |-> FALSE]

NewVlog(n) == [number |-> n, written |-> 0, size |-> 0]

Init ==
  /\ InitLists
  /\ writers_ = <<>> /\ calls = <<>> /\ group = NoGroup
  /\ mem_ = 1 /\ imm_ = 0 /\ entries = <<>> /\ files = {}
  /\ last_sequence = 0 /\ bg_error_ = FALSE
  /\ vlog = NewVlog(1) /\ vlog_head_ = 0 /\ drifted = {}
  /\ events = 0

Event == events < MaxEvents /\ events' = events + 1

NodesOf(m) == {x \in DOMAIN entries : entries[x].list = m}

-----------------------------------------------------------------------------
(* Batches and groups *)

SizeOf(ops) == Seqs!FoldLeft(LAMBDA s, o : s + o.size, 0, ops)

\* WriteBatchInternal::ByteSize
ByteSize(b) == kHeader + SizeOf(b)

\* WriteBatchInternal::Append of the batches of the first n calls of q.
Appended(c, q, n) == Seqs!FlattenSeq([j \in 1 .. n |-> c[q[j]].batch])

\* Bytes of the batches of the first n calls, each with its header.
GroupSize(c, q, n) ==
  SizeOf(Appended(c, q, n)) + kHeader * Cardinality({j \in 1 .. n : c[q[j]].batch # nullptr})

max_size(b) == IF ByteSize(b) <= kSmallBatch THEN ByteSize(b) + kSmallBatch ELSE kMaxBatch

\* Faulty variant: a group led by a write without sync takes in any write.
JoinsAnyway(c, q, j) ==
  c[q[j]].batch # nullptr => GroupSize(c, q, j) <= max_size(c[q[1]].batch)

Joins(c, q, j) ==
  /\ c[q[j]].sync => c[q[1]].sync
  /\ c[q[j]].batch # nullptr => GroupSize(c, q, j) <= max_size(c[q[1]].batch)

\* How many calls the group has.
BuildBatchGroup(c, q) ==
  CHOOSE n \in DOMAIN q : /\ \A j \in 2 .. n : Joins(c, q, j)
                          /\ n = Len(q) \/ ~Joins(c, q, n + 1)

-----------------------------------------------------------------------------
(* Write *)

\* Faulty variant: the new head of the queue is not notified.
CompletedUnsignalled(c, q, n, status) ==
  [i \in DOMAIN c |->
     IF i = q[1] THEN [c[i] EXCEPT !.pc = "returned", !.status = status]
     ELSE IF \E j \in 2 .. n : i = q[j]
     THEN [c[i] EXCEPT !.pc = "done", !.status = status, !.absorbed = c[i].batch = nullptr]
     ELSE c[i]]

\* The calls when the first n of the queue are popped and signalled, and the
\* new head is.
Completed(c, q, n, status) ==
  [i \in DOMAIN c |->
     IF i = q[1] THEN [c[i] EXCEPT !.pc = "returned", !.status = status]
     ELSE IF \E j \in 2 .. n : i = q[j]
     THEN [c[i] EXCEPT !.pc = "done", !.status = status, !.absorbed = c[i].batch = nullptr]
     ELSE IF n < Len(q) /\ i = q[n + 1] THEN [c[i] EXCEPT !.pc = "ready"]
     ELSE c[i]]

Complete(c, q, n, status) ==
  /\ calls' = Completed(c, q, n, status)
  /\ writers_' = SubSeq(q, n + 1, Len(q))

\* The leader takes the batches of its group; the sequence numbers they get.
Group(c, q) ==
  LET n == BuildBatchGroup(c, q)
  IN  /\ group' = [NoGroup EXCEPT !.n = n, !.ops = Appended(c, q, n), !.seq = last_sequence + 1]
      /\ calls' = [i \in DOMAIN c |->
           IF i = q[1] THEN [c[i] EXCEPT !.pc = "append", !.seq = last_sequence + 1]
           ELSE IF \E j \in 2 .. n : i = q[j]
           THEN [c[i] EXCEPT !.seq = last_sequence + 1
                     + Len(Appended(c, q, CHOOSE j \in 1 .. n - 1 : q[j + 1] = i))]
           ELSE c[i]]
      /\ writers_' = q

Full(force) == force \/ Cardinality(NodesOf(mem_)) > write_buffer_size

\* From the head of the queue to the release of mutex_: MakeRoomForWrite, the
\* first part of it only when the call does not come back from a wait.
Lead(c, q, fresh) ==
  LET force   == c[q[1]].batch = nullptr
      rotates == fresh /\ vlog_head_ >= max_vlog_size
  IN  /\ vlog' = IF rotates THEN NewVlog(vlog.number + 1) ELSE vlog
      /\ vlog_head_' = IF rotates THEN 0 ELSE vlog_head_
      /\ \/ /\ bg_error_
            /\ Complete(c, q, 1, "error")
            /\ UNCHANGED <<group, mem_, imm_>>
         \/ /\ ~bg_error_ /\ Full(force) /\ imm_ # 0
            /\ calls' = [c EXCEPT ![q[1]].pc = "room"]
            /\ writers_' = q
            /\ UNCHANGED <<group, mem_, imm_>>
         \/ /\ ~bg_error_ /\ (Full(force) => imm_ = 0)
            /\ mem_' = IF Full(force) THEN mem_ + 1 ELSE mem_
            /\ imm_' = IF Full(force) THEN mem_ ELSE imm_
            /\ IF force THEN Complete(c, q, 1, "ok") /\ UNCHANGED group ELSE Group(c, q)
      /\ UNCHANGED <<entries, files, last_sequence, bg_error_, drifted, lists>>

\* A call enters; if it is the first it goes on at once.
Write(in) ==
  LET c == Append(calls, [batch |-> in.batch, sync |-> in.sync, pc |-> "wait", status |-> "open", seq |-> 0,
                          mem |-> mem_, synced |-> FALSE, absorbed |-> FALSE])
      q == Append(writers_, Len(c))
  IN  /\ Len(c) <= MaxWrites /\ Len(Appended(c, [i \in DOMAIN c |-> i], Len(c))) <= MaxOps
      /\ Cardinality({i \in DOMAIN calls : calls[i].pc # "returned"}) < NumWriters
      /\ IF Len(q) = 1 THEN Lead(c, q, TRUE)
         ELSE /\ calls' = c /\ writers_' = q
              /\ UNCHANGED <<group, mems, last_sequence, bg_error_, log, lists>>
      /\ UNCHANGED events

At(pc) == writers_ # <<>> /\ calls[writers_[1]].pc = pc

\* The head of the queue was signalled by the leader before it or, when it
\* waited for room, by the background thread.
Wake ==
  /\ \/ At("ready") /\ Lead(calls, writers_, TRUE)
     \/ At("room again") /\ Lead(calls, writers_, FALSE)
  /\ UNCHANGED events

\* A call that another has done for returns.
Return(i) ==
  /\ calls[i].pc = "done"
  /\ calls' = [calls EXCEPT ![i].pc = "returned"]
  /\ UNCHANGED <<writers_, group, mems, last_sequence, bg_error_, log, events, lists>>

-----------------------------------------------------------------------------
(* The leader without mutex_ *)

Record == kVHeaderSize + ByteSize(group.ops)

Spills == vlog.size + Record > WriteBufferSize

\* VWriter::AddRecord: bytes that are in the buffer afterwards.
Buffered ==
  IF ~Spills THEN vlog.size + Record ELSE IF Record > WriteBufferSize THEN 0 ELSE Record

\* The record lies behind the bytes written so far, of which its header may
\* be missing; vlog_head_ is advanced by the size of a header in any case.
AppendBytes(bytes, header, status, sync_error) ==
  /\ At("append")
  /\ vlog' = [vlog EXCEPT !.written = @ + bytes, !.size = IF bytes = 0 THEN @ ELSE Buffered]
  /\ vlog_head_' = vlog_head_ + kVHeaderSize
  /\ group' = [group EXCEPT !.place = vlog.written + header + kHeader, !.status = status,
                            !.sync_error = sync_error]
  /\ UNCHANGED <<writers_, mems, last_sequence, bg_error_, lists>>

Goto(pc) == calls' = [calls EXCEPT ![writers_[1]].pc = pc]

\* Sync, if the leader asks for it: then all of the group is synced.
SyncAndInsert ==
  calls' = [i \in DOMAIN calls |->
    [calls[i] EXCEPT !.pc = IF i = writers_[1] THEN "insert" ELSE @,
       !.synced = @ \/ (calls[writers_[1]].sync /\ \E j \in 1 .. group.n : i = writers_[j])]]

AddRecord ==
  /\ AppendBytes(Record, kVHeaderSize, "ok", FALSE) /\ SyncAndInsert
  /\ UNCHANGED <<drifted, events>>

Drift == Event /\ drifted' = drifted \cup {vlog.number}

\* The buffer cannot be written.
AddRecordFails ==
  Spills /\ vlog.size > 0 /\ AppendBytes(0, 0, "error", FALSE) /\ Goto("finish") /\ Drift

\* Of a record larger than the buffer the header is not written, which the
\* status of the second append hides; or the rest is not.
HeaderLost ==
  /\ Record > WriteBufferSize
  /\ AppendBytes(Record - kVHeaderSize, 0, "ok", FALSE) /\ SyncAndInsert /\ Drift

BodyLost ==
  /\ Record > WriteBufferSize
  /\ AppendBytes(kVHeaderSize, kVHeaderSize, "error", FALSE) /\ Goto("finish") /\ Drift

SyncFails ==
  /\ At("append") /\ calls[writers_[1]].sync
  /\ AppendBytes(Record, kVHeaderSize, "error", TRUE) /\ Goto("finish")
  /\ Event /\ UNCHANGED drifted

\* Faulty variant: the header of the batch is not counted.
OffsetHeaderless == vlog_head_

\* WriteBatch::Iterate: vlog_head_ where the operation begins.
Offset == IF group.done = 0 THEN vlog_head_ + kHeader ELSE vlog_head_

\* MemTable::Add of the next operation, up to the allocation of its node.
Add ==
  LET op == group.ops[group.done + 1]
      x  == [key |-> op.key, seq |-> group.seq + group.done]
      at == [vlog |-> vlog.number, offset |-> Offset, size |-> op.size]
      is == [vlog |-> vlog.number, size |-> op.size,
             offset |-> group.place + SizeOf(SubSeq(group.ops, 1, group.done))]
      e  == [list |-> mem_, type |-> op.type, addr |-> at, place |-> is]
  IN  /\ At("insert") /\ ~node.on /\ group.done < Len(group.ops)
      /\ \E height \in 1 .. kMaxHeight : NewNode(mem_, x, height)
      /\ entries' = [n \in DOMAIN entries \cup {x} |-> IF n = x THEN e ELSE entries[n]]
      /\ vlog_head_' = Offset + op.size
      /\ group' = [group EXCEPT !.done = @ + 1]
      /\ UNCHANGED <<writers_, calls, mem_, imm_, files, last_sequence, bg_error_, vlog, drifted,
                     events, reader>>

Insert ==
  /\ Link
  /\ UNCHANGED <<writers_, calls, group, mems, last_sequence, bg_error_, log, events>>

\* mutex_ is taken again, the sequence numbers become visible, the group is popped.
Finish ==
  /\ \/ At("insert") /\ ~node.on /\ group.done = Len(group.ops)
     \/ At("finish")
  /\ bg_error_' = (bg_error_ \/ group.sync_error)
  /\ last_sequence' = last_sequence + Len(group.ops)
  /\ Complete(calls, writers_, group.n, group.status)
  /\ group' = NoGroup
  /\ UNCHANGED <<mems, log, events, lists>>

-----------------------------------------------------------------------------
(* The background thread and the reader *)

\* background_work_finished_signal_.SignalAll()
SignalAll ==
  calls' = [i \in DOMAIN calls |->
              IF calls[i].pc = "room" THEN [calls[i] EXCEPT !.pc = "room again"] ELSE calls[i]]

CompactMemTable ==
  /\ imm_ # 0 /\ ~bg_error_
  /\ files' = files \cup NodesOf(imm_)
  /\ imm_' = 0
  /\ SignalAll
  /\ UNCHANGED <<writers_, group, mem_, entries, last_sequence, bg_error_, log, events, lists>>

\* A compaction of tables ends before the memtable's turn comes.
CompactTables ==
  /\ At("room")
  /\ SignalAll
  /\ UNCHANGED <<writers_, group, mems, last_sequence, bg_error_, log, events, lists>>

\* RecordBackgroundError: the memtable stays, and all later writes fail.
CompactMemTableFails ==
  /\ imm_ # 0 /\ ~bg_error_ /\ Event
  /\ bg_error_' = TRUE
  /\ SignalAll
  /\ UNCHANGED <<writers_, group, mems, last_sequence, log, lists>>

\* DBImpl::Get up to the release of mutex_; an iterator is made likewise.
BeginRead(op, k) ==
  /\ reader.pc = "idle" /\ Event
  /\ reader' = [NoReader EXCEPT
       !.pc = IF op = "forward" THEN "advance" ELSE "begin", !.op = op, !.key = k,
       !.snap = last_sequence, !.files = files, !.x = HeadOf(mem_),
       !.lists = IF op = "get" /\ imm_ # 0 THEN <<mem_, imm_>> ELSE <<mem_>>,
       !.target = IF op = "get" THEN [key |-> k, seq |-> last_sequence] ELSE Null,
       !.acked = {i \in DOMAIN calls : calls[i].status = "ok"}]
  /\ UNCHANGED <<writers_, calls, group, mems, last_sequence, bg_error_, log, next, max_height, node>>

Read ==
  /\ ReaderStep
  /\ UNCHANGED <<writers_, calls, group, mems, last_sequence, bg_error_, log, events>>

EndRead ==
  /\ Reader("done") /\ reader' = NoReader
  /\ UNCHANGED <<writers_, calls, group, mems, last_sequence, bg_error_, log, events>>

WriterStep ==
  \/ Wake \/ AddRecord \/ Add \/ Insert \/ Finish
  \/ \E i \in DOMAIN calls : Return(i)

Faults == AddRecordFails \/ HeaderLost \/ BodyLost \/ SyncFails \/ CompactMemTableFails

Next ==
  \/ \E in \in Inputs : Write(in)
  \/ WriterStep \/ Faults \/ CompactMemTable \/ CompactTables
  \/ \E k \in 1 .. NumKeys : BeginRead("get", k)
  \/ \E op \in {"forward", "backward"} : BeginRead(op, 0)
  \/ Read \/ EndRead

Spec == Init /\ [][Next]_vars

\* Threads that can run do, those of the writers and the background thread.
FairSpec == Spec /\ WF_vars(WriterStep) /\ WF_vars(CompactMemTable)

-----------------------------------------------------------------------------
Succeeded == {i \in DOMAIN calls : calls[i].status = "ok" /\ calls[i].batch # nullptr}

NodesOfCall(i) ==
  {[key |-> calls[i].batch[j].key, seq |-> calls[i].seq + j - 1] : j \in DOMAIN calls[i].batch}

InGroup == IF group = NoGroup THEN {} ELSE {writers_[j] : j \in 1 .. group.n}

(***************************************************************************)
(* Group commit does for every call what it would have done alone: a Write *)
(* that returned OK has all its operations in a memtable, under sequence   *)
(* numbers of its own that follow those of the calls queued before it;     *)
(* nothing else is in the memtables; a write that asked for sync was in a  *)
(* group that was synced; and a write without a batch has switched the     *)
(* memtable, unless it was absorbed by the group of another call.          *)
(***************************************************************************)
WritesApplied ==
  /\ \A i \in Succeeded :
       /\ \A j \in DOMAIN calls[i].batch :
            LET x == [key |-> calls[i].batch[j].key, seq |-> calls[i].seq + j - 1]
            IN  x \in DOMAIN entries /\ entries[x].type = calls[i].batch[j].type
       /\ \A o \in Succeeded : i < o => calls[i].seq + Len(calls[i].batch) <= calls[o].seq
       /\ calls[i].sync => calls[i].synced
  /\ DOMAIN entries \subseteq UNION {NodesOfCall(i) : i \in Succeeded \cup InGroup}
  /\ \A i \in DOMAIN calls :
       calls[i].status = "ok" /\ calls[i].batch = nullptr /\ ~calls[i].absorbed => mem_ > calls[i].mem

(***************************************************************************)
(* The address in a memtable entry, which WriteBatch::Iterate computes     *)
(* from vlog_head_, is where VWriter::AddRecord has put the operation, in  *)
(* groups of several batches and over rotations, unless an append to this  *)
(* vlog has failed before.                                                 *)
(***************************************************************************)
AddressesExact ==
  \A x \in DOMAIN entries :
    entries[x].type = "value" /\ entries[x].addr.vlog \notin drifted
      => entries[x].addr = entries[x].place

(***************************************************************************)
(* A read without a lock sees the state at its snapshot while nodes are    *)
(* linked: the snapshot has every call that had succeeded and no part of   *)
(* another; a Get finds the newest entry of its key, and an iterator in    *)
(* either direction all entries of the memtable.                           *)
(***************************************************************************)
ReadsSeeSnapshot ==
  reader.pc = "done" =>
    LET all == UNION {NodesOfCall(i) : i \in Succeeded}
        old == {x \in all : x.seq <= reader.snap}
    IN  /\ \A i \in Succeeded : \/ NodesOfCall(i) \subseteq old
                                \/ i \notin reader.acked /\ NodesOfCall(i) \cap old = {}
        /\ IF reader.op = "get" THEN reader.seen = Newest(old, reader.key, reader.snap)
           ELSE {x \in reader.seen : x.seq <= reader.snap}
                  = {x \in old : entries[x].list = reader.lists[1]}

(***************************************************************************)
(* Every call of Write returns: no call sleeps in the queue, or waits for  *)
(* room in the memtable, with nobody left to wake it.                      *)
(***************************************************************************)
WritesReturn ==
  \A i \in 1 .. MaxWrites :
    i \in DOMAIN calls ~> (i \in DOMAIN calls /\ calls[i].pc = "returned")
=============================================================================
