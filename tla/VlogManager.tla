----------------------------- MODULE VlogManager -----------------------------
(***************************************************************************)
(* One running slave's use of VlogManager: every write goes through        *)
(* write_value_to_vlog (distributed/slave.cc), which rotates to a new vlog *)
(* file when the current one is full, appends, and returns an address.     *)
(* g_vlog_mutex makes each of these one atomic step.  Restart, recovery    *)
(* and the two threads of a slave are in SlaveRecovery and SlaveGC.        *)
(***************************************************************************)
EXTENDS Vlog

CONSTANTS
  max_vlog_size, \* Options::max_vlog_size
  MaxVlogs       \* bound: vlog files the model may create

ASSUME ManagerAssumption ==
  /\ max_vlog_size \in Nat \ {0}
  /\ MaxVlogs \in Nat \ {0}

VARIABLES
  manager_,  \* VlogManager::manager_: vlog number -> VlogInfo
  cur_vlog_, \* VlogManager::cur_vlog_
  files,     \* vlog number -> bytes of the .log file
  returned   \* history: addresses write_value_to_vlog handed to its callers

vars == <<manager_, cur_vlog_, files, returned>>

VlogNumbers == 1 .. MaxVlogs

Address == [vlog : VlogNumbers, offset : Nat, entry : Entries]

\* init_vlog on an empty directory: one AddVlog, with number 1.
Init ==
  /\ manager_  = [n \in {1} |-> NewVlogInfo]
  /\ cur_vlog_ = 1
  /\ files     = [n \in {1} |-> NoBytes]
  /\ returned  = {}

\* VlogManager::GetWritePos
GetWritePos == WritePos(manager_[cur_vlog_])

\* VlogManager::FetchValueFromVlog
FetchValueFromVlog(n, offset, size) ==
  IF n \in DOMAIN manager_
  THEN Get(manager_[n], files[n], offset, size)
  ELSE Garbage

\* write_value_to_vlog while the current file has room.
Write(e) ==
  LET n == cur_vlog_
      r == AddRecord(manager_[n], files[n], e)
  IN  /\ GetWritePos < max_vlog_size
      /\ manager_' = [manager_ EXCEPT ![n] = r.info]
      /\ files'    = [files EXCEPT ![n] = r.file]
      /\ returned' = returned \cup
           {[vlog |-> n, offset |-> GetWritePos + kVHeaderSize, entry |-> e]}
      /\ UNCHANGED cur_vlog_

\* Faulty variants of the rotation: the old buffer is not written out; the
\* manager keeps the old file as its current one.
RotateWithoutFlush(e) ==
  LET n == cur_vlog_ + 1
      r == AddRecord(NewVlogInfo, NoBytes, e)
  IN  /\ GetWritePos >= max_vlog_size
      /\ n \in VlogNumbers
      /\ manager_'  = With(manager_, n, r.info)
      /\ files'     = With(files, n, r.file)
      /\ cur_vlog_' = n
      /\ returned'  = returned \cup
           {[vlog |-> n, offset |-> kVHeaderSize, entry |-> e]}

RotateKeepsCurrent(e) ==
  LET n == cur_vlog_ + 1
  IN  /\ GetWritePos >= max_vlog_size
      /\ n \in VlogNumbers
      /\ manager_' = With(manager_, n, NewVlogInfo)
      /\ files'    = With(files, n, NoBytes)
      /\ UNCHANGED <<cur_vlog_, returned>>

\* write_value_to_vlog on a full file: FlushCurrentBuffer, ++g_vlog_number,
\* AddVlog, and the append to the new file.
RotateAndWrite(e) ==
  LET o     == cur_vlog_
      n     == cur_vlog_ + 1
      flush == FlushBuffer(manager_[o], files[o])
      r     == AddRecord(NewVlogInfo, NoBytes, e)
  IN  /\ GetWritePos >= max_vlog_size
      /\ n \in VlogNumbers
      /\ manager_'  = With([manager_ EXCEPT ![o] = flush.info], n, r.info)
      /\ files'     = With([files EXCEPT ![o] = flush.file], n, r.file)
      /\ cur_vlog_' = n
      /\ returned'  = returned \cup
           {[vlog |-> n, offset |-> kVHeaderSize, entry |-> e]}

Next == \E e \in Entries : Write(e) \/ RotateAndWrite(e)

Spec == Init /\ [][Next]_vars

-----------------------------------------------------------------------------
(* Type correctness of the VlogManager state. *)
TypeOK ==
  /\ cur_vlog_ \in VlogNumbers
  /\ manager_ \in [1 .. cur_vlog_ -> VlogInfo]
  /\ files \in [1 .. cur_vlog_ -> Chunk]
  /\ returned \subseteq Address

(***************************************************************************)
(* VlogFetcher::Get returns, for every address write_value_to_vlog ever    *)
(* returned, the entry written there: before and after the bytes move from *)
(* buffer_ to the file, before and after rotation, for records that fill   *)
(* the buffer exactly and for records larger than it.                      *)
(***************************************************************************)
ReadBack ==
  \A a \in returned :
    FetchValueFromVlog(a.vlog, a.offset, Size[a.entry]) = a.entry

(***************************************************************************)
(* The memcpy calls of VWriter::AddRecord stay inside VlogInfo::buffer_.   *)
(***************************************************************************)
BufferNeverOverruns ==
  \A n \in DOMAIN manager_ : manager_[n].buf.len <= WriteBufferSize

(***************************************************************************)
(* Before a file stops being the current one its buffer is written out, so *)
(* execute_gc_on_file, which reads the file and not the buffer, finds      *)
(* every record written to it.                                             *)
(***************************************************************************)
RotatedVlogsOnDisk ==
  \A a \in returned :
    a.vlog # cur_vlog_ => [at |-> a.offset - kVHeaderSize, entry |-> a.entry] \in files[a.vlog].recs

(***************************************************************************)
(* head_ of every VlogInfo is the length of its file: the file offset that *)
(* GetWritePos reports is the one the bytes get when they are flushed.     *)
(***************************************************************************)
HeadIsFileLength ==
  \A n \in DOMAIN manager_ : manager_[n].head = files[n].len

\* All records of the vlog, on disk or still buffered, with their addresses.
Contents ==
  UNION {{[vlog |-> n, offset |-> r.at + kVHeaderSize, entry |-> r.entry] :
            r \in Append2(files[n], manager_[n].buf).recs} : n \in DOMAIN files}

(***************************************************************************)
(* VlogManager implements the append-only log the addresses stored at the  *)
(* master rely on.                                                         *)
(***************************************************************************)
Log == INSTANCE AppendLog WITH store <- Contents

ImplementsAppendLog == Log!Spec
=============================================================================
