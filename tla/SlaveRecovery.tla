---------------------------- MODULE SlaveRecovery ----------------------------
(***************************************************************************)
(* One slave over several lives of its process: what write_value_to_vlog   *)
(* and save_vlog_meta put on disk, and what init_vlog makes of it.         *)
(*                                                                         *)
(* A life ends gracefully (shutdown_vlog) or by a crash of the process at  *)
(* any step; the files keep what was written to them.  Client commands run *)
(* on the main thread.  The GC thread moves records, removes files and     *)
(* saves VLOG_META too.  SlaveGC has its exchanges with the master one by  *)
(* one, and the number of an address read after the unlock; here a record  *)
(* is examined in one step, whatever may fail in it, and an address is     *)
(* made in one.                                                            *)
(***************************************************************************)
EXTENDS Vlog

CONSTANTS
  max_vlog_size,
  MaxVlogs,    \* bound: vlog numbers
  MaxWrites,   \* bound: records written
  MaxRestarts, \* bound: starts after the first
  MaxCrashes   \* bound: lives that end by a crash

ASSUME RecoveryAssumption ==
  /\ max_vlog_size \in Nat \ {0} /\ MaxVlogs \in Nat \ {0}
  /\ MaxWrites \in Nat /\ MaxRestarts \in Nat /\ MaxCrashes \in Nat

VlogNumbers == 1 .. MaxVlogs
Threads     == {"main", "gc"}
NoMeta      == [number |-> 0, pos |-> 0]  \* VLOG_META missing or empty

VARIABLES
  up,            \* the process runs
  manager_,      \* vlog number -> VlogInfo
  cur_vlog_,
  g_vlog_number,
  files,         \* vlog number -> bytes written to the file
  linked,        \* files in the directory
  meta,          \* VLOG_META
  pc,            \* thread -> "idle", "register", "save", "close"
  pos,           \* thread -> what save_vlog_meta got from GetWritePos
  pend,          \* addresses on their way to the master
  acked,         \* addresses the master holds
  target,        \* file execute_gc_on_file works on, 0 if none
  seen,          \* the records it has read from this file
  fresh,         \* history: addresses returned in this life
  skipped,       \* history: addresses whose record GC could not deal with
  writes, restarts, crashes

memory == <<manager_, cur_vlog_, g_vlog_number>>
counts == <<writes, restarts, crashes>>
gc     == <<target, seen, skipped>>
vars   == <<up, memory, files, linked, meta, pc, pos, pend, acked, fresh, gc, counts>>

WritePosOf(m, n) == IF n \in DOMAIN m THEN WritePos(m[n]) ELSE 0

\* VlogManager::GetWritePos
GetWritePos == WritePosOf(manager_, cur_vlog_)

Biggest(S)  == CHOOSE n \in S : \A m \in S : m <= n
Smallest(S) == CHOOSE n \in S : \A m \in S : n <= m

-----------------------------------------------------------------------------
(* init_vlog *)

\* Faulty variants: files are opened for writing from the start; the head of
\* the current vlog is not restored.
OpenedTruncated(f, n) == NoBytes
SetHeadForgotten(m, n, head) == m

\* The bytes of file n when it is opened for appending: a file that was
\* removed is created anew.
Opened(f, n) ==
  IF n \in linked THEN f[n] ELSE NoBytes

SetHead(m, n, head) == IF n \in DOMAIN m THEN [m EXCEPT ![n].head = head] ELSE m

\* With files: AddVlog for each of them, then the current vlog and its head_
\* from VLOG_META or, without it, from the size of the newest file.
Recovered(f, existing, saved) ==
  LET added == [n \in existing |-> NewVlogInfo]
      last  == Biggest(existing)
  IN  IF saved.number > 0
      THEN IF saved.pos > 0
           THEN [m |-> SetHead(added, saved.number, saved.pos),
                 cur |-> saved.number, num |-> saved.number]
           ELSE [m |-> added, cur |-> last, num |-> saved.number]
      ELSE [m |-> SetHead(added, last, f[last].len), cur |-> last, num |-> last]

\* Without files: vlog 1.
Started(f, existing, saved) ==
  IF existing = {}
  THEN [m |-> [n \in {1} |-> NewVlogInfo], cur |-> 1, num |-> 1]
  ELSE Recovered(f, existing, saved)

Init ==
  /\ up = TRUE
  /\ manager_ = [n \in {1} |-> NewVlogInfo] /\ cur_vlog_ = 1 /\ g_vlog_number = 1
  /\ files = [n \in VlogNumbers |-> NoBytes] /\ linked = {1}
  /\ meta = NoMeta
  /\ pc = [t \in Threads |-> "idle"] /\ pos = [t \in Threads |-> 0]
  /\ pend = {} /\ acked = {} /\ fresh = {}
  /\ target = 0 /\ seen = {} /\ skipped = {}
  /\ writes = 0 /\ restarts = 0 /\ crashes = 0

Start ==
  /\ ~up /\ restarts < MaxRestarts
  /\ LET s == Started(files, linked, meta)
     IN  /\ manager_' = s.m /\ cur_vlog_' = s.cur /\ g_vlog_number' = s.num
         /\ linked' = linked \cup DOMAIN s.m
         /\ files' = [n \in VlogNumbers |-> Opened(files, n)]
  /\ up' = TRUE
  /\ restarts' = restarts + 1
  /\ UNCHANGED <<meta, pc, pos, pend, acked, fresh, gc, writes, crashes>>

-----------------------------------------------------------------------------
(* write_value_to_vlog *)

\* VlogManager::AddVlog: a VlogInfo that is replaced has its buffer written.
AddVlog(m, f, n) ==
  [m |-> With(m, n, NewVlogInfo),
   f |-> [f EXCEPT ![n] = IF n \in DOMAIN m THEN Append2(@, m[n].buf) ELSE Opened(f, n)]]

\* The rotation, if it is due.
Rotated ==
  IF GetWritePos >= max_vlog_size
  THEN LET fl == FlushBuffer(manager_[cur_vlog_], files[cur_vlog_])
           a  == AddVlog([manager_ EXCEPT ![cur_vlog_] = fl.info],
                         [files EXCEPT ![cur_vlog_] = fl.file], g_vlog_number + 1)
       IN  [m |-> a.m, f |-> a.f, cur |-> g_vlog_number + 1, num |-> g_vlog_number + 1]
  ELSE [m |-> manager_, f |-> files, cur |-> cur_vlog_, num |-> g_vlog_number]

\* The address write_value_to_vlog returns for e.
AddressFor(e) ==
  [vlog |-> Rotated.num, offset |-> WritePosOf(Rotated.m, Rotated.cur) + kVHeaderSize,
   entry |-> e]

WriteValue(e) ==
  LET r == Rotated
      w == AddRecord(r.m[r.cur], r.f[r.cur], e)
  IN  /\ writes < MaxWrites /\ writes' = writes + 1
      /\ r.num \in VlogNumbers /\ r.cur \in DOMAIN r.m
      /\ manager_' = [r.m EXCEPT ![r.cur] = w.info]
      /\ files' = [r.f EXCEPT ![r.cur] = w.file]
      /\ cur_vlog_' = r.cur /\ g_vlog_number' = r.num
      /\ linked' = IF r.num > g_vlog_number THEN linked \cup {r.num} ELSE linked
      /\ fresh' = fresh \cup {AddressFor(e)}

\* PUT: the record is written, its address registered at the master, and
\* then VLOG_META saved.
Put(e) ==
  /\ up /\ pc["main"] = "idle"
  /\ WriteValue(e)
  /\ pend' = {AddressFor(e)}
  /\ pc' = [pc EXCEPT !["main"] = "register"]
  /\ UNCHANGED <<up, meta, pos, acked, gc, restarts, crashes>>

\* The new address replaces the one the key had.  When the exchange with the
\* master fails, before or after the master did its part, nothing is saved.
PutAddr ==
  /\ up /\ pc["main"] = "register"
  /\ \E p \in pend, registered, stored \in BOOLEAN :
       /\ stored => registered
       /\ acked' = IF registered THEN {a \in acked : a.entry # p.entry} \cup {p} ELSE acked
       /\ pc' = [pc EXCEPT !["main"] = IF stored THEN "save" ELSE "idle"]
  /\ pend' = {}
  /\ UNCHANGED <<up, memory, files, linked, meta, pos, fresh, gc, counts>>

-----------------------------------------------------------------------------
(* execute_gc_on_file, on the GC thread *)

\* The record of address a is in the file the address names.
RecordAt(a) == [at |-> a.offset - kVHeaderSize, entry |-> a.entry]
OnDisk(a)   == RecordAt(a) \in files[a.vlog].recs

\* The oldest file that is not the active one is opened.
GcOpen ==
  /\ up /\ pc["gc"] = "idle" /\ target = 0
  /\ \E n \in linked :
       /\ n = Smallest(linked) /\ n < g_vlog_number
       /\ target' = n
  /\ seen' = {}
  /\ UNCHANGED <<up, memory, files, linked, meta, pc, pos, pend, acked, fresh, skipped, counts>>

\* VReader::ReadRecord returns the first record behind those it returned.
Reads(r) ==
  /\ up /\ target # 0
  /\ r \in files[target].recs \ seen
  /\ \A q \in files[target].recs \ seen : r.at <= q.at
  /\ seen' = seen \cup {r} /\ target' = target

\* Faulty variant: the header is not counted.
HereWithoutHeader(r) == [vlog |-> target, offset |-> r.at, entry |-> r.entry]

\* vlog_number, this_offset and this_size of record r.
Here(r) == [vlog |-> target, offset |-> r.at + kVHeaderSize, entry |-> r.entry]

\* The addresses in A whose record is r.
Naming(A, r) == {a \in A : a.vlog = target /\ RecordAt(a) = r}

\* The master still has the record at this address: it is written to the
\* current vlog, and the master takes the new address unless UPDATE_ADDR
\* fails.
GcMove(r) ==
  /\ Reads(r) /\ Here(r) \in acked
  /\ WriteValue(r.entry)
  /\ \E updated \in BOOLEAN :
       /\ acked' = IF updated THEN (acked \ {Here(r)}) \cup {AddressFor(r.entry)} ELSE acked
       /\ skipped' = skipped \cup Naming(pend \cup (IF updated THEN {} ELSE acked), r)
  /\ UNCHANGED <<up, meta, pc, pos, pend, restarts, crashes>>

\* The record is passed over: GCGET_ADDR returns another address or none,
\* which is also so before the PUT of the record has registered it, or, when
\* `failed', GCGET_ADDR or the rewrite fails.
GcPass(r) ==
  /\ Reads(r)
  /\ \E failed \in BOOLEAN :
       /\ failed \/ Here(r) \notin acked
       /\ skipped' = skipped \cup Naming(pend \cup (IF failed THEN acked ELSE {}), r)
  /\ UNCHANGED <<up, memory, files, linked, meta, pc, pos, pend, acked, fresh, counts>>

\* The loop ends with the file or, when `early', because the process is told
\* to stop, has lost the master or cannot read on.  The file is removed if any
\* record was counted, and VLOG_META is saved next.  The VlogInfo stays in
\* manager_.
GcRemove ==
  /\ up /\ target # 0
  /\ \E early \in BOOLEAN :
       /\ early \/ files[target].recs \subseteq seen
       /\ skipped' = IF early /\ seen # {}
                     THEN skipped \cup {a \in acked \cup pend : a.vlog = target}
                     ELSE skipped
  /\ linked' = IF seen # {} THEN linked \ {target} ELSE linked
  /\ target' = 0 /\ seen' = {}
  /\ pc' = [pc EXCEPT !["gc"] = "save"]
  /\ UNCHANGED <<up, memory, files, meta, pos, pend, acked, fresh, counts>>

-----------------------------------------------------------------------------
(* save_vlog_meta: the position is taken, the file opened and truncated;  *)
(* then the number is taken and the file written.  No lock is held.       *)

SaveOpen(t) ==
  /\ up /\ pc[t] = "save"
  /\ pos' = [pos EXCEPT ![t] = GetWritePos]
  /\ meta' = NoMeta
  /\ pc' = [pc EXCEPT ![t] = "close"]
  /\ UNCHANGED <<up, memory, files, linked, pend, acked, fresh, gc, counts>>

SaveClose(t) ==
  /\ up /\ pc[t] = "close"
  /\ meta' = [number |-> g_vlog_number, pos |-> pos[t]]
  /\ pos' = [pos EXCEPT ![t] = 0]
  /\ pc' = [pc EXCEPT ![t] = "idle"]
  /\ UNCHANGED <<up, memory, files, linked, pend, acked, fresh, gc, counts>>

-----------------------------------------------------------------------------
\* The end of a life: nothing of the memory is left.
Dead ==
  /\ up' = FALSE
  /\ manager_' = [n \in {} |-> NewVlogInfo] /\ cur_vlog_' = 0 /\ g_vlog_number' = 0
  /\ pc' = [t \in Threads |-> "idle"] /\ pos' = [t \in Threads |-> 0]
  /\ pend' = {} /\ fresh' = {}
  /\ target' = 0 /\ seen' = {} /\ skipped' = skipped

\* shutdown_vlog, after the GC thread was joined: VLOG_META is saved, and the
\* destructor of VlogManager writes the buffer of the current vlog.
Shutdown ==
  /\ up /\ target = 0 /\ \A t \in Threads : pc[t] = "idle"
  /\ meta' = [number |-> g_vlog_number, pos |-> GetWritePos]
  /\ files' = IF cur_vlog_ \in DOMAIN manager_
              THEN [files EXCEPT ![cur_vlog_] = Append2(@, manager_[cur_vlog_].buf)]
              ELSE files
  /\ Dead
  /\ UNCHANGED <<linked, acked, counts>>

\* The process dies; a write without a current VlogInfo is one way to die.
Crash ==
  /\ up /\ crashes < MaxCrashes
  /\ Dead
  /\ crashes' = crashes + 1
  /\ UNCHANGED <<files, linked, meta, acked, writes, restarts>>

Next ==
  \/ Start \/ Shutdown \/ Crash
  \/ \E e \in Entries : Put(e)
  \/ PutAddr
  \/ GcOpen \/ GcRemove
  \/ target # 0 /\ \E r \in files[target].recs : GcMove(r) \/ GcPass(r)
  \/ \E t \in Threads : SaveOpen(t) \/ SaveClose(t)

Spec == Init /\ [][Next]_vars

-----------------------------------------------------------------------------
\* FetchValueFromVlog returns the entry written at address a.
ReadsBack(a) ==
  a.vlog \in DOMAIN manager_
    /\ Get(manager_[a.vlog], files[a.vlog], a.offset, Size[a.entry]) = a.entry

(***************************************************************************)
(* As long as the process never crashes, a stopped slave has on disk, at   *)
(* the address the master holds, every value that was stored and that GC   *)
(* could deal with: the records GC moved, the buffer written by the        *)
(* destructor, the positions saved in VLOG_META and the heads restored     *)
(* from it fit together over any number of restarts.  GC removes a file    *)
(* with values that are still needed when the loop over it ends early,     *)
(* when it skips a record because an exchange with the master or the       *)
(* rewrite fails, and when it reads a record before its PUT has registered *)
(* it; those addresses are in `skipped'.                                   *)
(***************************************************************************)
StoppedHasAllOnDisk ==
  crashes = 0 /\ ~up => \A a \in acked \ skipped : a.vlog \in linked /\ OnDisk(a)

(***************************************************************************)
(* As long as the process never crashes, the values of the current vlog    *)
(* and those written since the start can be read, whether they were        *)
(* written before or after the restart.                                    *)
(***************************************************************************)
CurrentReadable ==
  crashes = 0 /\ up => \A a \in acked \cup fresh :
    a.vlog = cur_vlog_ \/ a \in fresh => ReadsBack(a)

(***************************************************************************)
(* No start, rotation, save or crash takes a record out of a file that     *)
(* stays in the directory, not even when VLOG_META is stale.               *)
(***************************************************************************)
RecordsStayInFiles ==
  [][\A n \in linked \cap linked' : files[n].recs \subseteq files'[n].recs]_vars

(***************************************************************************)
(* After a graceful stop, signalled by the message that the database was   *)
(* closed safely, and a restart, every stored value can be read.           *)
(***************************************************************************)
RestartReadsAll ==
  crashes = 0 /\ up => \A a \in acked : ReadsBack(a)
=============================================================================
