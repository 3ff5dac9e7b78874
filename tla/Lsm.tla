-------------------------------- MODULE Lsm --------------------------------
(***************************************************************************)
(* The LSM tree (DBImpl and VersionSet) as the master uses it: without a   *)
(* log, so that only flushed memtables survive.  The threads are a writer, *)
(* a caller of CompactRange, a reader and the background thread.  A step   *)
(* runs from where a thread has taken mutex_ to where it releases it or    *)
(* waits; "bg" says where the background thread is, "idle" being           *)
(* !background_compaction_scheduled_.                                      *)
(***************************************************************************)
EXTENDS VersionSet

CONSTANTS
  NumKeys,
  Calls,                     \* what the writer may write: pairs of a key and a type
  WriteBufferSize,           \* a memtable with more entries is full ...
  LongKeys,                  \* ... and so is one with one of these keys
  kL0_CompactionTrigger, kL0_StopWritesTrigger,
  MaxWrites, MaxCompactRanges,
  MaxEvents                  \* snapshots, reads, errors and stops

ASSUME LsmAssumption ==
  /\ {NumKeys, WriteBufferSize, kL0_CompactionTrigger, kL0_StopWritesTrigger} \subseteq Nat
  /\ LongKeys \subseteq 1 .. NumKeys
  /\ Calls \subseteq (1 .. NumKeys) \X {"value", "deletion"}
  /\ 0 < kL0_CompactionTrigger /\ kL0_CompactionTrigger <= kL0_StopWritesTrigger
  /\ MaxWrites \in Nat /\ MaxWrites <= kMaxSequenceNumber

Keys == 1 .. NumKeys

VARIABLES
  mem, imm, has_imm, current, last_sequence, next_file,
  manifest,         \* what MANIFEST says: files, last_sequence, next_file
  disk,             \* numbers of the table files that exist
  bg, flush, edit, compact, doomed, pending_outputs,
  manual,           \* manual_compaction_: is it set
  caller,           \* the call of CompactRange, with its ManualCompaction
  writer,           \* the call of PutAddress or DeleteKey that waits
  asleep,           \* who waits for background_work_finished_signal_
  reader, snapshots,
  up, shutting_down, bg_error,
  log,              \* history: the entries written and not lost
  safe,             \* history: the sequence number up to which they are on disk
  blame,            \* history: hazards met
  writes, ranges, events    \* bounds

tree    == <<mem, imm, has_imm, current, last_sequence, next_file>>
durable == <<manifest, disk>>
work    == <<flush, edit, compact, doomed, pending_outputs>>
calls   == <<manual, caller, writer, asleep>>
views   == <<reader, snapshots>>
life    == <<up, shutting_down, bg_error>>
used    == <<writes, ranges, events>>
hist    == <<log, safe, blame, used>>
vars    == <<tree, durable, bg, work, calls, views, life, hist>>

NoVersion == [l \in Levels |-> {}]
NoFlush   == 0
NoEdit    == [level |-> 0, in0 |-> {}, in1 |-> {}, to |-> 0, add |-> {}, last |-> 0, next |-> 0]
NoCompact == [on |-> FALSE, manual |-> FALSE, level |-> 0, in0 |-> {}, in1 |-> {},
              version |-> NoVersion, rest |-> {}, outputs |-> {}]
NoCaller  == [pc |-> "idle", level |-> 0, max |-> 0, begin |-> 1, done |-> FALSE, mark |-> 0]
NoWriter  == [on |-> FALSE, key |-> 1, type |-> "value"]
NoReader  == [on |-> FALSE, files |-> {}]

Note(what, cond) == blame' = IF cond THEN blame \cup {what} ELSE blame

Event == events < MaxEvents /\ events' = events + 1 /\ UNCHANGED <<writes, ranges>>

-----------------------------------------------------------------------------
(* Reading *)

\* DBImpl::GetAddress: the memtable, the immutable one, then the files.
Hit(m, i, v, k, s) ==
  LET inMem == Seek(m, k, s)
      inImm == Seek(i, k, s)
  IN IF inMem # {} THEN inMem ELSE IF inImm # {} THEN inImm ELSE VersionGet(v, k, s)

\* The address in what was found, as a set with at most one element.
Address(found) == {e.seq : e \in {e \in found : e.type = "value"}}

Lookup(m, i, v, k, s) == Address(Hit(m, i, v, k, s))

Numbers(v) == {f.number : f \in UNION {v[l] : l \in Levels}}

-----------------------------------------------------------------------------
(* Scheduling *)

\* Whether a level is too large or a file was read in vain too often depends
\* on bytes and seeks; the number of files on level 0 is decisive.
MustCompact(v) == Cardinality(v[0]) >= kL0_CompactionTrigger
MayCompact(v)  == \E l \in 0 .. kNumLevels - 2 : v[l] # {}

MaybeScheduleCompaction(b, has, man, v, error) ==
  IF b # "idle" THEN {b}
  ELSE IF shutting_down \/ error THEN {"idle"}
  ELSE IF has \/ man \/ MustCompact(v) THEN {"scheduled"}
  ELSE IF MayCompact(v) THEN {"idle", "scheduled"} ELSE {"idle"}

-----------------------------------------------------------------------------
(* The writer: PutAddress and DeleteKey.  The millisecond that a write is   *)
(* held up when level 0 fills is as if it came later.                      *)

HasRoom  == Cardinality(mem) <= WriteBufferSize /\ \A e \in mem : e.key \notin LongKeys
MustWait == ~HasRoom /\ (has_imm \/ Cardinality(current[0]) >= kL0_StopWritesTrigger)

NextSequence == last_sequence + 1

Add(k, type) ==
  LET e == [key |-> k, seq |-> NextSequence, type |-> type]
  IN /\ ~bg_error /\ ~MustWait
     /\ IF HasRoom THEN mem' = mem \cup {e} /\ UNCHANGED <<imm, has_imm, bg>>
        ELSE /\ mem' = {e} /\ imm' = mem /\ has_imm' = TRUE
             /\ bg' \in MaybeScheduleCompaction(bg, TRUE, manual, current, FALSE)
     /\ last_sequence' = NextSequence
     /\ log' = log \cup {e}
     /\ UNCHANGED <<current, next_file, durable, work, views, life, manual, caller, safe, blame>>

Write(k, type) ==
  /\ up /\ ~shutting_down /\ ~writer.on /\ ~bg_error
  /\ writes < MaxWrites /\ writes' = writes + 1 /\ UNCHANGED <<ranges, events>>
  /\ \/ Add(k, type) /\ UNCHANGED <<writer, asleep>>
     \/ /\ MustWait
        /\ writer' = [on |-> TRUE, key |-> k, type |-> type]
        /\ asleep' = asleep \cup {"writer"}
        /\ UNCHANGED <<tree, durable, bg, work, views, life, manual, caller, log, safe, blame>>

WriterWakes ==
  /\ writer.on /\ "writer" \notin asleep
  /\ \/ /\ Add(writer.key, writer.type) /\ writer' = NoWriter /\ UNCHANGED <<asleep, used>>
     \/ /\ bg_error \/ MustWait
        /\ IF bg_error THEN writer' = NoWriter /\ UNCHANGED asleep
           ELSE asleep' = asleep \cup {"writer"} /\ UNCHANGED writer
        /\ UNCHANGED <<tree, durable, bg, work, views, life, manual, caller, hist>>

-----------------------------------------------------------------------------
(* Snapshots and readers.  A reader (GetAddress, an iterator) pins the      *)
(* memtables and the version it reads; nothing in them changes at its       *)
(* sequence number, so what matters is that the files stay.                 *)

GetSnapshot ==
  /\ up /\ ~shutting_down
  /\ last_sequence \notin snapshots /\ Event
  /\ snapshots' = snapshots \cup {last_sequence}
  /\ UNCHANGED <<tree, durable, bg, work, calls, reader, life, log, safe, blame>>

ReleaseSnapshot(s) ==
  /\ up /\ snapshots' = snapshots \ {s}
  /\ UNCHANGED <<tree, durable, bg, work, calls, reader, life, hist>>

BeginRead ==
  /\ up /\ ~shutting_down /\ ~reader.on /\ Event
  /\ reader' = [on |-> TRUE, files |-> Numbers(current)]
  /\ UNCHANGED <<tree, durable, bg, work, calls, snapshots, life, log, safe, blame>>

\* UpdateStats may have found a file that is worth compacting.
EndRead ==
  /\ reader.on /\ reader' = NoReader
  /\ bg' \in MaybeScheduleCompaction(bg, has_imm, manual, current, bg_error) \cup {bg}
  /\ UNCHANGED <<tree, durable, work, calls, snapshots, life, hist>>

-----------------------------------------------------------------------------
(* CompactRange(nullptr, nullptr), called by COMPACT and when the master stops *)

CompactRange ==
  /\ up /\ ~shutting_down /\ caller.pc = "idle"
  /\ ranges < MaxCompactRanges /\ ranges' = ranges + 1 /\ UNCHANGED <<writes, events>>
  /\ LET with == {l \in 1 .. kNumLevels - 1 : OverlapInLevel(current, l, 1, NumKeys)}
     IN caller' = [NoCaller EXCEPT !.pc = "force",
                     !.max = CHOOSE m \in with \cup {1} : \A l \in with : l <= m]
  /\ UNCHANGED <<tree, durable, bg, work, views, life, manual, writer, asleep, log, safe, blame>>

Awake(pc) == caller.pc = pc /\ "caller" \notin asleep

CallerSleeps == asleep' = asleep \cup {"caller"} /\ UNCHANGED caller

\* TEST_CompactMemTable: Write(nullptr) forces a new memtable, even if the
\* current one is empty ...
ForceSwitch ==
  /\ Awake("force")
  /\ \/ /\ bg_error
        /\ caller' = [caller EXCEPT !.pc = "level"]
        /\ UNCHANGED <<tree, bg, asleep>>
     \/ /\ ~bg_error /\ (has_imm \/ Cardinality(current[0]) >= kL0_StopWritesTrigger)
        /\ CallerSleeps /\ UNCHANGED <<tree, bg>>
     \/ /\ ~bg_error /\ ~has_imm /\ Cardinality(current[0]) < kL0_StopWritesTrigger
        /\ imm' = mem /\ has_imm' = TRUE /\ mem' = {}
        /\ bg' \in MaybeScheduleCompaction(bg, TRUE, manual, current, FALSE)
        /\ caller' = [caller EXCEPT !.pc = "imm", !.mark = last_sequence]
        /\ UNCHANGED <<current, last_sequence, next_file, asleep>>
  /\ UNCHANGED <<durable, work, views, life, manual, writer, hist>>

AwaitFlushReturns ==
  /\ Awake("imm")
  /\ caller' = [caller EXCEPT !.pc = "level"]
  /\ UNCHANGED <<tree, durable, bg, work, views, life, manual, writer, asleep, hist>>

\* ... and then waits until it is flushed.
AwaitFlush ==
  /\ Awake("imm")
  /\ IF has_imm /\ ~bg_error THEN CallerSleeps
     ELSE caller' = [caller EXCEPT !.pc = "level"] /\ UNCHANGED asleep
  /\ UNCHANGED <<tree, durable, bg, work, views, life, manual, writer, hist>>

\* TEST_CompactRange for one level after the other.  After an error the
\* request is withdrawn, even if the background thread is working on it.
CompactLevel ==
  /\ Awake("level")
  /\ \/ /\ caller.done \/ bg_error
        /\ caller' = IF caller.level + 1 < caller.max
                     THEN [caller EXCEPT !.level = @ + 1, !.begin = 1, !.done = FALSE]
                     ELSE NoCaller
        /\ manual' = FALSE /\ UNCHANGED <<bg, asleep>>
     \/ /\ ~caller.done /\ ~bg_error
        /\ manual' = TRUE
        /\ bg' \in IF manual THEN {bg}
                   ELSE MaybeScheduleCompaction(bg, has_imm, TRUE, current, FALSE)
        /\ CallerSleeps
  /\ UNCHANGED <<tree, durable, work, views, life, writer, hist>>

-----------------------------------------------------------------------------
(* The background thread *)

FinishUnsignalled(man, v, has, error) ==
  /\ UNCHANGED asleep
  /\ bg' \in MaybeScheduleCompaction("idle", has, man, v, error)

\* BackgroundCall's end.
Finish(man, v, has, error) ==
  /\ asleep' = {}
  /\ bg' \in MaybeScheduleCompaction("idle", has, man, v, error)

\* What follows CompactMemTable: the end, or the compaction that it interrupted.
AfterFlush(has, v, error) ==
  IF compact.on THEN bg' = "merge" /\ asleep' = {} ELSE Finish(manual, v, has, error)

\* BackgroundCompaction's end: the range left to a manual compaction is noted
\* and the request taken back.
AfterCompaction(ok, v, error) ==
  IF compact.manual
  THEN /\ manual' = FALSE
       /\ caller' = [caller EXCEPT !.done = @ \/ ~ok,
                       !.begin = IF ok /\ ~caller.done THEN LastFile(compact.in0).largest.key ELSE @]
       /\ Finish(FALSE, v, has_imm, error)
  ELSE Finish(manual, v, has_imm, error) /\ UNCHANGED <<manual, caller>>

\* No work after an error or when the database is being closed.
SkipWork ==
  /\ bg = "scheduled" /\ (bg_error \/ shutting_down)
  /\ Finish(manual, current, has_imm, bg_error)
  /\ UNCHANGED <<tree, durable, work, views, life, manual, caller, writer, hist>>

\* CompactMemTable, at the start or between two keys of a compaction.
BeginFlush ==
  /\ has_imm /\ ~shutting_down
  /\ (bg = "scheduled" /\ ~bg_error) \/ bg = "merge"
  /\ bg' = "build" /\ flush' = next_file /\ next_file' = next_file + 1
  /\ pending_outputs' = pending_outputs \cup {next_file}
  /\ Note("retry", bg_error)
  /\ UNCHANGED <<mem, imm, has_imm, current, last_sequence, durable, edit, compact, doomed,
                 calls, views, life, log, safe, used>>

LogEdit(l, in0, in1, to, add, next) ==
  edit' = [level |-> l, in0 |-> in0, in1 |-> in1, to |-> to, add |-> add,
           last |-> last_sequence, next |-> next]

\* A memtable that is put inside the range of a running compaction, on the
\* level of its outputs.
FillsGap(l, lo, hi) ==
  /\ compact.on /\ l = compact.level + 1
  /\ lo <= HighKey(compact.in0 \cup compact.in1) /\ hi >= LowKey(compact.in0 \cup compact.in1)

\* WriteLevel0Table; an empty memtable leaves no file.
BuildTable ==
  /\ bg = "build" /\ ~shutting_down
  /\ bg' = "logflush" /\ pending_outputs' = pending_outputs \ {flush}
  /\ IF imm = {}
     THEN LogEdit(0, {}, {}, 0, {}, next_file) /\ UNCHANGED <<disk, blame>>
     ELSE /\ disk' = disk \cup {flush}
          /\ \E l \in PickLevelForMemTableOutput(current, First(imm).key, Last(imm).key) :
               /\ LogEdit(0, {}, {}, l, {Table(flush, imm)}, next_file)
               /\ Note("gap", FillsGap(l, First(imm).key, Last(imm).key))
  /\ UNCHANGED <<tree, manifest, flush, compact, doomed, calls, views, life, log, safe, used>>

\* The error is recorded and the immutable memtable kept.
FailBuild ==
  /\ bg = "build"
  /\ pending_outputs' = pending_outputs \ {flush} /\ flush' = NoFlush
  /\ bg_error' = TRUE /\ AfterFlush(TRUE, current, TRUE)
  /\ UNCHANGED <<tree, manifest, edit, compact, doomed, manual, caller, writer, views, up,
                 shutting_down, log, safe, blame>>

BuildFails == Event /\ FailBuild /\ UNCHANGED disk

\* "Deleting DB during memtable compaction"
BuildTooLate ==
  /\ shutting_down /\ FailBuild
  /\ disk' = IF imm = {} THEN disk ELSE disk \cup {flush}
  /\ UNCHANGED used

Apply(v) == Applied(v, edit.level, edit.in0, edit.in1, edit.to, edit.add)

WriteManifest ==
  manifest' = [files |-> Apply(manifest.files), last |-> edit.last, next |-> edit.next]

\* With the immutable memtable on disk only the current one can be lost.
FlushIsDurable ==
  safe' = IF imm = {} THEN safe ELSE CHOOSE s \in {e.seq : e \in imm} : \A e \in imm : e.seq <= s

ObsoleteOutputs(files, v, held, pending) ==
  IF bg_error THEN {} ELSE files \ (Numbers(v) \cup held)

\* RemoveObsoleteFiles; v is the new current version, "held" are the others.
Obsolete(files, v, held, pending) ==
  IF bg_error THEN {} ELSE files \ (pending \cup Numbers(v) \cup held)

HeldByCompaction == IF compact.on THEN Numbers(compact.version) ELSE {}

LogFlush ==
  /\ bg = "logflush"
  /\ WriteManifest /\ current' = Apply(current)
  /\ has_imm' = FALSE /\ imm' = {}
  /\ doomed' = Obsolete(disk, Apply(current), reader.files \cup HeldByCompaction, pending_outputs)
  /\ IF bg_error THEN AfterFlush(FALSE, Apply(current), TRUE)
     ELSE bg' = "unlinkflush" /\ UNCHANGED asleep
  /\ flush' = NoFlush /\ edit' = NoEdit /\ FlushIsDurable
  /\ UNCHANGED <<mem, last_sequence, next_file, disk, compact, pending_outputs, manual, caller,
                 writer, views, life, log, blame, used>>

\* LogAndApply fails: whether the record will be read later is open.
LogFlushFails ==
  /\ bg = "logflush" /\ Event
  /\ UNCHANGED <<manifest, safe>> \/ (WriteManifest /\ FlushIsDurable)
  /\ flush' = NoFlush /\ edit' = NoEdit
  /\ bg_error' = TRUE /\ AfterFlush(TRUE, current, TRUE)
  /\ UNCHANGED <<tree, disk, compact, doomed, pending_outputs, manual, caller, writer, views,
                 up, shutting_down, log, blame>>

UnlinkAfterFlush ==
  /\ bg = "unlinkflush" /\ disk' = disk \ doomed /\ doomed' = {}
  /\ AfterFlush(has_imm, current, bg_error)
  /\ UNCHANGED <<tree, manifest, flush, edit, compact, pending_outputs, manual, caller, writer,
                 views, life, hist>>

-----------------------------------------------------------------------------
(* Compactions *)

smallest_snapshot ==
  IF snapshots = {} THEN last_sequence
  ELSE CHOOSE s \in snapshots : \A o \in snapshots : s <= o

\* A deletion that a snapshot may read is dropped although an older entry
\* stays on the same level.
DropsTooEarly(S, l, in1) ==
  \E e \in S \ Survivors(S, current, l, smallest_snapshot) :
     /\ e.type = "deletion"
     /\ ~\E o \in S : o.key = e.key /\ o.seq > e.seq /\ o.seq <= smallest_snapshot
     /\ \E o \in Entries(current[l + 1] \ in1) : o.key = e.key /\ o.seq < e.seq

\* DoCompactionWork up to the release of the mutex.
BeginMerge(man, l, in) ==
  LET S == Entries(in[1] \cup in[2])
  IN /\ bg' = "merge"
     /\ compact' = [on |-> TRUE, manual |-> man, level |-> l, in0 |-> in[1], in1 |-> in[2],
                    version |-> current, outputs |-> {},
                    rest |-> Survivors(S, current, l, smallest_snapshot)]
     /\ Note("split", DropsTooEarly(S, l, in[2]))
     /\ UNCHANGED edit

IsTrivialMove(in) == Cardinality(in[1]) = 1 /\ in[2] = {}

PickedAlone(l, f) == {f}

\* On level 0 the files that overlap the one picked come along.
Picked(l, f) ==
  IF l = 0 THEN GetOverlappingInputs(current, 0, f.smallest.key, f.largest.key) ELSE {f}

\* The pointer of a size compaction and the seeks of the others are left
\* out: any file may be the one that is picked.
PickCompaction ==
  /\ bg = "scheduled" /\ ~bg_error /\ ~shutting_down /\ ~has_imm /\ ~manual
  /\ \E l \in 0 .. kNumLevels - 2 : \E f \in current[l] :
     \E in \in SetupOtherInputs(current, l, Picked(l, f)) :
       \/ /\ IsTrivialMove(in)
          /\ bg' = "logmove"
          /\ LogEdit(l, in[1], {}, l + 1, in[1], next_file)
          /\ UNCHANGED <<compact, blame>>
       \/ /\ ~IsTrivialMove(in) \/ Grandparents(current, l, in[1]) # {}
          /\ BeginMerge(FALSE, l, in)
  /\ UNCHANGED <<tree, durable, flush, doomed, pending_outputs, calls, views, life, log, safe, used>>

NothingToCompact ==
  /\ bg = "scheduled" /\ ~bg_error /\ ~shutting_down /\ ~has_imm /\ ~manual
  /\ ~MustCompact(current)
  /\ bg' = "idle" /\ asleep' = {}
  /\ UNCHANGED <<tree, durable, work, manual, caller, writer, views, life, hist>>

\* VersionSet::CompactRange: on the levels below 0 a limit on the bytes may
\* leave only the first files of the range.
ManualCompaction ==
  LET in == GetOverlappingInputs(current, caller.level, caller.begin, NumKeys)
  IN /\ bg = "scheduled" /\ ~bg_error /\ ~shutting_down /\ ~has_imm /\ manual
     /\ \/ /\ in = {}
           /\ caller' = [caller EXCEPT !.done = TRUE] /\ manual' = FALSE
           /\ Finish(FALSE, current, FALSE, FALSE)
           /\ UNCHANGED <<edit, compact, blame>>
        \/ \E part \in SUBSET in :
             /\ part # {} /\ (caller.level = 0 => part = in)
             /\ \A f \in part, g \in in \ part : BySmallestKey(f, g)
             /\ \E both \in SetupOtherInputs(current, caller.level, part) :
                  BeginMerge(TRUE, caller.level, both)
             /\ UNCHANGED <<manual, caller, asleep>>
     /\ UNCHANGED <<tree, durable, flush, doomed, pending_outputs, writer, views, life, log, safe, used>>

LogMove ==
  /\ bg = "logmove" /\ WriteManifest /\ current' = Apply(current) /\ edit' = NoEdit
  /\ Finish(manual, Apply(current), has_imm, FALSE)
  /\ UNCHANGED <<mem, imm, has_imm, last_sequence, next_file, disk, flush, compact, doomed,
                 pending_outputs, manual, caller, writer, views, life, hist>>

LogMoveFails ==
  /\ bg = "logmove" /\ Event
  /\ UNCHANGED manifest \/ WriteManifest
  /\ edit' = NoEdit /\ bg_error' = TRUE /\ Finish(manual, current, has_imm, TRUE)
  /\ UNCHANGED <<tree, disk, flush, compact, doomed, pending_outputs, manual, caller, writer,
                 views, up, shutting_down, log, safe, blame>>

\* One output file.  It may end anywhere, even between two entries of a key:
\* the limits are bytes, its own and those of the files two levels below.
MergeOutput ==
  /\ bg = "merge" /\ ~shutting_down
  /\ \E out \in SUBSET compact.rest :
       LET file == Table(next_file, out)
       IN /\ out # {} \/ compact.rest = {}
          /\ \A e \in out, o \in compact.rest \ out : Before(e, o)
          /\ IF out = {} THEN UNCHANGED <<disk, next_file, pending_outputs, compact>>
             ELSE /\ disk' = disk \cup {next_file} /\ next_file' = next_file + 1
                  /\ pending_outputs' = pending_outputs \cup {next_file}
                  /\ compact' = [compact EXCEPT !.rest = @ \ out, !.outputs = @ \cup {file}]
          /\ IF out = compact.rest
             THEN /\ bg' = "logcompact"
                  /\ LogEdit(compact.level, compact.in0, compact.in1, compact.level + 1,
                             compact'.outputs, next_file')
             ELSE UNCHANGED <<bg, edit>>
  /\ UNCHANGED <<mem, imm, has_imm, current, last_sequence, manifest, flush, doomed, calls,
                 views, life, hist>>

\* CleanupCompaction and the end, after an error.
AbandonCompaction ==
  /\ pending_outputs' = pending_outputs \ {f.number : f \in compact.outputs}
  /\ compact' = NoCompact /\ edit' = NoEdit /\ bg_error' = TRUE
  /\ AfterCompaction(FALSE, current, TRUE)
  /\ UNCHANGED <<tree, disk, flush, doomed, writer, views, up, shutting_down, log, safe, blame>>

MergeFails ==
  /\ bg = "merge" /\ (compact.manual => manual) /\ Event
  /\ AbandonCompaction /\ UNCHANGED manifest

\* "Deleting DB during compaction"
MergeTooLate ==
  /\ bg = "merge" /\ (compact.manual => manual) /\ shutting_down
  /\ AbandonCompaction /\ UNCHANGED <<manifest, used>>

\* InstallCompactionResults, CleanupCompaction and ReleaseInputs.
LogCompaction ==
  /\ bg = "logcompact" /\ bg' = "unlink"
  /\ WriteManifest /\ current' = Apply(current) /\ edit' = NoEdit
  /\ pending_outputs' = pending_outputs \ {f.number : f \in compact.outputs}
  /\ compact' = [compact EXCEPT !.on = FALSE, !.version = NoVersion, !.outputs = {}, !.in1 = {}]
  /\ doomed' = Obsolete(disk, Apply(current), reader.files, pending_outputs')
  /\ UNCHANGED <<mem, imm, has_imm, last_sequence, next_file, disk, flush, calls, views, life, hist>>

LogCompactionFails ==
  /\ bg = "logcompact" /\ Event /\ (compact.manual => manual)
  /\ UNCHANGED manifest \/ WriteManifest
  /\ AbandonCompaction

UnlinkAfterCompaction ==
  /\ bg = "unlink" /\ (compact.manual => manual)
  /\ disk' = disk \ doomed /\ doomed' = {} /\ compact' = NoCompact
  /\ AfterCompaction(TRUE, current, bg_error)
  /\ UNCHANGED <<tree, manifest, flush, edit, pending_outputs, writer, views, life, hist>>

-----------------------------------------------------------------------------
(* Opening and closing *)

Stop ==
  /\ up' = FALSE /\ shutting_down' = FALSE /\ bg_error' = FALSE
  /\ mem' = {} /\ imm' = {} /\ has_imm' = FALSE /\ current' = NoVersion
  /\ last_sequence' = 0 /\ next_file' = 0
  /\ bg' = "idle" /\ flush' = NoFlush /\ edit' = NoEdit /\ compact' = NoCompact
  /\ doomed' = {} /\ pending_outputs' = {}
  /\ manual' = FALSE /\ caller' = NoCaller /\ writer' = NoWriter /\ asleep' = {}
  /\ reader' = NoReader /\ snapshots' = {}
  /\ log' = {e \in log : e.seq <= safe} /\ UNCHANGED <<durable, safe>>

\* Between any two steps; a record of MANIFEST or a table may just be written.
Crash ==
  /\ up /\ Event
  /\ Stop /\ UNCHANGED blame

\* The background thread is where it follows manual_compaction_, which the
\* caller has set to null.
AtNull ==
  compact.manual /\ ~manual /\ bg \in {"unlink"} \cup (IF shutting_down THEN {"merge"} ELSE {})

CrashOnNull == AtNull /\ Stop /\ blame' = blame \cup {"null"} /\ UNCHANGED used

\* ~DBImpl: no more background work is begun, and what runs is waited for.
Close ==
  /\ up /\ ~shutting_down /\ caller.pc = "idle" /\ ~writer.on /\ ~reader.on /\ snapshots = {}
  /\ Event /\ shutting_down' = TRUE
  /\ UNCHANGED <<tree, durable, bg, work, calls, views, up, bg_error, log, safe, blame>>

Closed == shutting_down /\ bg = "idle" /\ Stop /\ UNCHANGED <<blame, used>>

\* VersionSet::Recover: the edits of MANIFEST; the number in it names the next
\* MANIFEST.
RecoverVersions ==
  /\ current' = manifest.files /\ last_sequence' = manifest.last
  /\ next_file' = manifest.next + 1

\* DBImpl::Recover: a file that is missing is an error.  There are no logs.
Recover == Numbers(manifest.files) \subseteq disk /\ RecoverVersions

\* DB::Open: the new MANIFEST, and no file that it does not name.
Open ==
  /\ ~up /\ Recover /\ up' = TRUE
  /\ manifest' = [manifest EXCEPT !.next = next_file']
  /\ disk' = Numbers(manifest.files)
  /\ bg' \in MaybeScheduleCompaction("idle", FALSE, FALSE, manifest.files, FALSE)
  /\ UNCHANGED <<mem, imm, has_imm, work, calls, views, shutting_down, bg_error, hist>>

Init ==
  /\ mem = {} /\ imm = {} /\ has_imm = FALSE /\ current = NoVersion
  /\ last_sequence = 0 /\ next_file = 3
  /\ manifest = [files |-> NoVersion, last |-> 0, next |-> 3] /\ disk = {}
  /\ bg = "idle" /\ flush = NoFlush /\ edit = NoEdit /\ compact = NoCompact
  /\ doomed = {} /\ pending_outputs = {}
  /\ manual = FALSE /\ caller = NoCaller /\ writer = NoWriter /\ asleep = {}
  /\ reader = NoReader /\ snapshots = {}
  /\ up = TRUE /\ shutting_down = FALSE /\ bg_error = FALSE
  /\ log = {} /\ safe = 0 /\ blame = {} /\ writes = 0 /\ ranges = 0 /\ events = 0

Background ==
  \/ SkipWork \/ BeginFlush \/ BuildTable \/ BuildTooLate \/ LogFlush \/ UnlinkAfterFlush
  \/ NothingToCompact \/ PickCompaction \/ ManualCompaction \/ LogMove
  \/ MergeOutput \/ MergeTooLate \/ LogCompaction \/ UnlinkAfterCompaction \/ CrashOnNull

Faults ==
  BuildFails \/ LogFlushFails \/ LogMoveFails \/ MergeFails \/ LogCompactionFails

Callers == WriterWakes \/ ForceSwitch \/ AwaitFlush \/ CompactLevel \/ Closed

Next ==
  \/ \E c \in Calls : Write(c[1], c[2])
  \/ GetSnapshot \/ \E s \in snapshots : ReleaseSnapshot(s)
  \/ BeginRead \/ EndRead
  \/ CompactRange \/ Callers
  \/ Background \/ Faults
  \/ Crash \/ Close \/ Open

Spec == Init /\ [][Next]_vars

\* The threads are scheduled; nothing is assumed of errors, crashes and calls.
\* The second conjunct is WF_vars(Background), which is enabled unless idle.
FairSpec ==
  /\ Spec
  /\ []<>(bg = "idle") \/ []<><<Background>>_vars
  /\ WF_vars(WriterWakes) /\ WF_vars(ForceSwitch \/ AwaitFlush \/ CompactLevel) /\ WF_vars(Closed)

-----------------------------------------------------------------------------
(* Properties *)

Expected(S, k, s) == Address(Seek(S, k, s))

(* GetAddress finds what was last written, and with a snapshot what was    *)
(* written before it, whatever is flushed and compacted meanwhile; a       *)
(* restart at any moment finds what was flushed, without the log that the  *)
(* master does not have.  Not so after a memtable was put into the gap of  *)
(* a manual compaction, or after a deletion was dropped before the entry   *)
(* it hides.                                                               *)
ReadsAgree ==
  blame \cap {"gap", "split"} = {} =>
  \A k \in Keys :
    /\ up => \A s \in snapshots \cup {last_sequence} :
               Lookup(mem, imm, current, k, s) = Expected(log, k, s)
    /\ Lookup({}, {}, manifest.files, k, manifest.last)
         = Expected({e \in log : e.seq <= safe}, k, manifest.last)

Disjoint(v) ==
  \A l \in Levels \ {0} : \A f, g \in v[l] :
     f = g \/ Before(f.largest, g.smallest) \/ Before(g.largest, f.smallest)

(* The files of a level other than 0 do not overlap, in memory and after   *)
(* a restart ("Must not overlap", version_set.cc), which the binary search *)
(* in FindFile relies on.  A memtable flushed into a gap of a manual       *)
(* compaction breaks it, and so does a flush that is repeated although the *)
(* MANIFEST record that seemed to fail is there.                           *)
LevelsDisjoint ==
  blame \cap {"gap", "retry"} = {} => Disjoint(current) /\ Disjoint(manifest.files)

\* The parts of the tree from the newest to the oldest, level 0 by files.
Older(v, l, f) ==
  Entries((UNION {v[m] : m \in l + 1 .. kNumLevels - 1})
          \cup (IF l = 0 THEN {g \in v[0] : g.number < f.number} ELSE {}))

NewerThan(S, T) == \A e \in S, o \in T : e.key = o.key => e.seq > o.seq

(* For every key, what is nearer to the memtable is newer: the memtable,   *)
(* the immutable one, the files of level 0 by number, then the levels.     *)
(* DoCompactionWork drops deletions on the strength of it.  In the files   *)
(* it needs levels without overlap, as above.                              *)
NewestOnTop ==
  /\ NewerThan(mem, imm \cup Entries(UNION {current[l] : l \in Levels}))
  /\ NewerThan(imm, Entries(UNION {current[l] : l \in Levels}))
  /\ blame \cap {"gap", "retry"} = {} =>
     \A v \in {current, manifest.files} : \A l \in Levels : \A f \in v[l] :
       NewerThan(f.entries, Older(v, l, f))

(* No file is unlinked that MANIFEST names, that a reader or a compaction  *)
(* reads or that was just written, and no new file takes the number of one *)
(* that exists or that is about to be unlinked.                            *)
FilesKept ==
  /\ (Numbers(manifest.files) \cup Numbers(current) \cup reader.files \cup HeldByCompaction
       \cup {f.number : f \in compact.outputs \cup edit.add}) \subseteq disk \ doomed
  /\ up => \A n \in disk \cup doomed \cup pending_outputs : n < next_file

(* When CompactRange goes on after TEST_CompactMemTable, as it does before *)
(* the master exits, all that was written before the call is durable,      *)
(* unless there was an error, which CompactRange does not report.          *)
FlushForced ==
  caller.pc = "level" /\ ~bg_error => \A e \in log : e.seq <= caller.mark => e.seq <= safe

(* A write that waits for room, CompactRange and closing come to an end:   *)
(* no wake-up is lost, whatever fails.                                     *)
CallsReturn ==
  /\ writer.on ~> ~writer.on
  /\ caller.pc # "idle" ~> caller.pc = "idle"
  /\ shutting_down ~> ~up
=============================================================================
