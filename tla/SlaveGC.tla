------------------------------- MODULE SlaveGC -------------------------------
(***************************************************************************)
(* One running slave and the part of the master it talks to.               *)
(*                                                                         *)
(* The slave has two threads: "main", the event loop, runs the commands of *)
(* the clients one after the other (process_command), the manual GC among  *)
(* them; "gc" (gc_thread_main) collects the oldest value log when there    *)
(* are too many.  Both write to the value log under g_vlog_mutex and talk  *)
(* to the master over one connection under g_master_mutex, so an append    *)
(* and a request to the master are each one step; everything between them  *)
(* interleaves.                                                            *)
(*                                                                         *)
(* Records have one size here, so an offset is the index of a record in    *)
(* its file; buffering is left to VlogManager, which shows that the file   *)
(* of a rotated vlog holds all of its records (RotatedVlogsOnDisk).        *)
(* Every PUT writes a different value: the number of the PUT.              *)
(***************************************************************************)
EXTENDS Integers, Sequences, FiniteSets

CONSTANTS
  NumKeys,          \* keys are 1 .. NumKeys
  VlogCap,          \* records after which GetWritePos() >= max_vlog_size
  GC_MIN_THRESHOLD,
  GC_MAX_THRESHOLD,
  MaxPuts,          \* bound: PUT commands
  MaxVlogs,         \* bound: vlog files created
  MaxFaults         \* bound: failures of the connection and of the disk

ASSUME GCAssumption ==
  /\ NumKeys \in Nat /\ VlogCap \in Nat \ {0} /\ MaxVlogs \in Nat \ {0}
  /\ MaxPuts \in Nat /\ MaxFaults \in Nat
  /\ GC_MIN_THRESHOLD \in Nat /\ GC_MAX_THRESHOLD \in Nat
  /\ GC_MIN_THRESHOLD <= GC_MAX_THRESHOLD

Keys        == 1 .. NumKeys
VlogNumbers == 1 .. MaxVlogs
Threads     == {"main", "gc"}

NotFound == [vlog |-> 0, pos |-> 0]  \* the master's NOT_FOUND; vlogs count from 1
NoValue  == 0                        \* PUTs count from 1
NoRecord == [key |-> 0, val |-> NoValue]

VARIABLES
  addr,           \* master: the LSM tree, key -> address
  vlog,           \* vlog number -> records written to it
  linked,         \* vlog files in the directory
  manager_,       \* vlogs with a VlogInfo, whose files are held open
  g_vlog_number,
  g_gc_threshold,
  g_running,
  link,           \* g_master_fd: "up", "down" (-1), or closed by the master
                  \* and not yet noticed: "broken", "reset" once written to
  pc,             \* thread -> what it does next
  rec,            \* thread -> record it is writing
  new,            \* thread -> address it got, or is building, for rec
  target,         \* thread -> file execute_gc_on_file works on, 0 if none
  idx,            \* thread -> next record of that file
  valid,          \* thread -> valid_records
  fetching,       \* main: [key, addr] pairs a GET or SCAN has yet to read
  puts,           \* PUTs so far
  faults,         \* failures so far
  expect,         \* history: key -> value of the last PUT that reached the master
  blame           \* history: the hazardous events that have happened

disk   == <<vlog, linked, manager_, g_vlog_number>>
locals == <<rec, new, target, idx, valid>>
vars   == <<addr, disk, g_gc_threshold, g_running, link, pc, locals, fetching,
            puts, faults, expect, blame>>

Init ==
  /\ addr = [k \in Keys |-> NotFound]
  /\ vlog = [n \in VlogNumbers |-> <<>>]
  /\ linked = {1} /\ manager_ = {1} /\ g_vlog_number = 1
  /\ g_gc_threshold \in GC_MIN_THRESHOLD .. GC_MAX_THRESHOLD
  /\ g_running = TRUE /\ link = "up"
  /\ pc = [t \in Threads |-> "idle"]
  /\ rec = [t \in Threads |-> NoRecord]
  /\ new = [t \in Threads |-> NotFound]
  /\ target = [t \in Threads |-> 0]
  /\ idx = [t \in Threads |-> 1]
  /\ valid = [t \in Threads |-> 0]
  /\ fetching = {}
  /\ puts = 0 /\ faults = 0
  /\ expect = [k \in Keys |-> NoValue]
  /\ blame = {}

\* The locals of write_value_to_vlog's caller, and of execute_gc_on_file, go
\* out of scope.
DropRecord(t) ==
  rec' = [rec EXCEPT ![t] = NoRecord] /\ new' = [new EXCEPT ![t] = NotFound]

SetGc(t, n) ==
  /\ target' = [target EXCEPT ![t] = n]
  /\ idx' = [idx EXCEPT ![t] = 1]
  /\ valid' = [valid EXCEPT ![t] = 0]

Goto(t, l) == pc' = [pc EXCEPT ![t] = l]

Note(event, happened) == blame' = blame \cup (IF happened THEN {event} ELSE {})

-----------------------------------------------------------------------------
(* Requests to the master *)

\* A thread waits, in a read, for what the master is not going to send.
Hung == pc["main"] = "waitEnd" \/ pc["gc"] = "hung"

\* send_to_master.  "reply": the master serves the request and the reply
\* arrives.  "refused": the database of the master fails, it replies ERROR.
\* "unread": UPDATE_ADDR cannot read the old address and does not compare it.
\* "lost": the connection breaks after the master has served the request.
\* "error": the connection is already gone; on a socket closed by the peer
\* the first write still succeeds and the read then fails.  A thread that
\* waits for a reply that does not come holds g_master_mutex.
Outcome(o) ==
  /\ ~Hung
  /\ CASE o = "reply"   -> link = "up" /\ UNCHANGED <<link, faults>>
       [] o \in {"refused", "unread"} ->
                           /\ link = "up" /\ faults < MaxFaults
                           /\ faults' = faults + 1 /\ UNCHANGED link
       [] o = "lost"    -> /\ link = "up" /\ faults < MaxFaults
                           /\ link' = "reset" /\ faults' = faults + 1
       [] o = "error"   -> /\ link \in {"broken", "down"}
                           /\ link' = IF link = "broken" THEN "reset" ELSE link
                           /\ UNCHANGED faults

Outcomes == {"reply", "refused", "lost", "error"}

Served(o) == o \in {"reply", "lost", "unread"}

\* A write to a socket that was reset raises SIGPIPE, which nobody handles.
KilledBySigpipe ==
  /\ link = "reset"
  /\ \E t \in Threads : pc[t] \in {"put", "get", "update"} \/ (t = "main" /\ pc[t] = "idle")
  /\ pc' = [t \in Threads |-> "dead"]
  /\ UNCHANGED <<addr, disk, g_gc_threshold, g_running, link, locals, fetching,
                 puts, faults, expect, blame>>

\* The connection to the master breaks while no request is under way, or one
\* waits in vain.
LinkBreaks ==
  /\ link = "up" /\ faults < MaxFaults
  /\ link' = "broken" /\ faults' = faults + 1
  /\ UNCHANGED <<addr, disk, g_gc_threshold, g_running, pc, locals, fetching,
                 puts, expect, blame>>

\* The event loop sees the hangup, closes the socket and calls
\* connect_to_master, which keeps the main thread until it succeeds.
NoticeBroken ==
  /\ pc["main"] = "idle" /\ link \in {"broken", "reset"}
  /\ link' = "down"
  /\ Goto("main", "reconnect")
  /\ UNCHANGED <<addr, disk, g_gc_threshold, g_running, locals, fetching, puts,
                 faults, expect, blame>>

Reconnect ==
  /\ pc["main"] = "reconnect"
  /\ link' = IF g_running THEN "up" ELSE "down"
  /\ Goto("main", "idle")
  /\ UNCHANGED <<addr, disk, g_gc_threshold, g_running, locals, fetching, puts,
                 faults, expect, blame>>

-----------------------------------------------------------------------------
(* write_value_to_vlog *)

\* The part under g_vlog_mutex: rotate if the file is full, append.
AppendRecord(t, r) ==
  LET full == Len(vlog[g_vlog_number]) >= VlogCap
      n    == IF full THEN g_vlog_number + 1 ELSE g_vlog_number
  IN  /\ n \in VlogNumbers
      /\ vlog' = [vlog EXCEPT ![n] = Append(@, r)]
      /\ g_vlog_number' = n
      /\ linked' = linked \cup {n}
      /\ manager_' = manager_ \cup {n}
      /\ rec' = [rec EXCEPT ![t] = r]
      /\ new' = [new EXCEPT ![t] = [vlog |-> n, pos |-> Len(vlog[n]) + 1]]
      /\ Goto(t, "number")

\* The vlog number of the address is read after the mutex is released.
ReadNumber(t) ==
  /\ pc[t] = "number"
  /\ new' = [new EXCEPT ![t].vlog = g_vlog_number]
  /\ Note("mislabel", new[t].vlog # g_vlog_number)
  /\ Goto(t, IF target[t] = 0 THEN "put" ELSE "update")
  /\ UNCHANGED <<addr, disk, g_gc_threshold, g_running, link, rec, target, idx,
                 valid, fetching, puts, faults, expect>>

-----------------------------------------------------------------------------
(* process_command: PUT, DELETE, GET, SCAN *)

Put(k) ==
  /\ pc["main"] = "idle" /\ puts < MaxPuts
  /\ AppendRecord("main", [key |-> k, val |-> puts + 1])
  /\ puts' = puts + 1
  /\ UNCHANGED <<addr, g_gc_threshold, g_running, link, target, idx, valid,
                 fetching, faults, expect, blame>>

PutAddr ==
  /\ pc["main"] = "put"
  /\ \E o \in Outcomes :
       /\ Outcome(o)
       /\ LET r == rec["main"]
          IN  IF Served(o)
              THEN /\ addr' = [addr EXCEPT ![r.key] = new["main"]]
                   /\ expect' = [expect EXCEPT ![r.key] = r.val]
              ELSE UNCHANGED <<addr, expect>>
  /\ DropRecord("main")
  /\ Goto("main", "idle")
  /\ UNCHANGED <<disk, g_gc_threshold, g_running, target, idx, valid, fetching,
                 puts, blame>>

Delete(k) ==
  /\ pc["main"] = "idle"
  /\ \E o \in Outcomes :
       /\ Outcome(o)
       /\ IF Served(o)
          THEN /\ addr' = [addr EXCEPT ![k] = NotFound]
               /\ expect' = [expect EXCEPT ![k] = NoValue]
          ELSE UNCHANGED <<addr, expect>>
  /\ UNCHANGED <<disk, g_gc_threshold, g_running, pc, locals, fetching, puts, blame>>

\* GET and SCAN.  The master answers with the addresses of the keys it has,
\* and the values are then read one at a time.  An ERROR that the master
\* replies to SCAN_ADDR has no END, which send_scan_via_fd goes on waiting for.
Scan(lo, hi) ==
  /\ pc["main"] = "idle"
  /\ \E o \in Outcomes, get \in BOOLEAN :
       /\ Outcome(o)
       /\ get => lo = hi
       /\ fetching' = {[key |-> k, addr |-> addr[k]] :
                         k \in {k \in lo .. hi : o = "reply" /\ addr[k] # NotFound}}
       /\ Goto("main", IF o = "refused" /\ ~get THEN "waitEnd"
                       ELSE IF fetching' = {} THEN "idle" ELSE "fetch")
  /\ UNCHANGED <<addr, disk, g_gc_threshold, g_running, locals, puts, expect, blame>>

\* The connection closes at last, and the read that waits for END returns 0.
ScanReturns ==
  /\ pc["main"] = "waitEnd" /\ link = "broken"
  /\ Goto("main", "idle")
  /\ UNCHANGED <<addr, disk, g_gc_threshold, g_running, link, locals, fetching,
                 puts, faults, expect, blame>>

\* FetchValueFromVlog for the pair with the smallest key.
Fetch ==
  /\ pc["main"] = "fetch"
  /\ LET f == CHOOSE f \in fetching : \A g \in fetching : f.key <= g.key
     IN  /\ fetching' = fetching \ {f}
         /\ Goto("main", IF fetching = {f} THEN "idle" ELSE "fetch")
  /\ UNCHANGED <<addr, disk, g_gc_threshold, g_running, link, locals, puts,
                 faults, expect, blame>>

-----------------------------------------------------------------------------
(* execute_gc_on_file *)

\* collect_gc_targets, and the selection in the GC command.
Targets == {n \in linked : n < g_vlog_number}

Oldest(S) == CHOOSE n \in S : \A m \in S : n <= m

StartGc(t) ==
  /\ Targets # {}
  /\ SetGc(t, Oldest(Targets))
  /\ Goto(t, "open")

\* GC: manual collection of the oldest file, on the main thread.
GcCommand ==
  /\ pc["main"] = "idle"
  /\ StartGc("main")
  /\ UNCHANGED <<addr, disk, g_gc_threshold, g_running, link, rec, new,
                 fetching, puts, faults, expect, blame>>

\* Faulty variant: one file more than the threshold is tolerated.
GcRoundStrict ==
  /\ pc["gc"] = "idle" /\ g_running /\ link # "down"
  /\ Cardinality(Targets) > g_gc_threshold
  /\ StartGc("gc")
  /\ UNCHANGED <<addr, disk, g_gc_threshold, g_running, link, rec, new,
                 fetching, puts, faults, expect, blame>>

\* A round of gc_thread_main.
GcRound ==
  /\ pc["gc"] = "idle" /\ g_running /\ link # "down"
  /\ Cardinality(Targets) >= g_gc_threshold
  /\ StartGc("gc")
  /\ UNCHANGED <<addr, disk, g_gc_threshold, g_running, link, rec, new,
                 fetching, puts, faults, expect, blame>>

\* The background thread checks g_running and g_gc_running, the manual GC
\* does not.
Stopped(t) == t = "gc" /\ ~g_running

GcOpen(t) ==
  /\ pc[t] = "open"
  /\ IF Stopped(t) \/ link = "down" \/ target[t] \notin linked
     THEN SetGc(t, 0) /\ Goto(t, "idle")
     ELSE UNCHANGED <<target, idx, valid>> /\ Goto(t, "scan")
  /\ UNCHANGED <<addr, disk, g_gc_threshold, g_running, link, rec, new,
                 fetching, puts, faults, expect, blame>>

File(t) == vlog[target[t]]

\* Faulty variant: rec_offset is advanced before this_offset is computed.
HereAdvanced(t) == [vlog |-> target[t], pos |-> idx[t] + 1]

\* vlog_number and this_offset of the record under examination.
Here(t) == [vlog |-> target[t], pos |-> idx[t]]

\* The loop condition and the breaks at its head.
GcNext(t) ==
  /\ pc[t] = "scan"
  /\ LET more == idx[t] <= Len(File(t))
         stop == Stopped(t) \/ link = "down"
     IN  /\ Goto(t, IF more /\ ~stop THEN "get" ELSE "remove")
         /\ Note("earlyStop", more /\ stop /\ idx[t] > 1)
  /\ UNCHANGED <<addr, disk, g_gc_threshold, g_running, link, locals, fetching,
                 puts, faults, expect>>

\* Address of a record that is in the log but not yet known to the master.
Pending(u) == IF pc[u] \in {"number", "put", "update"} THEN {new[u]} ELSE {}

\* GCGET_ADDR and the comparison of the three fields of the address.
GcGet(t) ==
  /\ pc[t] = "get"
  /\ LET live == addr[File(t)[idx[t]].key] = Here(t)
     IN  \E o \in Outcomes :
           /\ Outcome(o)
           /\ IF o = "reply" /\ live
              THEN Goto(t, "write") /\ UNCHANGED <<idx, blame>>
              ELSE /\ Goto(t, "scan")
                   /\ idx' = [idx EXCEPT ![t] = @ + 1]
                   /\ blame' = blame
                        \cup (IF live THEN {"refused"} ELSE {})
                        \cup (IF \E u \in Threads \ {t} : Here(t) \in Pending(u)
                              THEN {"inflight"} ELSE {})
  /\ UNCHANGED <<addr, disk, g_gc_threshold, g_running, rec, new, target, valid,
                 fetching, puts, expect>>

\* The record is appended to the current vlog.
GcWrite(t) ==
  /\ pc[t] = "write"
  /\ AppendRecord(t, File(t)[idx[t]])
  /\ UNCHANGED <<addr, g_gc_threshold, g_running, link, target, idx, valid,
                 fetching, puts, faults, expect, blame>>

\* write_value_to_vlog fails and returns no address; the record is skipped.
GcWriteFails(t) ==
  /\ pc[t] = "write" /\ faults < MaxFaults
  /\ faults' = faults + 1
  /\ idx' = [idx EXCEPT ![t] = @ + 1]
  /\ Goto(t, "scan")
  /\ Note("rewrite", addr[File(t)[idx[t]].key] = Here(t))
  /\ UNCHANGED <<addr, disk, g_gc_threshold, g_running, link, rec, new, target,
                 valid, fetching, puts, expect>>

\* Faulty variant: the master does not compare.
CasAlways(t) == TRUE

\* UPDATE_ADDR compares the old address only if there is one for the key.
CasSucceeds(t) == addr[rec[t].key] \in {NotFound, Here(t)}

GcUpdate(t) ==
  /\ pc[t] = "update"
  /\ LET k    == rec[t].key
         swap(o) == Served(o) /\ (o = "unread" \/ CasSucceeds(t))
     IN  \E o \in Outcomes \cup {"unread"} :
           /\ Outcome(o)
           /\ addr' = IF swap(o) THEN [addr EXCEPT ![k] = new[t]] ELSE addr
           /\ valid' = IF swap(o) /\ o # "lost" THEN [valid EXCEPT ![t] = @ + 1] ELSE valid
           /\ blame' = blame
                \cup (IF swap(o) /\ ~CasSucceeds(t) THEN {"unread"} ELSE {})
                \cup (IF Served(o) /\ addr[k] = NotFound THEN {"resurrect"} ELSE {})
                \cup (IF ~Served(o) /\ addr[k] = Here(t) THEN {"refused"} ELSE {})
  /\ idx' = [idx EXCEPT ![t] = @ + 1]
  /\ DropRecord(t)
  /\ Goto(t, "scan")
  /\ UNCHANGED <<disk, g_gc_threshold, g_running, target, fetching, puts, expect>>

\* The connection breaks under a request of the GC thread, before it is served
\* or after, and the event loop closes the socket and gets the same descriptor
\* for the next one: the GC thread goes on reading there, holding
\* g_master_mutex, where no reply is to come.
DescriptorReused ==
  /\ pc["main"] = "idle" /\ pc["gc"] \in {"get", "update"}
  /\ LET k == rec["gc"].key
     IN  \E served \in BOOLEAN :
           /\ IF served
              THEN link = "up" /\ faults < MaxFaults /\ faults' = faults + 1
              ELSE link = "broken" /\ UNCHANGED faults
           /\ IF served /\ pc["gc"] = "update"
              THEN /\ addr' = IF CasSucceeds("gc") THEN [addr EXCEPT ![k] = new["gc"]] ELSE addr
                   /\ Note("resurrect", addr[k] = NotFound)
              ELSE UNCHANGED <<addr, blame>>
  /\ DropRecord("gc")
  /\ link' = "down"
  /\ pc' = [pc EXCEPT !["main"] = "reconnect", !["gc"] = "hung"]
  /\ UNCHANGED <<disk, g_gc_threshold, g_running, target, idx, valid, fetching, puts, expect>>

\* That read fails once the socket is closed or gone.  The record is skipped.
GcReturns ==
  /\ pc["gc"] = "hung" /\ link \in {"broken", "down"}
  /\ idx' = [idx EXCEPT !["gc"] = @ + 1]
  /\ Goto("gc", "scan")
  /\ blame' = blame
       \cup (IF addr[File("gc")[idx["gc"]].key] = Here("gc") THEN {"refused"} ELSE {})
       \cup (IF Here("gc") \in Pending("main") THEN {"inflight"} ELSE {})
  /\ UNCHANGED <<addr, disk, g_gc_threshold, g_running, link, rec, new, target,
                 valid, fetching, puts, faults, expect>>

\* The adaptation of the threshold to the share of garbage found.
Adapted(threshold, total, moved) ==
  LET garbage == 100 * (total - moved)
  IN  IF garbage >= 40 * total
      THEN IF threshold > GC_MIN_THRESHOLD THEN threshold - 1 ELSE threshold
      ELSE IF garbage < 20 * total
           THEN IF threshold < GC_MAX_THRESHOLD THEN threshold + 1 ELSE threshold
           ELSE threshold

\* Faulty variant: the VlogInfo, and with it the open file, is dropped too.
GcRemoveCloses(t) ==
  /\ pc[t] = "remove" /\ idx[t] > 1
  /\ linked' = linked \ {target[t]}
  /\ manager_' = manager_ \ {target[t]}
  /\ SetGc(t, 0)
  /\ Goto(t, "idle")
  /\ UNCHANGED <<addr, vlog, g_vlog_number, g_gc_threshold, g_running, link, rec,
                 new, fetching, puts, faults, expect, blame>>

\* The file is removed if any record was counted.
GcRemove(t) ==
  LET total == idx[t] - 1
  IN  /\ pc[t] = "remove"
      /\ linked' = IF total > 0 THEN linked \ {target[t]} ELSE linked
      /\ g_gc_threshold' = IF t = "gc" /\ total > 0
                           THEN Adapted(g_gc_threshold, total, valid[t])
                           ELSE g_gc_threshold
      /\ SetGc(t, 0)
      /\ Goto(t, "idle")
      /\ UNCHANGED <<addr, vlog, manager_, g_vlog_number, g_running, link, rec,
                     new, fetching, puts, faults, expect, blame>>

-----------------------------------------------------------------------------
\* SIGINT or SIGTERM.
Signal ==
  /\ g_running
  /\ g_running' = FALSE
  /\ UNCHANGED <<addr, disk, g_gc_threshold, link, pc, locals, fetching, puts,
                 faults, expect, blame>>

\* main() leaves the event loop and waits for the GC thread.
MainExit ==
  /\ ~g_running /\ pc["main"] = "idle"
  /\ Goto("main", "exit")
  /\ UNCHANGED <<addr, disk, g_gc_threshold, g_running, link, locals, fetching,
                 puts, faults, expect, blame>>

GcStep(t) ==
  \/ GcOpen(t) \/ GcNext(t) \/ GcGet(t) \/ GcWrite(t) \/ GcWriteFails(t)
  \/ ReadNumber(t) \/ GcUpdate(t) \/ GcRemove(t)

Command ==
  \/ \E k \in Keys : Put(k) \/ Delete(k)
  \/ \E lo, hi \in Keys : Scan(lo, hi)
  \/ GcCommand

Next ==
  \/ Command \/ PutAddr \/ Fetch \/ ScanReturns
  \/ GcRound
  \/ \E t \in Threads : GcStep(t)
  \/ KilledBySigpipe \/ LinkBreaks \/ NoticeBroken \/ Reconnect
  \/ DescriptorReused \/ GcReturns
  \/ Signal \/ MainExit

Spec == Init /\ [][Next]_vars

\* The operating system schedules both threads, so that neither stops for
\* ever between two statements, and the GC thread wakes up again; the master
\* answers what it has been sent, but for the two requests that leave Hung,
\* and comes back when the connection to it breaks.
Fairness ==
  /\ WF_vars(PutAddr) /\ WF_vars(Fetch) /\ WF_vars(GcStep("main"))
  /\ WF_vars(NoticeBroken) /\ WF_vars(Reconnect) /\ WF_vars(KilledBySigpipe)
  /\ WF_vars(GcRound) /\ WF_vars(GcStep("gc"))

FairSpec == Spec /\ Fairness

-----------------------------------------------------------------------------
(* The record an address refers to. *)
Holds(a, r) ==
  /\ a.vlog \in manager_ /\ a.pos \in 1 .. Len(vlog[a.vlog])
  /\ vlog[a.vlog][a.pos] = r

(***************************************************************************)
(* GC concurrent with client commands never loses, changes or revives a    *)
(* value: unless one of the events in blame has happened, the master has   *)
(* an address exactly for the keys that were put and not deleted, and that *)
(* address names the record of the last PUT, in a file that still exists.  *)
(***************************************************************************)
ValuesSafe ==
  blame = {} =>
    \A k \in Keys :
      IF expect[k] = NoValue
      THEN addr[k] = NotFound
      ELSE addr[k].vlog \in linked /\ Holds(addr[k], [key |-> k, val |-> expect[k]])

(***************************************************************************)
(* A GET or SCAN that got an address from the master reads the value the   *)
(* key had then, although GC may move the record and remove its file       *)
(* before the read: manager_ keeps removed files open.  Only a mislabelled *)
(* address, a revived key or an update without comparison breaks this.     *)
(***************************************************************************)
ReadsReturnValue ==
  blame \cap {"mislabel", "resurrect", "unread"} = {} =>
    \A f \in fetching : Holds(f.addr, [key |-> f.key, val |-> expect[f.key]])

(***************************************************************************)
(* The records execute_gc_on_file has passed are garbage and stay garbage: *)
(* no key has its address there, so removing the file loses nothing.       *)
(***************************************************************************)
ScannedIsGarbage ==
  blame = {} =>
    \A t \in Threads : target[t] # 0 =>
      \A k \in Keys : addr[k].vlog = target[t] => addr[k].pos >= idx[t]

\* The bound on vlog numbers keeps GC from moving any more records.
NoMoreVlogs == g_vlog_number = MaxVlogs /\ Len(vlog[g_vlog_number]) >= VlogCap

(***************************************************************************)
(* The oldest vlogs are collected: while there are at least g_gc_threshold *)
(* inactive files, each of them is removed sooner or later, unless the     *)
(* slave is told to stop, dies on a write to a reset connection or waits   *)
(* with g_master_mutex for a reply that does not come (or the model has    *)
(* used up its vlog numbers).  Every file here has a record: one without a *)
(* complete record is kept, and execute_gc_on_file tried on it for ever.   *)
(***************************************************************************)
OldFilesCollected ==
  \A n \in VlogNumbers :
    (n \in Targets /\ Cardinality(Targets) >= g_gc_threshold)
      ~> (n \notin linked \/ Cardinality(Targets) < g_gc_threshold \/ ~g_running
          \/ pc["gc"] = "dead" \/ Hung \/ NoMoreVlogs)
=============================================================================
