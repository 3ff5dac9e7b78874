---------------------------- MODULE SlaveGCProofs ----------------------------
(***************************************************************************)
(* Proofs that garbage collection concurrent with client commands neither  *)
(* loses nor changes a value, for any number of keys, PUTs, value logs and *)
(* faults, and whatever the size of a log and the thresholds are.          *)
(***************************************************************************)
EXTENDS SlaveGC, WellFoundedInduction, TLAPS

Address == [vlog : Nat, pos : Nat]
Record  == [key : Keys, val : Nat \ {0}]

\* Where a thread has a record in the log that the master does not know yet,
\* and where execute_gc_on_file is at work.
PendingPcs == {"number", "put", "update"}
GcPcs      == {"open", "scan", "get", "write", "update", "hung", "remove"}
NoGcPcs    == {"idle", "put", "fetch", "waitEnd", "reconnect"}
Pcs        == GcPcs \cup NoGcPcs \cup {"number", "dead", "exit"}

TypeInv ==
  /\ addr \in [Keys -> Address]
  /\ vlog \in [VlogNumbers -> Seq(Record)]
  /\ manager_ \in SUBSET VlogNumbers /\ linked \in SUBSET manager_
  /\ g_vlog_number \in linked
  /\ pc \in [Threads -> Pcs]
  /\ rec \in [Threads -> Record \cup {NoRecord}]
  /\ new \in [Threads -> Address]
  /\ target \in [Threads -> {0} \cup VlogNumbers]
  /\ idx \in [Threads -> Nat \ {0}]
  /\ fetching \in SUBSET [key : Keys, addr : Address]
  /\ puts \in Nat
  /\ expect \in [Keys -> Nat]

\* Thread t with a collection under way works on a rotated file, and what it
\* writes goes to a later one.
CollectsInv(l, g, v, n, i, r, a) ==
  /\ l \in GcPcs => n # 0
  /\ l \in NoGcPcs => n = 0
  /\ n # 0 => n < g
  /\ n # 0 /\ l \in {"get", "write", "number", "update", "hung"} => i \in 1 .. Len(v[n])
  /\ n # 0 /\ l \in {"number", "update"} => r = v[n][i]
  /\ n # 0 /\ l \in PendingPcs => a.vlog > n
  /\ l \in PendingPcs => r # NoRecord

GcInv ==
  /\ \A t \in Threads :
       CollectsInv(pc[t], g_vlog_number, vlog, target[t], idx[t], rec[t], new[t])
  /\ pc["main"] \notin {"fetch", "dead"} => fetching = {}

\* Holds, as an operator of the state it looks at.
HoldsIn(m, v, a, r) ==
  /\ a.vlog \in m /\ a.pos \in 1 .. Len(v[a.vlog])
  /\ v[a.vlog][a.pos] = r

Calm == blame \cap {"mislabel", "resurrect", "unread"} = {}

\* The addresses the master has, those that it is about to get and those
\* that a read is about to use name the right records.
AddrExact ==
  \A k \in Keys :
    IF expect[k] = NoValue THEN addr[k] = NotFound
    ELSE HoldsIn(manager_, vlog, addr[k], [key |-> k, val |-> expect[k]])

PendingExact ==
  \A t \in Threads : pc[t] \in PendingPcs => HoldsIn(manager_, vlog, new[t], rec[t])

FetchingExact ==
  \A f \in fetching : HoldsIn(manager_, vlog, f.addr, [key |-> f.key, val |-> expect[f.key]])

ExactInv == Calm => AddrExact /\ PendingExact /\ FetchingExact

\* No address names a record that was passed, or will.
Passed ==
  \A t \in Threads : target[t] # 0 =>
    \A k \in Keys : addr[k].vlog = target[t] => addr[k].pos >= idx[t]

PendingNotPassed ==
  \A t, u \in Threads : target[t] # 0 /\ u # t /\ pc[u] \in PendingPcs =>
    (new[u].vlog = target[t] => new[u].pos >= idx[t])

\* The record that is being moved is not the one another thread writes.
MovedNotPending ==
  \A t, u \in Threads :
    target[t] # 0 /\ u # t /\ pc[t] \in {"write", "number", "update"} /\ pc[u] \in PendingPcs =>
      new[u] # Here(t)

\* An address that the master does not know yet is new.
PendingFresh ==
  \A u \in Threads : pc[u] \in PendingPcs =>
    /\ \A k \in Keys : addr[k] # new[u]
    /\ \A t \in Threads : t # u /\ pc[t] \in PendingPcs => new[t] # new[u]

\* A file is removed only when all of it was passed.
AllPassed ==
  \A t \in Threads : pc[t] = "remove" => idx[t] = 1 \/ idx[t] > Len(File(t))

InLinked ==
  /\ \A k \in Keys : addr[k] # NotFound => addr[k].vlog \in linked
  /\ \A u \in Threads : pc[u] \in PendingPcs => new[u].vlog \in linked

GarbageInv ==
  blame = {} => /\ Passed /\ PendingNotPassed /\ MovedNotPending
                /\ PendingFresh /\ AllPassed /\ InLinked

IInv == TypeInv /\ GcInv /\ ExactInv /\ GarbageInv

-----------------------------------------------------------------------------
(* Files and addresses *)

\* The logs v, or more.
Grown(v, w) ==
  \A n \in VlogNumbers :
    Len(w[n]) >= Len(v[n]) /\ \A i \in 1 .. Len(v[n]) : w[n][i] = v[n][i]

(* What an address names stays, as files only grow and stay open. *)
LEMMA HoldsStays ==
  ASSUME NEW m \in SUBSET VlogNumbers, NEW m2, m \subseteq m2,
         NEW v \in [VlogNumbers -> Seq(Record)], NEW w \in [VlogNumbers -> Seq(Record)],
         Grown(v, w)
  PROVE  \A a, r : HoldsIn(m, v, a, r) => HoldsIn(m2, w, a, r)
<1> SUFFICES ASSUME NEW a, NEW r, HoldsIn(m, v, a, r) PROVE HoldsIn(m2, w, a, r)
  OBVIOUS
<1>1. a.vlog \in VlogNumbers
  BY DEF HoldsIn
<1>2. Len(v[a.vlog]) \in Nat /\ Len(w[a.vlog]) \in Nat
  BY <1>1
<1> QED BY <1>1, <1>2 DEF HoldsIn, Grown

(* write_value_to_vlog: the record is the last one of the current file or  *)
(* the first one of the next, and everything before it is as it was.       *)
LEMMA Appended ==
  ASSUME TypeInv, NEW t \in Threads, NEW r \in Record, AppendRecord(t, r)
  PROVE  \E n \in VlogNumbers :
           /\ n >= g_vlog_number /\ g_vlog_number' = n
           /\ vlog' \in [VlogNumbers -> Seq(Record)] /\ Grown(vlog, vlog')
           /\ \A m \in VlogNumbers : m < g_vlog_number => vlog'[m] = vlog[m]
           /\ manager_' = manager_ \cup {n} /\ linked' = linked \cup {n}
           /\ rec' = [rec EXCEPT ![t] = r]
           /\ new' = [new EXCEPT ![t] = [vlog |-> n, pos |-> Len(vlog[n]) + 1]]
           /\ pc' = [pc EXCEPT ![t] = "number"]
           /\ HoldsIn(manager_', vlog', [vlog |-> n, pos |-> Len(vlog[n]) + 1], r)
<1> DEFINE n == IF Len(vlog[g_vlog_number]) >= VlogCap THEN g_vlog_number + 1 ELSE g_vlog_number
<1>1. g_vlog_number \in VlogNumbers /\ n >= g_vlog_number
  BY DEF TypeInv, VlogNumbers
<1>2. n \in VlogNumbers /\ vlog' = [vlog EXCEPT ![n] = Append(@, r)] /\ g_vlog_number' = n
      /\ manager_' = manager_ \cup {n} /\ linked' = linked \cup {n}
      /\ rec' = [rec EXCEPT ![t] = r]
      /\ new' = [new EXCEPT ![t] = [vlog |-> n, pos |-> Len(vlog[n]) + 1]]
      /\ pc' = [pc EXCEPT ![t] = "number"]
  BY DEF AppendRecord, Goto
<1> HIDE DEF n
<1>3. PICK q \in Seq(Record) : q = vlog[n]
  BY <1>2 DEF TypeInv
<1>4. /\ Append(q, r) \in Seq(Record) /\ Len(Append(q, r)) = Len(q) + 1 /\ Len(q) \in Nat
      /\ \A i \in 1 .. Len(q) : Append(q, r)[i] = q[i]
      /\ Append(q, r)[Len(q) + 1] = r
  OBVIOUS
<1>5. vlog'[n] = Append(q, r) /\ \A m \in VlogNumbers \ {n} : vlog'[m] = vlog[m]
  BY <1>2, <1>3 DEF TypeInv
<1>6. vlog' \in [VlogNumbers -> Seq(Record)]
  BY <1>2, <1>3, <1>4 DEF TypeInv
<1>7. \A m \in VlogNumbers : Len(vlog[m]) \in Nat
  BY DEF TypeInv
<1>8. Grown(vlog, vlog')
  BY <1>3, <1>4, <1>5, <1>7 DEF Grown
<1>9. HoldsIn(manager_', vlog', [vlog |-> n, pos |-> Len(vlog[n]) + 1], r)
  BY <1>2, <1>3, <1>4, <1>5 DEF HoldsIn
<1>10. \A m \in VlogNumbers : m < g_vlog_number => vlog'[m] = vlog[m]
  BY <1>1, <1>5 DEF VlogNumbers
<1> QED BY <1>1, <1>2, <1>6, <1>8, <1>9, <1>10

(* An address the master has names a record of its key. *)
LEMMA KnownAddress ==
  ASSUME TypeInv, AddrExact, NEW k \in Keys, addr[k] # NotFound
  PROVE  /\ addr[k].vlog \in manager_ /\ addr[k].vlog \in VlogNumbers /\ addr[k].vlog # 0
         /\ addr[k].pos \in Nat /\ addr[k].pos >= 1 /\ addr[k].pos <= Len(vlog[addr[k].vlog])
         /\ vlog[addr[k].vlog][addr[k].pos] = [key |-> k, val |-> expect[k]]
<1>1. HoldsIn(manager_, vlog, addr[k], [key |-> k, val |-> expect[k]])
  BY DEF AddrExact
<1>2. addr[k].vlog \in VlogNumbers /\ Len(vlog[addr[k].vlog]) \in Nat
  BY <1>1 DEF HoldsIn, TypeInv
<1> QED BY <1>1, <1>2, GCAssumption DEF HoldsIn, VlogNumbers

(* So does an address that it is about to get. *)
LEMMA PendingAddress ==
  ASSUME TypeInv, PendingExact, NEW u \in Threads, pc[u] \in PendingPcs
  PROVE  /\ new[u].vlog \in manager_ /\ new[u].vlog \in VlogNumbers /\ new[u].vlog # 0
         /\ new[u].pos \in Nat /\ new[u].pos >= 1 /\ new[u].pos <= Len(vlog[new[u].vlog])
         /\ vlog[new[u].vlog][new[u].pos] = rec[u]
<1>1. HoldsIn(manager_, vlog, new[u], rec[u])
  BY DEF PendingExact
<1>2. new[u].vlog \in VlogNumbers /\ Len(vlog[new[u].vlog]) \in Nat
  BY <1>1 DEF HoldsIn, TypeInv
<1> QED BY <1>1, <1>2, GCAssumption DEF HoldsIn, VlogNumbers

(* The oldest rotated file is one of them. *)
LEMMA OldestIsTarget ==
  ASSUME TypeInv, Targets # {}
  PROVE  Oldest(Targets) \in VlogNumbers /\ Oldest(Targets) < g_vlog_number
<1>0. linked \subseteq VlogNumbers /\ VlogNumbers \subseteq Nat
  BY GCAssumption DEF TypeInv, VlogNumbers
<1>1. Targets \subseteq Nat /\ Targets # {}
  BY <1>0 DEF Targets
<1>2. PICK n \in Targets : \A m \in Targets : ~(<<m, n>> \in OpToRel(<, Nat))
  BY <1>1, WFMin, NatLessThanWellFounded
<1>3. \A m \in Targets : n <= m
  <2> SUFFICES ASSUME NEW m \in Targets, m < n PROVE FALSE
    BY <1>1
  <2>1. <<m, n>> \in Nat \X Nat
    BY <1>1
  <2>2. <<m, n>> \in OpToRel(<, Nat)
    BY <2>1 DEF OpToRel
  <2> QED BY <1>2, <2>2
<1>4. Oldest(Targets) \in Targets
  BY <1>3 DEF Oldest
<1> QED BY <1>4 DEF Targets, TypeInv

-----------------------------------------------------------------------------
(* One lemma for each action, or for several that are alike *)

\* All that the invariant is about except what a thread does and a read's rest.
kept == <<addr, vlog, linked, manager_, g_vlog_number, rec, new, target, idx, puts, expect, blame>>

(* A step that only changes what a thread without a collection does. *)
LEMMA QuietStep ==
  ASSUME IInv, UNCHANGED kept, pc' \in [Threads -> Pcs],
         \A t \in Threads : \/ pc'[t] = pc[t] \/ pc'[t] \in {"dead", "exit"}
                            \/ pc[t] \in NoGcPcs /\ pc'[t] \in {"idle", "fetch", "waitEnd", "reconnect"},
         fetching' \in SUBSET [key : Keys, addr : Address],
         Calm => FetchingExact',
         pc'["main"] \notin {"fetch", "dead"} => fetching' = {}
  PROVE  IInv'
<1>1. TypeInv'
  BY DEF IInv, TypeInv, kept
<1>2. GcInv'
  <2> SUFFICES ASSUME NEW t \in Threads
               PROVE  CollectsInv(pc'[t], g_vlog_number, vlog, target[t], idx[t], rec[t], new[t])
    BY DEF GcInv, kept
  <2>1. CollectsInv(pc[t], g_vlog_number, vlog, target[t], idx[t], rec[t], new[t])
    BY DEF IInv, GcInv
  <2> QED BY <2>1 DEF CollectsInv, GcPcs, NoGcPcs, PendingPcs
<1>3. \A t \in Threads : pc'[t] \in PendingPcs \cup {"write", "remove"} => pc'[t] = pc[t]
  BY DEF PendingPcs
<1>4. ExactInv'
  BY <1>3 DEF IInv, ExactInv, Calm, AddrExact, PendingExact, kept
<1>5. ASSUME blame' = {} PROVE Passed' /\ PendingNotPassed' /\ PendingFresh' /\ InLinked'
  BY <1>3, <1>5 DEF IInv, GarbageInv, Passed, PendingNotPassed, PendingFresh, InLinked, kept
<1>6. ASSUME blame' = {} PROVE MovedNotPending' /\ AllPassed'
  <2>1. \A t \in Threads : Here(t)' = Here(t) /\ File(t)' = File(t)
    BY DEF Here, File, kept
  <2>2. \A t \in Threads : pc'[t] \in {"write", "number", "update"} => pc'[t] = pc[t]
    BY <1>3 DEF PendingPcs
  <2> QED BY <1>3, <1>6, <2>1, <2>2 DEF IInv, GarbageInv, MovedNotPending, AllPassed, kept
<1> QED BY <1>1, <1>2, <1>4, <1>5, <1>6 DEF IInv, GarbageInv

(* The steps of the connection, a signal, the exit. *)
LEMMA LinkSteps ==
  ASSUME IInv,
         KilledBySigpipe \/ LinkBreaks \/ NoticeBroken \/ Reconnect \/ Signal \/ MainExit
           \/ ScanReturns
  PROVE  IInv'
<1>1. UNCHANGED kept /\ UNCHANGED fetching
  BY DEF KilledBySigpipe, LinkBreaks, NoticeBroken, Reconnect, Signal, MainExit, ScanReturns,
         kept, disk, locals
<1>2. pc' \in [Threads -> Pcs]
  BY DEF KilledBySigpipe, LinkBreaks, NoticeBroken, Reconnect, Signal, MainExit, ScanReturns,
         Goto, IInv, TypeInv, Pcs, GcPcs, NoGcPcs
<1>3. \A t \in Threads : \/ pc'[t] = pc[t] \/ pc'[t] \in {"dead", "exit"}
                         \/ pc[t] \in NoGcPcs /\ pc'[t] \in {"idle", "fetch", "waitEnd", "reconnect"}
  BY DEF KilledBySigpipe, LinkBreaks, NoticeBroken, Reconnect, Signal, MainExit, ScanReturns,
         Goto, NoGcPcs, Threads, IInv, TypeInv
<1>4. fetching' \in SUBSET [key : Keys, addr : Address]
  BY <1>1 DEF IInv, TypeInv
<1>5. Calm => FetchingExact'
  BY <1>1 DEF IInv, ExactInv, FetchingExact, kept
<1>6. pc'["main"] \notin {"fetch", "dead"} => fetching' = {}
  BY <1>1 DEF KilledBySigpipe, LinkBreaks, NoticeBroken, Reconnect, Signal, MainExit, ScanReturns,
              Goto, Threads, IInv, TypeInv, GcInv
<1> QED BY <1>1, <1>2, <1>3, <1>4, <1>5, <1>6, QuietStep

(* GET and SCAN: the master answers with addresses of the keys that have a *)
(* value.                                                                  *)
LEMMA ScanStep ==
  ASSUME IInv, NEW lo \in Keys, NEW hi \in Keys, Scan(lo, hi)
  PROVE  IInv'
<1>1. UNCHANGED kept
  BY DEF Scan, kept, disk, locals
<1>0. PICK o \in Outcomes, get \in BOOLEAN :
        /\ fetching' = {[key |-> k, addr |-> addr[k]] :
                          k \in {k \in lo .. hi : o = "reply" /\ addr[k] # NotFound}}
        /\ pc' = [pc EXCEPT !["main"] = IF o = "refused" /\ ~get THEN "waitEnd"
                                        ELSE IF fetching' = {} THEN "idle" ELSE "fetch"]
  BY DEF Scan, Goto
<1>2. pc["main"] = "idle" /\ \E l \in {"idle", "fetch", "waitEnd"} :
        pc' = [pc EXCEPT !["main"] = l] /\ (l # "fetch" => fetching' = {})
  <2>1. o # "reply" => fetching' = {}
    BY <1>0
  <2> QED BY <1>0, <2>1 DEF Scan
<1>3. \A f \in fetching' : \E k \in Keys :
        f = [key |-> k, addr |-> addr[k]] /\ addr[k] # NotFound
  <2>1. lo .. hi \subseteq Keys
    BY GCAssumption DEF Keys
  <2> QED BY <1>0, <2>1
<1>4. fetching' \in SUBSET [key : Keys, addr : Address]
  BY <1>3 DEF IInv, TypeInv
<1>5. Calm => FetchingExact'
  BY <1>1, <1>3 DEF IInv, ExactInv, AddrExact, FetchingExact, kept
<1>6. pc' \in [Threads -> Pcs] /\ (pc'["main"] \notin {"fetch", "dead"} => fetching' = {})
  BY <1>2 DEF IInv, TypeInv, Pcs, GcPcs, NoGcPcs, Threads
<1>7. \A t \in Threads : \/ pc'[t] = pc[t] \/ pc'[t] \in {"dead", "exit"}
                         \/ pc[t] \in NoGcPcs /\ pc'[t] \in {"idle", "fetch", "waitEnd", "reconnect"}
  BY <1>2 DEF IInv, TypeInv, Threads, NoGcPcs
<1> QED BY <1>1, <1>4, <1>5, <1>6, <1>7, QuietStep

(* A value is read. *)
LEMMA FetchStep ==
  ASSUME IInv, Fetch
  PROVE  IInv'
<1>1. UNCHANGED kept
  BY DEF Fetch, kept, disk, locals
<1>2. PICK f : /\ pc["main"] = "fetch" /\ fetching' = fetching \ {f}
               /\ pc' = [pc EXCEPT !["main"] = IF fetching = {f} THEN "idle" ELSE "fetch"]
  BY DEF Fetch, Goto
<1>3. fetching' \in SUBSET [key : Keys, addr : Address] /\ fetching' \subseteq fetching
  BY <1>2 DEF IInv, TypeInv
<1>4. Calm => FetchingExact'
  BY <1>1, <1>3 DEF IInv, ExactInv, FetchingExact, kept
<1>5. pc' \in [Threads -> Pcs] /\ (pc'["main"] \notin {"fetch", "dead"} => fetching' = {})
  BY <1>2 DEF IInv, TypeInv, Pcs, GcPcs, NoGcPcs, Threads
<1>6. \A t \in Threads : \/ pc'[t] = pc[t] \/ pc'[t] \in {"dead", "exit"}
                         \/ pc[t] \in NoGcPcs /\ pc'[t] \in {"idle", "fetch", "waitEnd", "reconnect"}
  BY <1>2 DEF IInv, TypeInv, Threads, NoGcPcs
<1> QED BY <1>1, <1>3, <1>4, <1>5, <1>6, QuietStep

(* What is exact stays so when no address and no file changes. *)
LEMMA ExactKept ==
  ASSUME ExactInv, UNCHANGED <<addr, vlog, manager_, rec, new, fetching, expect>>,
         blame \subseteq blame',
         \A t \in Threads : pc'[t] \in PendingPcs => pc[t] \in PendingPcs
  PROVE  ExactInv'
BY DEF ExactInv, Calm, AddrExact, PendingExact, FetchingExact

(* A collection begins, by command or in the GC thread. *)
LEMMA StartStep ==
  ASSUME IInv, NEW t \in Threads, pc[t] = "idle", StartGc(t),
         UNCHANGED <<addr, disk, rec, new, fetching, puts, expect, blame>>
  PROVE  IInv'
<1>1. PICK n \in VlogNumbers :
        /\ n < g_vlog_number
        /\ target' = [target EXCEPT ![t] = n] /\ idx' = [idx EXCEPT ![t] = 1]
        /\ pc' = [pc EXCEPT ![t] = "open"]
  BY OldestIsTarget DEF IInv, StartGc, SetGc, Goto
<1>2. n # 0
  BY GCAssumption DEF VlogNumbers
<1>3. TypeInv'
  BY <1>1 DEF IInv, TypeInv, disk, Pcs, GcPcs
<1>4. GcInv'
  <2> SUFFICES ASSUME NEW u \in Threads
               PROVE  CollectsInv(pc'[u], g_vlog_number, vlog, target'[u], idx'[u], rec[u], new[u])
    BY <1>1 DEF IInv, TypeInv, GcInv, disk, Threads
  <2>1. CollectsInv(pc[u], g_vlog_number, vlog, target[u], idx[u], rec[u], new[u])
    BY DEF IInv, GcInv
  <2> QED BY <1>1, <1>2, <2>1 DEF IInv, TypeInv, CollectsInv, GcPcs, NoGcPcs, PendingPcs
<1>5. \A u \in Threads : pc'[u] # "open" => u # t /\ pc'[u] = pc[u]
  BY <1>1 DEF IInv, TypeInv
<1>6. ExactInv'
  BY <1>5, ExactKept DEF IInv, disk, PendingPcs
<1>7. ASSUME blame' = {}
      PROVE  /\ Passed' /\ PendingNotPassed' /\ MovedNotPending'
             /\ PendingFresh' /\ AllPassed' /\ InLinked'
  <2>1. /\ Passed /\ PendingNotPassed /\ MovedNotPending /\ PendingFresh /\ AllPassed /\ InLinked
        /\ AddrExact /\ PendingExact
    BY <1>7 DEF IInv, GarbageInv, ExactInv, Calm
  <2>2. \A u \in Threads \ {t} : target'[u] = target[u] /\ idx'[u] = idx[u]
    BY <1>1 DEF IInv, TypeInv
  <2>3. target'[t] = n /\ idx'[t] = 1
    BY <1>1 DEF IInv, TypeInv
  <2>4. Passed'
    <3> SUFFICES ASSUME NEW k \in Keys, addr[k].vlog = n PROVE addr[k].pos >= 1
      BY <2>1, <2>2, <2>3 DEF Passed
    <3>1. addr[k] # NotFound
      BY <1>2 DEF NotFound
    <3> QED BY <2>1, <3>1, KnownAddress DEF IInv
  <2>5. PendingNotPassed'
    <3> SUFFICES ASSUME NEW u \in Threads \ {t}, pc[u] \in PendingPcs PROVE new[u].pos >= 1
      BY <1>5, <2>1, <2>2, <2>3 DEF PendingNotPassed, PendingPcs
    <3> QED BY <2>1, PendingAddress DEF IInv
  <2>6. MovedNotPending' /\ AllPassed'
    BY <1>5, <2>1, <2>2 DEF MovedNotPending, AllPassed, Here, File, disk, PendingPcs
  <2>7. PendingFresh' /\ InLinked'
    BY <1>5, <2>1 DEF PendingFresh, InLinked, disk, PendingPcs
  <2> QED BY <2>4, <2>5, <2>6, <2>7
<1> QED BY <1>3, <1>4, <1>6, <1>7 DEF IInv, GarbageInv

(* The file is opened, or the collection given up. *)
LEMMA OpenStep ==
  ASSUME IInv, NEW t \in Threads, GcOpen(t)
  PROVE  IInv'
<1>1. pc[t] = "open" /\ UNCHANGED <<addr, disk, rec, new, fetching, puts, expect, blame>>
  BY DEF GcOpen
<1>2. \/ /\ target' = [target EXCEPT ![t] = 0] /\ idx' = [idx EXCEPT ![t] = 1]
         /\ pc' = [pc EXCEPT ![t] = "idle"]
      \/ UNCHANGED <<target, idx>> /\ pc' = [pc EXCEPT ![t] = "scan"]
  BY DEF GcOpen, SetGc, Goto
<1>3. TypeInv'
  <2>1. target' \in [Threads -> {0} \cup VlogNumbers] /\ idx' \in [Threads -> Nat \ {0}]
    <3>1. CASE UNCHANGED <<target, idx>>
      BY <3>1 DEF IInv, TypeInv
    <3>2. CASE target' = [target EXCEPT ![t] = 0] /\ idx' = [idx EXCEPT ![t] = 1]
      BY <3>2 DEF IInv, TypeInv
    <3> QED BY <1>2, <3>1, <3>2
  <2>2. pc' \in [Threads -> Pcs]
    BY <1>2 DEF IInv, TypeInv, Pcs, GcPcs, NoGcPcs
  <2> QED BY <1>1, <2>1, <2>2 DEF IInv, TypeInv, disk
<1>4. GcInv'
  <2> SUFFICES ASSUME NEW u \in Threads
               PROVE  CollectsInv(pc'[u], g_vlog_number, vlog, target'[u], idx'[u], rec[u], new[u])
    BY <1>1, <1>2 DEF IInv, TypeInv, GcInv, disk, Threads
  <2>1. CollectsInv(pc[u], g_vlog_number, vlog, target[u], idx[u], rec[u], new[u])
    BY DEF IInv, GcInv
  <2> QED BY <1>1, <1>2, <2>1 DEF IInv, TypeInv, CollectsInv, GcPcs, NoGcPcs, PendingPcs
<1>5. \A u \in Threads : pc'[u] \notin {"idle", "scan"} => u # t /\ pc'[u] = pc[u]
  BY <1>2 DEF IInv, TypeInv
<1>6. ExactInv'
  BY <1>1, <1>5, ExactKept DEF IInv, disk, PendingPcs
<1>7. \A u \in Threads : target'[u] # 0 => target'[u] = target[u] /\ idx'[u] = idx[u]
  BY <1>2 DEF IInv, TypeInv
<1>8. \A u \in Threads \ {t} : target'[u] = target[u] /\ idx'[u] = idx[u]
  BY <1>2 DEF IInv, TypeInv
<1>9. ASSUME blame' = {}
      PROVE  /\ Passed' /\ PendingNotPassed' /\ MovedNotPending'
             /\ PendingFresh' /\ AllPassed' /\ InLinked'
  <2>1. Passed /\ PendingNotPassed /\ MovedNotPending /\ PendingFresh /\ AllPassed /\ InLinked
    BY <1>1, <1>9 DEF IInv, GarbageInv
  <2>2. Passed' /\ PendingNotPassed'
    BY <1>1, <1>5, <1>7, <2>1 DEF Passed, PendingNotPassed, PendingPcs
  <2>3. MovedNotPending' /\ AllPassed'
    BY <1>1, <1>5, <1>8, <2>1 DEF MovedNotPending, AllPassed, Here, File, disk, PendingPcs
  <2>4. PendingFresh' /\ InLinked'
    BY <1>1, <1>5, <2>1 DEF PendingFresh, InLinked, disk, PendingPcs
  <2> QED BY <2>2, <2>3, <2>4
<1> QED BY <1>3, <1>4, <1>6, <1>9 DEF IInv, GarbageInv

(* The head of the loop: it ends early only with a note. *)
LEMMA NextStep ==
  ASSUME IInv, NEW t \in Threads, GcNext(t)
  PROVE  IInv'
<1>1. /\ pc[t] = "scan" /\ blame \subseteq blame'
      /\ UNCHANGED <<addr, disk, rec, new, target, idx, fetching, puts, expect>>
  BY DEF GcNext, Note, locals
<1>2. PICK l \in {"get", "remove"} :
        /\ pc' = [pc EXCEPT ![t] = l]
        /\ l = "get" => idx[t] <= Len(File(t))
        /\ l = "remove" /\ blame' = {} => ~(idx[t] <= Len(File(t)) /\ idx[t] > 1)
  BY DEF GcNext, Note, Goto
<1>3. TypeInv'
  BY <1>1, <1>2 DEF IInv, TypeInv, disk, Pcs, GcPcs
<1>4. GcInv'
  <2> SUFFICES ASSUME NEW u \in Threads
               PROVE  CollectsInv(pc'[u], g_vlog_number, vlog, target[u], idx[u], rec[u], new[u])
    BY <1>1, <1>2 DEF IInv, TypeInv, GcInv, disk, Threads
  <2>1. CollectsInv(pc[u], g_vlog_number, vlog, target[u], idx[u], rec[u], new[u])
    BY DEF IInv, GcInv
  <2>2. target[t] # 0 => idx[t] \in 1 .. Len(File(t)) \/ idx[t] > Len(File(t))
    BY DEF IInv, TypeInv, File
  <2> QED BY <1>1, <1>2, <2>1, <2>2
          DEF IInv, TypeInv, CollectsInv, GcPcs, NoGcPcs, PendingPcs, File
<1>5. \A u \in Threads : pc'[u] \notin {"get", "remove"} => u # t /\ pc'[u] = pc[u]
  BY <1>2 DEF IInv, TypeInv
<1>6. ExactInv'
  BY <1>1, <1>5, ExactKept DEF IInv, disk, PendingPcs
<1>7. ASSUME blame' = {}
      PROVE  /\ Passed' /\ PendingNotPassed' /\ MovedNotPending'
             /\ PendingFresh' /\ AllPassed' /\ InLinked'
  <2>1. Passed /\ PendingNotPassed /\ MovedNotPending /\ PendingFresh /\ AllPassed /\ InLinked
    BY <1>1, <1>7 DEF IInv, GarbageInv
  <2>2. Passed' /\ PendingNotPassed'
    BY <1>1, <1>5, <2>1 DEF Passed, PendingNotPassed, PendingPcs
  <2>3. MovedNotPending'
    BY <1>1, <1>5, <2>1 DEF MovedNotPending, Here, PendingPcs
  <2>4. PendingFresh' /\ InLinked'
    BY <1>1, <1>5, <2>1 DEF PendingFresh, InLinked, disk, PendingPcs
  <2>5. AllPassed'
    <3> SUFFICES ASSUME NEW u \in Threads, pc'[u] = "remove"
                 PROVE  idx[u] = 1 \/ idx[u] > Len(File(u))
      BY <1>1 DEF AllPassed, File, disk
    <3>1. CASE u = t
      <4>1. target[t] # 0
        BY <1>1 DEF IInv, GcInv, CollectsInv, GcPcs
      <4>2. idx[t] \in Nat \ {0} /\ Len(File(t)) \in Nat
        BY <4>1 DEF IInv, TypeInv, File
      <4> QED BY <1>2, <1>7, <3>1, <4>2 DEF IInv, TypeInv
    <3>2. CASE u # t
      BY <1>2, <2>1, <3>2 DEF AllPassed, IInv, TypeInv
    <3> QED BY <3>1, <3>2
  <2> QED BY <2>2, <2>3, <2>4, <2>5
<1> QED BY <1>3, <1>4, <1>6, <1>7 DEF IInv, GarbageInv

(* The file is removed: nothing refers to it any more. *)
LEMMA RemoveStep ==
  ASSUME IInv, NEW t \in Threads, GcRemove(t)
  PROVE  IInv'
<1>1. /\ pc[t] = "remove" /\ linked' = IF idx[t] - 1 > 0 THEN linked \ {target[t]} ELSE linked
      /\ target' = [target EXCEPT ![t] = 0] /\ idx' = [idx EXCEPT ![t] = 1]
      /\ pc' = [pc EXCEPT ![t] = "idle"]
      /\ UNCHANGED <<addr, vlog, manager_, g_vlog_number, rec, new, fetching, puts, expect, blame>>
  BY DEF GcRemove, SetGc, Goto
<1>2. target[t] # 0 /\ target[t] < g_vlog_number /\ target[t] \in VlogNumbers
  BY <1>1 DEF IInv, TypeInv, GcInv, CollectsInv, GcPcs
<1>3. TypeInv'
  <2>1. target' \in [Threads -> {0} \cup VlogNumbers] /\ idx' \in [Threads -> Nat \ {0}]
    BY <1>1 DEF IInv, TypeInv
  <2>2. pc' \in [Threads -> Pcs]
    BY <1>1 DEF IInv, TypeInv, Pcs, NoGcPcs
  <2>3. g_vlog_number # target[t]
    BY <1>2, GCAssumption DEF IInv, TypeInv, VlogNumbers
  <2>4. linked' \in SUBSET manager_ /\ g_vlog_number \in linked'
    BY <1>1, <2>3 DEF IInv, TypeInv
  <2> QED BY <1>1, <2>1, <2>2, <2>4 DEF IInv, TypeInv
<1>4. GcInv'
  <2> SUFFICES ASSUME NEW u \in Threads
               PROVE  CollectsInv(pc'[u], g_vlog_number, vlog, target'[u], idx'[u], rec[u], new[u])
    BY <1>1 DEF IInv, TypeInv, GcInv, Threads
  <2>1. CollectsInv(pc[u], g_vlog_number, vlog, target[u], idx[u], rec[u], new[u])
    BY DEF IInv, GcInv
  <2> QED BY <1>1, <2>1 DEF IInv, TypeInv, CollectsInv, GcPcs, NoGcPcs, PendingPcs
<1>5. \A u \in Threads : pc'[u] # "idle" => u # t /\ pc'[u] = pc[u]
  BY <1>1 DEF IInv, TypeInv
<1>6. ExactInv'
  BY <1>1, <1>5, ExactKept DEF IInv, PendingPcs
<1>7. \A u \in Threads : target'[u] # 0 => target'[u] = target[u] /\ idx'[u] = idx[u]
  BY <1>1 DEF IInv, TypeInv
<1>8. \A u \in Threads \ {t} : target'[u] = target[u] /\ idx'[u] = idx[u]
  BY <1>1 DEF IInv, TypeInv
<1>9. ASSUME blame' = {}
      PROVE  /\ Passed' /\ PendingNotPassed' /\ MovedNotPending'
             /\ PendingFresh' /\ AllPassed' /\ InLinked'
  <2>1. /\ Passed /\ PendingNotPassed /\ MovedNotPending /\ PendingFresh /\ AllPassed /\ InLinked
        /\ AddrExact /\ PendingExact
    BY <1>1, <1>9 DEF IInv, GarbageInv, ExactInv, Calm
  <2>2. Passed' /\ PendingNotPassed'
    BY <1>1, <1>5, <1>7, <2>1 DEF Passed, PendingNotPassed, PendingPcs
  <2>3. MovedNotPending' /\ AllPassed'
    BY <1>1, <1>5, <1>8, <2>1 DEF MovedNotPending, AllPassed, Here, File, PendingPcs
  <2>4. PendingFresh'
    BY <1>1, <1>5, <2>1 DEF PendingFresh, PendingPcs
  <2>5. InLinked'
    <3>1. CASE ~(idx[t] - 1 > 0)
      BY <1>1, <1>5, <2>1, <3>1 DEF InLinked, PendingPcs
    <3>2. CASE idx[t] - 1 > 0
      <4>1. idx[t] \in Nat /\ Len(vlog[target[t]]) \in Nat /\ idx[t] > Len(vlog[target[t]])
        BY <1>1, <1>2, <2>1, <3>2 DEF AllPassed, File, IInv, TypeInv
      <4>2. ASSUME NEW k \in Keys, addr[k] # NotFound PROVE addr[k].vlog \in linked'
        <5>1. addr[k].vlog # target[t]
          <6>1. addr[k].vlog = target[t] => addr[k].pos >= idx[t]
            BY <1>2, <2>1 DEF Passed
          <6>2. addr[k].pos \in Nat /\ addr[k].pos <= Len(vlog[addr[k].vlog])
            BY <2>1, <4>2, KnownAddress DEF IInv
          <6> QED BY <4>1, <6>1, <6>2
        <5> QED BY <1>1, <2>1, <4>2, <5>1 DEF InLinked
      <4>3. ASSUME NEW u \in Threads, pc'[u] \in PendingPcs PROVE new[u].vlog \in linked'
        <5>1. u # t /\ pc[u] \in PendingPcs
          BY <1>5, <4>3 DEF PendingPcs
        <5>2. new[u].vlog # target[t]
          BY <1>2, <2>1, <4>1, <5>1, PendingAddress DEF PendingNotPassed, IInv
        <5> QED BY <1>1, <2>1, <5>1, <5>2 DEF InLinked
      <4> QED BY <1>1, <4>2, <4>3 DEF InLinked
    <3> QED BY <3>1, <3>2
  <2> QED BY <2>2, <2>3, <2>4, <2>5
<1> QED BY <1>3, <1>4, <1>6, <1>9 DEF IInv, GarbageInv

(* A record is passed: no key has its address, and none will get it. *)
LEMMA RecordPassed ==
  ASSUME IInv, NEW t \in Threads, target[t] # 0, Passed, PendingNotPassed,
         idx' = [idx EXCEPT ![t] = @ + 1], UNCHANGED target,
         \A u \in Threads : pc'[u] \in PendingPcs =>
                              u # t /\ pc[u] \in PendingPcs /\ new'[u] = new[u],
         addr' \in [Keys -> Address],
         \A k \in Keys : addr'[k] # Here(t),
         \A k \in Keys : \/ addr'[k] = addr[k]
                         \/ /\ addr'[k].vlog # target[t]
                            /\ \A u \in Threads \ {t} : target[u] # 0 /\ addr'[k].vlog = target[u]
                                                          => addr'[k].pos >= idx[u],
         \A u \in Threads : u # t /\ pc[u] \in PendingPcs => new[u] # Here(t)
  PROVE  Passed' /\ PendingNotPassed'
<1>1. idx[t] \in Nat /\ idx'[t] = idx[t] + 1 /\ \A u \in Threads \ {t} : idx'[u] = idx[u]
  BY DEF IInv, TypeInv
<1>2. ASSUME NEW a \in Address, a # Here(t), a.vlog = target[t], a.pos >= idx[t]
      PROVE  a.pos >= idx'[t]
  <2>1. a.pos \in Nat /\ (a.pos = idx[t] => a = Here(t))
    BY <1>2 DEF Address, Here
  <2> QED BY <1>1, <1>2, <2>1
<1>3. Passed'
  <2> SUFFICES ASSUME NEW u \in Threads, target[u] # 0, NEW k \in Keys, addr'[k].vlog = target[u]
               PROVE  addr'[k].pos >= idx'[u]
    BY DEF Passed
  <2>1. CASE u = t
    <3>1. addr'[k] = addr[k]
      BY <2>1
    <3>2. addr'[k].pos >= idx[t]
      BY <2>1, <3>1 DEF Passed
    <3> QED BY <1>2, <2>1, <3>2
  <2>2. CASE u # t
    <3>1. addr'[k].pos >= idx[u]
      BY <2>2 DEF Passed
    <3> QED BY <1>1, <2>2, <3>1
  <2> QED BY <2>1, <2>2
<1>4. PendingNotPassed'
  <2> SUFFICES ASSUME NEW u \in Threads, NEW w \in Threads, target[u] # 0, w # u,
                      pc'[w] \in PendingPcs, new'[w].vlog = target[u]
               PROVE  new'[w].pos >= idx'[u]
    BY DEF PendingNotPassed
  <2>1. new'[w].pos >= idx[u] /\ new'[w] \in Address /\ (w # t => new'[w] # Here(t))
    BY DEF PendingNotPassed, IInv, TypeInv
  <2>2. CASE u = t
    BY <1>2, <2>1, <2>2
  <2>3. CASE u # t
    BY <1>1, <2>1, <2>3
  <2> QED BY <2>2, <2>3
<1> QED BY <1>3, <1>4

(* The key whose address is that of the record under examination is the    *)
(* key of the record.                                                      *)
LEMMA OwnKey ==
  ASSUME TypeInv, AddrExact, NEW t \in Threads, target[t] # 0,
         NEW k \in Keys, addr[k] = Here(t)
  PROVE  File(t)[idx[t]] = [key |-> k, val |-> expect[k]]
<1>1. addr[k].vlog = target[t] /\ addr[k].pos = idx[t] /\ addr[k] # NotFound
  BY DEF Here, NotFound
<1> QED BY <1>1, KnownAddress DEF File

(* A record is skipped: it was found to be garbage, or could not be moved. *)
LEMMA SkipStep ==
  ASSUME IInv, NEW t \in Threads, pc[t] \in {"get", "write", "hung"},
         pc' = [pc EXCEPT ![t] = "scan"], idx' = [idx EXCEPT ![t] = @ + 1],
         UNCHANGED <<addr, disk, rec, new, target, fetching, puts, expect>>,
         blame \subseteq blame',
         addr[File(t)[idx[t]].key] = Here(t) => blame' # {},
         pc[t] # "write" /\ (\E u \in Threads \ {t} : Here(t) \in Pending(u)) => blame' # {}
  PROVE  IInv'
<1>1. target[t] # 0
  BY DEF IInv, GcInv, CollectsInv, GcPcs
<1>2. TypeInv'
  BY DEF IInv, TypeInv, disk, Pcs, GcPcs
<1>3. GcInv'
  <2> SUFFICES ASSUME NEW u \in Threads
               PROVE  CollectsInv(pc'[u], g_vlog_number, vlog, target[u], idx'[u], rec[u], new[u])
    BY DEF IInv, TypeInv, GcInv, disk, Threads
  <2>1. CollectsInv(pc[u], g_vlog_number, vlog, target[u], idx[u], rec[u], new[u])
    BY DEF IInv, GcInv
  <2> QED BY <2>1 DEF IInv, TypeInv, CollectsInv, GcPcs, NoGcPcs, PendingPcs
<1>4. \A u \in Threads : pc'[u] # "scan" => u # t /\ pc'[u] = pc[u]
  BY DEF IInv, TypeInv
<1>5. ExactInv'
  BY <1>4, ExactKept DEF IInv, disk, PendingPcs
<1>6. ASSUME blame' = {}
      PROVE  /\ Passed' /\ PendingNotPassed' /\ MovedNotPending'
             /\ PendingFresh' /\ AllPassed' /\ InLinked'
  <2>1. /\ Passed /\ PendingNotPassed /\ MovedNotPending /\ PendingFresh /\ AllPassed /\ InLinked
        /\ AddrExact /\ PendingExact
    BY <1>6 DEF IInv, GarbageInv, ExactInv, Calm
  <2>2. \A k \in Keys : addr[k] # Here(t)
    <3> SUFFICES ASSUME NEW k \in Keys, addr[k] = Here(t) PROVE FALSE
      OBVIOUS
    <3>1. File(t)[idx[t]] = [key |-> k, val |-> expect[k]]
      BY <1>1, <2>1, OwnKey DEF IInv
    <3>2. File(t)[idx[t]].key = k
      BY <3>1
    <3> QED BY <1>6, <3>2
  <2>3. \A u \in Threads : u # t /\ pc[u] \in PendingPcs => new[u] # Here(t)
    BY <1>1, <1>6, <2>1 DEF MovedNotPending, Pending, PendingPcs
  <2>4. \A u \in Threads : pc'[u] \in PendingPcs => u # t /\ pc[u] \in PendingPcs
    BY <1>4 DEF PendingPcs
  <2>5. Passed' /\ PendingNotPassed'
    <3>1. addr' \in [Keys -> Address] /\ UNCHANGED target
      BY DEF IInv, TypeInv
    <3> QED BY <1>1, <2>1, <2>2, <2>3, <2>4, <3>1, RecordPassed
  <2>6. \A u \in Threads \ {t} : idx'[u] = idx[u]
    BY DEF IInv, TypeInv
  <2>7. MovedNotPending' /\ AllPassed'
    BY <1>4, <2>1, <2>6 DEF MovedNotPending, AllPassed, Here, File, disk, PendingPcs
  <2>8. PendingFresh' /\ InLinked'
    BY <1>4, <2>1 DEF PendingFresh, InLinked, disk, PendingPcs
  <2> QED BY <2>5, <2>7, <2>8
<1> QED BY <1>2, <1>3, <1>5, <1>6 DEF IInv, GarbageInv

(* A record is found live: its address is not one that is being written. *)
LEMMA LiveStep ==
  ASSUME IInv, NEW t \in Threads, pc[t] = "get",
         addr[File(t)[idx[t]].key] = Here(t),
         pc' = [pc EXCEPT ![t] = "write"],
         UNCHANGED <<addr, disk, rec, new, target, idx, fetching, puts, expect, blame>>
  PROVE  IInv'
<1>1. target[t] # 0 /\ target[t] \in VlogNumbers /\ idx[t] \in 1 .. Len(vlog[target[t]])
  BY DEF IInv, TypeInv, GcInv, CollectsInv, GcPcs
<1>2. TypeInv'
  BY DEF IInv, TypeInv, disk, Pcs, GcPcs
<1>3. GcInv'
  <2> SUFFICES ASSUME NEW u \in Threads
               PROVE  CollectsInv(pc'[u], g_vlog_number, vlog, target[u], idx[u], rec[u], new[u])
    BY DEF IInv, TypeInv, GcInv, disk, Threads
  <2>1. CollectsInv(pc[u], g_vlog_number, vlog, target[u], idx[u], rec[u], new[u])
    BY DEF IInv, GcInv
  <2> QED BY <2>1 DEF IInv, TypeInv, CollectsInv, GcPcs, NoGcPcs, PendingPcs
<1>4. \A u \in Threads : pc'[u] # "write" => u # t /\ pc'[u] = pc[u]
  BY DEF IInv, TypeInv
<1>5. ExactInv'
  BY <1>4, ExactKept DEF IInv, disk, PendingPcs
<1>6. ASSUME blame' = {}
      PROVE  /\ Passed' /\ PendingNotPassed' /\ MovedNotPending'
             /\ PendingFresh' /\ AllPassed' /\ InLinked'
  <2>1. /\ Passed /\ PendingNotPassed /\ MovedNotPending /\ PendingFresh /\ AllPassed /\ InLinked
    BY <1>6 DEF IInv, GarbageInv
  <2>2. Passed' /\ PendingNotPassed' /\ AllPassed'
    BY <1>4, <2>1 DEF Passed, PendingNotPassed, AllPassed, File, disk, PendingPcs
  <2>3. PendingFresh' /\ InLinked'
    BY <1>4, <2>1 DEF PendingFresh, InLinked, disk, PendingPcs
  <2>4. File(t)[idx[t]].key \in Keys
    <3>1. PICK q \in Seq(Record) : q = vlog[target[t]]
      BY <1>1 DEF IInv, TypeInv
    <3>2. q[idx[t]] \in Record
      BY <1>1, <3>1
    <3> QED BY <3>1, <3>2 DEF File, Record
  <2>5. \A u \in Threads : pc[u] \in PendingPcs => new[u] # Here(t)
    BY <2>1, <2>4 DEF PendingFresh
  <2>6. MovedNotPending'
    <3> SUFFICES ASSUME NEW u \in Threads, NEW w \in Threads, target[u] # 0, w # u,
                        pc'[u] \in {"write", "number", "update"}, pc'[w] \in PendingPcs
                 PROVE  new[w] # Here(u)
      BY DEF MovedNotPending, Here
    <3>1. pc[w] \in PendingPcs
      BY <1>4 DEF PendingPcs
    <3>2. CASE u = t
      BY <2>5, <3>1, <3>2
    <3>3. CASE u # t
      BY <2>1, <3>1, <3>3 DEF MovedNotPending, IInv, TypeInv
    <3> QED BY <3>2, <3>3
  <2> QED BY <2>2, <2>3, <2>6
<1> QED BY <1>2, <1>3, <1>5, <1>6 DEF IInv, GarbageInv

(* GCGET_ADDR, a record that cannot be written, and a reply that was lost. *)
LEMMA GetSteps ==
  ASSUME IInv, NEW t \in Threads, GcGet(t) \/ GcWriteFails(t) \/ (t = "gc" /\ GcReturns)
  PROVE  IInv'
<1>1. CASE GcGet(t)
  <2>1. UNCHANGED <<addr, disk, rec, new, target, fetching, puts, expect>> /\ pc[t] = "get"
    BY <1>1 DEF GcGet
  <2>2. \/ /\ addr[File(t)[idx[t]].key] = Here(t)
           /\ pc' = [pc EXCEPT ![t] = "write"] /\ UNCHANGED <<idx, blame>>
        \/ /\ pc' = [pc EXCEPT ![t] = "scan"] /\ idx' = [idx EXCEPT ![t] = @ + 1]
           /\ blame \subseteq blame'
           /\ addr[File(t)[idx[t]].key] = Here(t) => blame' # {}
           /\ (\E u \in Threads \ {t} : Here(t) \in Pending(u)) => blame' # {}
    BY <1>1 DEF GcGet, Goto
  <2> QED BY <2>1, <2>2, SkipStep, LiveStep
<1>2. CASE GcWriteFails(t)
  <2>1. /\ UNCHANGED <<addr, disk, rec, new, target, fetching, puts, expect>> /\ pc[t] = "write"
        /\ pc' = [pc EXCEPT ![t] = "scan"] /\ idx' = [idx EXCEPT ![t] = @ + 1]
        /\ blame \subseteq blame'
        /\ addr[File(t)[idx[t]].key] = Here(t) => blame' # {}
    BY <1>2 DEF GcWriteFails, Note, Goto
  <2> QED BY <2>1, SkipStep
<1>3. CASE t = "gc" /\ GcReturns
  <2>1. /\ UNCHANGED <<addr, disk, rec, new, target, fetching, puts, expect>> /\ pc[t] = "hung"
        /\ pc' = [pc EXCEPT ![t] = "scan"] /\ idx' = [idx EXCEPT ![t] = @ + 1]
        /\ blame \subseteq blame'
        /\ addr[File(t)[idx[t]].key] = Here(t) => blame' # {}
        /\ Here(t) \in Pending("main") => blame' # {}
    BY <1>3 DEF GcReturns, Goto
  <2>2. (\E u \in Threads \ {t} : Here(t) \in Pending(u)) => blame' # {}
    BY <1>3, <2>1 DEF Threads
  <2> QED BY <2>1, <2>2, SkipStep
<1> QED BY <1>1, <1>2, <1>3

(* A record is appended, for a PUT or to move it: its address is new. *)
LEMMA AppendStep ==
  ASSUME IInv, NEW t \in Threads, NEW r \in Record, AppendRecord(t, r),
         pc[t] = "idle" \/ (pc[t] = "write" /\ r = File(t)[idx[t]]),
         pc[t] = "idle" => t = "main",
         UNCHANGED <<addr, target, idx, fetching, expect, blame>>, puts' \in Nat
  PROVE  IInv'
<1>1. PICK n \in VlogNumbers :
        /\ n >= g_vlog_number /\ g_vlog_number' = n
        /\ vlog' \in [VlogNumbers -> Seq(Record)] /\ Grown(vlog, vlog')
        /\ \A m \in VlogNumbers : m < g_vlog_number => vlog'[m] = vlog[m]
        /\ manager_' = manager_ \cup {n} /\ linked' = linked \cup {n}
        /\ rec' = [rec EXCEPT ![t] = r]
        /\ new' = [new EXCEPT ![t] = [vlog |-> n, pos |-> Len(vlog[n]) + 1]]
        /\ pc' = [pc EXCEPT ![t] = "number"]
        /\ HoldsIn(manager_', vlog', [vlog |-> n, pos |-> Len(vlog[n]) + 1], r)
  BY Appended DEF IInv
<1>2. PICK a \in Address : a = [vlog |-> n, pos |-> Len(vlog[n]) + 1]
  <2>1. n \in Nat /\ Len(vlog[n]) \in Nat
    BY GCAssumption DEF VlogNumbers, IInv, TypeInv
  <2>2. PICK p \in Nat : p = Len(vlog[n]) + 1
    BY <2>1
  <2> QED BY <2>1, <2>2 DEF Address
<1>3. a.vlog = n /\ a.pos = Len(vlog[n]) + 1 /\ n \in Nat /\ n # 0 /\ Len(vlog[n]) \in Nat
  BY <1>2, GCAssumption DEF VlogNumbers, IInv, TypeInv
<1>4. new' = [new EXCEPT ![t] = a] /\ HoldsIn(manager_', vlog', a, r)
  BY <1>1, <1>2
<1>5. TypeInv'
  <2>1. manager_' \in SUBSET VlogNumbers /\ linked' \in SUBSET manager_' /\ g_vlog_number' \in linked'
    BY <1>1 DEF IInv, TypeInv
  <2>2. rec' \in [Threads -> Record \cup {NoRecord}] /\ new' \in [Threads -> Address]
    BY <1>1, <1>4 DEF IInv, TypeInv
  <2>3. pc' \in [Threads -> Pcs]
    BY <1>1 DEF IInv, TypeInv, Pcs
  <2> QED BY <1>1, <2>1, <2>2, <2>3 DEF IInv, TypeInv
<1>6. \A u \in Threads \ {t} : pc'[u] = pc[u] /\ rec'[u] = rec[u] /\ new'[u] = new[u]
  BY <1>1, <1>4 DEF IInv, TypeInv
<1>7. pc'[t] = "number" /\ rec'[t] = r /\ new'[t] = a
  BY <1>1, <1>4 DEF IInv, TypeInv
<1>8. \A u \in Threads : target[u] # 0 =>
         target[u] < g_vlog_number /\ target[u] < n /\ vlog'[target[u]] = vlog[target[u]]
  <2> SUFFICES ASSUME NEW u \in Threads, target[u] # 0
               PROVE  target[u] < g_vlog_number /\ target[u] < n /\ vlog'[target[u]] = vlog[target[u]]
    OBVIOUS
  <2>1. target[u] < g_vlog_number
    BY DEF IInv, GcInv, CollectsInv
  <2>2. target[u] \in VlogNumbers /\ g_vlog_number \in VlogNumbers /\ VlogNumbers \subseteq Nat
    BY GCAssumption DEF IInv, TypeInv, VlogNumbers
  <2>3. target[u] \in Nat /\ g_vlog_number \in Nat /\ n \in Nat /\ n >= g_vlog_number
    BY <1>1, <2>2
  <2>4. target[u] < n
    BY <2>1, <2>3
  <2> QED BY <1>1, <2>1, <2>2, <2>4
<1>9. GcInv'
  <2>1. pc'["main"] \notin {"fetch", "dead"} => fetching = {}
    BY <1>6, <1>7 DEF IInv, GcInv, Threads
  <2> SUFFICES ASSUME NEW u \in Threads
               PROVE  CollectsInv(pc'[u], n, vlog', target[u], idx[u], rec'[u], new'[u])
    BY <1>1, <2>1 DEF GcInv
  <2>2. CollectsInv(pc[u], g_vlog_number, vlog, target[u], idx[u], rec[u], new[u])
    BY DEF IInv, GcInv
  <2>3. CASE u # t
    BY <1>6, <1>8, <2>2, <2>3 DEF CollectsInv
  <2>4. CASE u = t
    <3>1. r # NoRecord
      BY GCAssumption DEF Record, NoRecord, Keys
    <3> QED BY <1>3, <1>7, <1>8, <2>2, <2>4, <3>1
            DEF CollectsInv, File, GcPcs, NoGcPcs, PendingPcs
  <2> QED BY <2>3, <2>4
<1>10. ExactInv'
  <2> SUFFICES ASSUME Calm PROVE AddrExact' /\ PendingExact' /\ FetchingExact'
    BY DEF ExactInv, Calm
  <2>1. AddrExact /\ PendingExact /\ FetchingExact
    BY DEF IInv, ExactInv
  <2>2. \A b, s : HoldsIn(manager_, vlog, b, s) => HoldsIn(manager_', vlog', b, s)
    <3>1. manager_ \in SUBSET VlogNumbers /\ manager_ \subseteq manager_'
          /\ vlog \in [VlogNumbers -> Seq(Record)]
      BY <1>1 DEF IInv, TypeInv
    <3> QED BY <1>1, <3>1, HoldsStays
  <2>3. AddrExact' /\ FetchingExact'
    BY <2>1, <2>2 DEF AddrExact, FetchingExact
  <2>4. PendingExact'
    BY <1>4, <1>6, <1>7, <2>1, <2>2 DEF PendingExact
  <2> QED BY <2>3, <2>4
<1>11. ASSUME blame' = {}
      PROVE  /\ Passed' /\ PendingNotPassed' /\ MovedNotPending'
             /\ PendingFresh' /\ AllPassed' /\ InLinked'
  <2>1. /\ Passed /\ PendingNotPassed /\ MovedNotPending /\ PendingFresh /\ AllPassed /\ InLinked
        /\ AddrExact /\ PendingExact
    BY <1>11 DEF IInv, GarbageInv, ExactInv, Calm
  <2>2. \A u \in Threads : pc'[u] \in PendingPcs /\ u # t => pc[u] \in PendingPcs /\ new'[u] = new[u]
    BY <1>6
  <2>3. Passed'
    BY <2>1 DEF Passed
  <2>4. PendingNotPassed'
    <3> SUFFICES ASSUME NEW u \in Threads, NEW w \in Threads, target[u] # 0, w # u,
                        pc'[w] \in PendingPcs, new'[w].vlog = target[u]
                 PROVE  new'[w].pos >= idx[u]
      BY DEF PendingNotPassed
    <3>1. CASE w = t
      <4>1. target[u] < n /\ target[u] = n
        BY <1>3, <1>7, <1>8, <3>1
      <4> QED BY <1>3, <4>1
    <3>2. CASE w # t
      BY <2>1, <2>2, <3>2 DEF PendingNotPassed
    <3> QED BY <3>1, <3>2
  <2>5. MovedNotPending'
    <3> SUFFICES ASSUME NEW u \in Threads, NEW w \in Threads, target[u] # 0, w # u,
                        pc'[u] \in {"write", "number", "update"}, pc'[w] \in PendingPcs
                 PROVE  new'[w] # Here(u)
      BY DEF MovedNotPending, Here
    <3>1. CASE w = t
      <4>1. Here(u).vlog # n
        <5>1. Here(u).vlog = target[u]
          BY DEF Here
        <5>2. target[u] < n /\ target[u] \in VlogNumbers \cup {0}
          BY <1>8 DEF IInv, TypeInv
        <5>3. target[u] \in Nat
          BY <5>2, GCAssumption DEF VlogNumbers
        <5> QED BY <1>3, <5>1, <5>2, <5>3
      <4> QED BY <1>3, <1>7, <3>1, <4>1
    <3>2. CASE w # t
      <4>1. pc[u] \in {"write", "number", "update"}
        <5>1. CASE u = t
          <6>1. pc[t] # "idle"
            BY <5>1 DEF IInv, GcInv, CollectsInv, NoGcPcs
          <6> QED BY <5>1, <6>1
        <5>2. CASE u # t
          BY <1>6, <5>2
        <5> QED BY <5>1, <5>2
      <4> QED BY <2>1, <2>2, <3>2, <4>1 DEF MovedNotPending
    <3> QED BY <3>1, <3>2
  <2>6. PendingFresh'
    <3>1. \A k \in Keys : addr[k] # a
      <4> SUFFICES ASSUME NEW k \in Keys, addr[k] = a PROVE FALSE
        OBVIOUS
      <4>1. addr[k] # NotFound
        BY <1>3 DEF NotFound
      <4>2. addr[k].pos <= Len(vlog[addr[k].vlog])
        BY <2>1, <4>1, KnownAddress DEF IInv
      <4> QED BY <1>3, <4>2
    <3>2. \A u \in Threads : pc[u] \in PendingPcs => new[u] # a
      <4> SUFFICES ASSUME NEW u \in Threads, pc[u] \in PendingPcs, new[u] = a PROVE FALSE
        OBVIOUS
      <4> QED BY <1>3, <2>1, PendingAddress DEF IInv
    <3> QED BY <1>7, <2>1, <2>2, <3>1, <3>2 DEF PendingFresh
  <2>7. AllPassed'
    <3> SUFFICES ASSUME NEW u \in Threads, pc'[u] = "remove"
                 PROVE  idx[u] = 1 \/ idx[u] > Len(vlog'[target[u]])
      BY DEF AllPassed, File
    <3>1. u # t /\ pc[u] = "remove" /\ target[u] # 0
      BY <1>6, <1>7 DEF IInv, GcInv, CollectsInv, GcPcs
    <3> QED BY <1>8, <2>1, <3>1 DEF AllPassed, File
  <2>8. InLinked'
    <3>1. linked \subseteq linked' /\ n \in linked'
      BY <1>1
    <3>2. \A k \in Keys : addr'[k] # NotFound => addr'[k].vlog \in linked'
      BY <2>1, <3>1 DEF InLinked
    <3>3. ASSUME NEW u \in Threads, pc'[u] \in PendingPcs PROVE new'[u].vlog \in linked'
      <4>1. CASE u = t
        BY <1>3, <1>7, <3>1, <4>1
      <4>2. CASE u # t
        BY <1>6, <2>1, <3>1, <3>3, <4>2 DEF InLinked
      <4> QED BY <4>1, <4>2
    <3> QED BY <3>2, <3>3 DEF InLinked
  <2> QED BY <2>3, <2>4, <2>5, <2>6, <2>7, <2>8
<1> QED BY <1>5, <1>9, <1>10, <1>11 DEF IInv, GarbageInv

(* The vlog number of the address is read; if it is another one by then,   *)
(* the address is mislabelled.                                             *)
LEMMA NumberStep ==
  ASSUME IInv, NEW t \in Threads, ReadNumber(t)
  PROVE  IInv'
<1>1. /\ pc[t] = "number" /\ blame \subseteq blame'
      /\ UNCHANGED <<addr, vlog, linked, manager_, g_vlog_number, rec, target, idx, fetching, puts, expect>>
      /\ new' = [new EXCEPT ![t].vlog = g_vlog_number]
      /\ new[t].vlog # g_vlog_number => "mislabel" \in blame'
  BY DEF ReadNumber, Note, disk
<1>2. PICK l \in {"put", "update"} :
        pc' = [pc EXCEPT ![t] = l] /\ (l = "put" <=> target[t] = 0)
  BY DEF ReadNumber, Goto
<1>3. g_vlog_number \in VlogNumbers /\ VlogNumbers \subseteq Nat
  BY GCAssumption DEF IInv, TypeInv, VlogNumbers
<1>4. PICK a \in Address : a = [new[t] EXCEPT !.vlog = g_vlog_number]
  BY <1>3 DEF IInv, TypeInv, Address
<1>5. a.vlog = g_vlog_number /\ (new[t].vlog = g_vlog_number => a = new[t])
  <2>1. new[t] \in Address
    BY DEF IInv, TypeInv
  <2> QED BY <1>4, <2>1 DEF Address
<1>6. new' = [new EXCEPT ![t] = a]
  BY <1>1, <1>4 DEF IInv, TypeInv
<1>7. TypeInv'
  BY <1>1, <1>2, <1>6 DEF IInv, TypeInv, Pcs, GcPcs, NoGcPcs
<1>8. \A u \in Threads \ {t} : pc'[u] = pc[u] /\ new'[u] = new[u]
  BY <1>2, <1>6 DEF IInv, TypeInv
<1>9. pc'[t] = l /\ new'[t] = a
  BY <1>2, <1>6 DEF IInv, TypeInv
<1>10. GcInv'
  <2>1. pc'["main"] \notin {"fetch", "dead"} => fetching = {}
    BY <1>1, <1>8 DEF IInv, GcInv, Threads
  <2> SUFFICES ASSUME NEW u \in Threads
               PROVE  CollectsInv(pc'[u], g_vlog_number, vlog, target[u], idx[u], rec[u], new'[u])
    BY <1>1, <2>1 DEF GcInv
  <2>2. CollectsInv(pc[u], g_vlog_number, vlog, target[u], idx[u], rec[u], new[u])
    BY DEF IInv, GcInv
  <2>3. CASE u # t
    BY <1>8, <2>2, <2>3
  <2>4. CASE u = t
    BY <1>1, <1>2, <1>3, <1>5, <1>9, <2>2, <2>4
       DEF CollectsInv, GcPcs, NoGcPcs, PendingPcs, IInv, TypeInv
  <2> QED BY <2>3, <2>4
<1>11. "mislabel" \notin blame' => UNCHANGED new
  BY <1>1, <1>5, <1>6 DEF IInv, TypeInv
<1>12. \A u \in Threads : pc'[u] \in PendingPcs => pc[u] \in PendingPcs
  BY <1>1, <1>8 DEF PendingPcs
<1>13. ExactInv'
  BY <1>1, <1>11, <1>12, ExactKept DEF IInv, ExactInv, Calm
<1>14. ASSUME blame' = {}
      PROVE  /\ Passed' /\ PendingNotPassed' /\ MovedNotPending'
             /\ PendingFresh' /\ AllPassed' /\ InLinked'
  <2>1. Passed /\ PendingNotPassed /\ MovedNotPending /\ PendingFresh /\ AllPassed /\ InLinked
    BY <1>1, <1>14 DEF IInv, GarbageInv
  <2>2. UNCHANGED new
    BY <1>11, <1>14
  <2>3. \A u \in Threads : /\ pc'[u] \in {"write", "number", "update"}
                                 => pc[u] \in {"write", "number", "update"}
                           /\ pc'[u] = "remove" => pc[u] = "remove"
    BY <1>1, <1>2, <1>8, <1>9
  <2>4. Passed' /\ PendingNotPassed' /\ AllPassed'
    BY <1>1, <1>12, <2>1, <2>2, <2>3 DEF Passed, PendingNotPassed, AllPassed, File
  <2>5. MovedNotPending'
    BY <1>1, <1>12, <2>1, <2>2, <2>3 DEF MovedNotPending, Here
  <2>6. PendingFresh' /\ InLinked'
    BY <1>1, <1>12, <2>1, <2>2 DEF PendingFresh, InLinked
  <2> QED BY <2>4, <2>5, <2>6
<1> QED BY <1>7, <1>10, <1>13, <1>14 DEF IInv, GarbageInv

(* DELETE: the master removes the key, or not. *)
LEMMA DeleteStep ==
  ASSUME IInv, NEW k \in Keys, Delete(k)
  PROVE  IInv'
<1>1. /\ pc["main"] = "idle"
      /\ UNCHANGED <<vlog, linked, manager_, g_vlog_number, pc, rec, new, target, idx, fetching, puts, blame>>
      /\ \/ addr' = [addr EXCEPT ![k] = NotFound] /\ expect' = [expect EXCEPT ![k] = NoValue]
         \/ UNCHANGED <<addr, expect>>
  BY DEF Delete, disk, locals
<1>2. fetching = {}
  BY <1>1 DEF IInv, GcInv
<1>3. NotFound \in Address /\ NoValue \in Nat
  BY DEF NotFound, NoValue, Address
<1>4. addr' \in [Keys -> Address] /\ expect' \in [Keys -> Nat]
  BY <1>1, <1>3 DEF IInv, TypeInv
<1>5. \A j \in Keys : \/ addr'[j] = addr[j] /\ expect'[j] = expect[j]
                      \/ addr'[j] = NotFound /\ expect'[j] = NoValue
  BY <1>1 DEF IInv, TypeInv
<1>6. TypeInv' /\ GcInv'
  BY <1>1, <1>4 DEF IInv, TypeInv, GcInv
<1>7. ExactInv'
  BY <1>1, <1>2, <1>5 DEF IInv, ExactInv, Calm, AddrExact, PendingExact, FetchingExact
<1>8. ASSUME blame' = {}
      PROVE  /\ Passed' /\ PendingNotPassed' /\ MovedNotPending'
             /\ PendingFresh' /\ AllPassed' /\ InLinked'
  <2>1. /\ Passed /\ PendingNotPassed /\ MovedNotPending /\ PendingFresh /\ AllPassed /\ InLinked
        /\ PendingExact
    BY <1>1, <1>8 DEF IInv, GarbageInv, ExactInv, Calm
  <2>2. Passed'
    BY <1>1, <1>5, <2>1 DEF Passed, NotFound
  <2>3. PendingNotPassed' /\ MovedNotPending' /\ AllPassed'
    BY <1>1, <2>1 DEF PendingNotPassed, MovedNotPending, AllPassed, Here, File
  <2>4. \A u \in Threads : pc[u] \in PendingPcs => new[u] # NotFound
    BY <2>1, PendingAddress DEF IInv, NotFound
  <2>5. PendingFresh' /\ InLinked'
    BY <1>1, <1>5, <2>1, <2>4 DEF PendingFresh, InLinked
  <2> QED BY <2>2, <2>3, <2>5
<1> QED BY <1>6, <1>7, <1>8 DEF IInv, GarbageInv

(* PUT_ADDR: the master gets the address of the record just written. *)
LEMMA PutAddrStep ==
  ASSUME IInv, PutAddr
  PROVE  IInv'
<1> DEFINE t == "main"
<1>1. /\ pc[t] = "put"
      /\ UNCHANGED <<vlog, linked, manager_, g_vlog_number, target, idx, fetching, puts, blame>>
      /\ pc' = [pc EXCEPT ![t] = "idle"]
      /\ rec' = [rec EXCEPT ![t] = NoRecord] /\ new' = [new EXCEPT ![t] = NotFound]
      /\ \/ /\ addr' = [addr EXCEPT ![rec[t].key] = new[t]]
            /\ expect' = [expect EXCEPT ![rec[t].key] = rec[t].val]
         \/ UNCHANGED <<addr, expect>>
  BY DEF PutAddr, DropRecord, Goto, disk
<1>2. t \in Threads /\ fetching = {} /\ target[t] = 0 /\ pc[t] \in PendingPcs
  BY <1>1 DEF IInv, GcInv, CollectsInv, NoGcPcs, PendingPcs, Threads
<1>3. PICK r \in Record : r = rec[t]
  BY <1>2 DEF IInv, TypeInv, GcInv, CollectsInv
<1>4. r.key \in Keys /\ r.val \in Nat /\ r.val # NoValue /\ r = [key |-> r.key, val |-> r.val]
  BY DEF Record, NoValue
<1>5. PICK a \in Address : a = new[t]
  BY <1>2 DEF IInv, TypeInv
<1>6. addr' \in [Keys -> Address] /\ expect' \in [Keys -> Nat]
  BY <1>1, <1>3, <1>4, <1>5 DEF IInv, TypeInv
<1>7. \A k \in Keys : \/ addr'[k] = addr[k] /\ expect'[k] = expect[k]
                      \/ k = r.key /\ addr'[k] = a /\ expect'[k] = r.val
  BY <1>1, <1>3, <1>4, <1>5 DEF IInv, TypeInv
<1>8. NotFound \in Address
  BY DEF NotFound, Address
<1>9. TypeInv'
  <2>1. rec' \in [Threads -> Record \cup {NoRecord}] /\ new' \in [Threads -> Address]
    BY <1>1, <1>8 DEF IInv, TypeInv
  <2>2. pc' \in [Threads -> Pcs]
    BY <1>1 DEF IInv, TypeInv, Pcs, NoGcPcs
  <2> QED BY <1>1, <1>6, <2>1, <2>2 DEF IInv, TypeInv
<1>10. \A u \in Threads : pc'[u] # "idle" =>
         u # t /\ pc'[u] = pc[u] /\ rec'[u] = rec[u] /\ new'[u] = new[u]
  BY <1>1, <1>2 DEF IInv, TypeInv
<1>11. GcInv'
  <2> SUFFICES ASSUME NEW u \in Threads
               PROVE  CollectsInv(pc'[u], g_vlog_number, vlog, target[u], idx[u], rec'[u], new'[u])
    BY <1>1, <1>2 DEF GcInv
  <2>1. CollectsInv(pc[u], g_vlog_number, vlog, target[u], idx[u], rec[u], new[u])
    BY DEF IInv, GcInv
  <2>2. CASE u # t
    BY <1>1, <2>1, <2>2 DEF IInv, TypeInv
  <2>3. CASE u = t
    <3>1. pc'[u] = "idle"
      BY <1>1, <1>2, <2>3 DEF IInv, TypeInv
    <3> QED BY <1>2, <2>3, <3>1 DEF CollectsInv, GcPcs, NoGcPcs, PendingPcs
  <2> QED BY <2>2, <2>3
<1>12. \A u \in Threads : pc'[u] \in PendingPcs =>
         u # t /\ pc[u] \in PendingPcs /\ rec'[u] = rec[u] /\ new'[u] = new[u]
  BY <1>10 DEF PendingPcs
<1>13. ExactInv'
  <2> SUFFICES ASSUME Calm PROVE AddrExact' /\ PendingExact' /\ FetchingExact'
    BY <1>1 DEF ExactInv, Calm
  <2>1. AddrExact /\ PendingExact
    BY DEF IInv, ExactInv
  <2>2. HoldsIn(manager_, vlog, a, [key |-> r.key, val |-> r.val])
    BY <1>2, <1>3, <1>4, <1>5, <2>1 DEF PendingExact
  <2>3. AddrExact'
    BY <1>1, <1>4, <1>7, <2>1, <2>2 DEF AddrExact
  <2>4. PendingExact' /\ FetchingExact'
    BY <1>1, <1>2, <1>12, <2>1 DEF PendingExact, FetchingExact
  <2> QED BY <2>3, <2>4
<1>14. ASSUME blame' = {}
      PROVE  /\ Passed' /\ PendingNotPassed' /\ MovedNotPending'
             /\ PendingFresh' /\ AllPassed' /\ InLinked'
  <2>1. Passed /\ PendingNotPassed /\ MovedNotPending /\ PendingFresh /\ AllPassed /\ InLinked
    BY <1>1, <1>14 DEF IInv, GarbageInv
  <2>2. Passed'
    <3> SUFFICES ASSUME NEW u \in Threads, target[u] # 0, NEW k \in Keys, addr'[k].vlog = target[u]
                 PROVE  addr'[k].pos >= idx[u]
      BY <1>1 DEF Passed
    <3>1. CASE addr'[k] = addr[k]
      BY <2>1, <3>1 DEF Passed
    <3>2. CASE addr'[k] = a
      BY <1>2, <1>5, <2>1, <3>2 DEF PendingNotPassed
    <3> QED BY <1>7, <3>1, <3>2
  <2>3. PendingNotPassed'
    BY <1>1, <1>12, <2>1 DEF PendingNotPassed
  <2>4. MovedNotPending' /\ AllPassed'
    BY <1>1, <1>10, <1>12, <2>1 DEF MovedNotPending, AllPassed, Here, File
  <2>5. PendingFresh'
    <3> SUFFICES ASSUME NEW u \in Threads, pc'[u] \in PendingPcs
                 PROVE  /\ \A k \in Keys : addr'[k] # new[u]
                        /\ \A w \in Threads : w # u /\ pc'[w] \in PendingPcs => new[w] # new[u]
      BY <1>12 DEF PendingFresh
    <3> QED BY <1>2, <1>5, <1>7, <1>12, <2>1 DEF PendingFresh
  <2>6. InLinked'
    BY <1>1, <1>2, <1>5, <1>7, <1>12, <2>1 DEF InLinked
  <2> QED BY <2>2, <2>3, <2>4, <2>5, <2>6
<1> QED BY <1>9, <1>11, <1>13, <1>14 DEF IInv, GarbageInv

(* UPDATE_ADDR: the master swaps the address of a record that was moved if *)
(* it still is the old one.                                                *)
LEMMA UpdateStep ==
  ASSUME IInv, NEW t \in Threads, GcUpdate(t)
  PROVE  IInv'
<1>1. /\ pc[t] = "update" /\ blame \subseteq blame'
      /\ UNCHANGED <<vlog, linked, manager_, g_vlog_number, target, fetching, puts, expect>>
      /\ pc' = [pc EXCEPT ![t] = "scan"] /\ idx' = [idx EXCEPT ![t] = @ + 1]
      /\ rec' = [rec EXCEPT ![t] = NoRecord] /\ new' = [new EXCEPT ![t] = NotFound]
  BY DEF GcUpdate, DropRecord, Goto, disk
<1>2. /\ target[t] # 0 /\ pc[t] \in PendingPcs /\ rec[t] = File(t)[idx[t]]
      /\ new[t].vlog > target[t]
  BY <1>1 DEF IInv, GcInv, CollectsInv, GcPcs, PendingPcs, File
<1>3. PICK r \in Record : r = rec[t]
  BY <1>2 DEF IInv, TypeInv, GcInv, CollectsInv
<1>4. r.key \in Keys /\ r = [key |-> r.key, val |-> r.val]
  BY DEF Record
<1>5. PICK a \in Address : a = new[t]
  BY DEF IInv, TypeInv
<1>6. \/ /\ addr' = [addr EXCEPT ![r.key] = a]
         /\ addr[r.key] = Here(t) \/ "unread" \in blame' \/ "resurrect" \in blame'
      \/ addr' = addr /\ (addr[r.key] # Here(t) \/ blame' # {})
  BY <1>3, <1>5 DEF GcUpdate, CasSucceeds, Served
<1>7. addr' \in [Keys -> Address]
  BY <1>4, <1>6 DEF IInv, TypeInv
<1>8. TypeInv'
  <2>1. NotFound \in Address
    BY DEF NotFound, Address
  <2>2. rec' \in [Threads -> Record \cup {NoRecord}] /\ new' \in [Threads -> Address]
    BY <1>1, <2>1 DEF IInv, TypeInv
  <2>3. pc' \in [Threads -> Pcs]
    BY <1>1 DEF IInv, TypeInv, Pcs, GcPcs
  <2>4. idx' \in [Threads -> Nat \ {0}]
    BY <1>1 DEF IInv, TypeInv
  <2> QED BY <1>1, <1>7, <2>2, <2>3, <2>4 DEF IInv, TypeInv
<1>9. \A u \in Threads \ {t} :
         pc'[u] = pc[u] /\ rec'[u] = rec[u] /\ new'[u] = new[u] /\ idx'[u] = idx[u]
  BY <1>1 DEF IInv, TypeInv
<1>10. pc'[t] = "scan"
  BY <1>1 DEF IInv, TypeInv
<1>11. GcInv'
  <2>1. pc'["main"] \notin {"fetch", "dead"} => fetching = {}
    BY <1>1, <1>9 DEF IInv, GcInv, Threads
  <2> SUFFICES ASSUME NEW u \in Threads
               PROVE  CollectsInv(pc'[u], g_vlog_number, vlog, target[u], idx'[u], rec'[u], new'[u])
    BY <1>1, <2>1 DEF GcInv
  <2>2. CollectsInv(pc[u], g_vlog_number, vlog, target[u], idx[u], rec[u], new[u])
    BY DEF IInv, GcInv
  <2>3. CASE u # t
    BY <1>9, <2>2, <2>3
  <2>4. CASE u = t
    BY <1>2, <1>10, <2>2, <2>4 DEF CollectsInv, GcPcs, NoGcPcs, PendingPcs
  <2> QED BY <2>3, <2>4
<1>12. \A u \in Threads : pc'[u] \in PendingPcs =>
         u # t /\ pc[u] \in PendingPcs /\ rec'[u] = rec[u] /\ new'[u] = new[u]
  BY <1>9, <1>10 DEF PendingPcs
<1>13. ExactInv'
  <2> SUFFICES ASSUME Calm' PROVE AddrExact' /\ PendingExact' /\ FetchingExact'
    BY DEF ExactInv
  <2>1. AddrExact /\ PendingExact /\ FetchingExact
    BY <1>1 DEF IInv, ExactInv, Calm
  <2>2. PendingExact' /\ FetchingExact'
    BY <1>1, <1>12, <2>1 DEF PendingExact, FetchingExact
  <2>3. CASE addr' = addr
    BY <1>1, <2>1, <2>2, <2>3 DEF AddrExact
  <2>4. CASE addr' # addr
    <3>1. addr' = [addr EXCEPT ![r.key] = a] /\ addr[r.key] = Here(t)
      BY <1>6, <2>4 DEF Calm
    <3>2. r = [key |-> r.key, val |-> expect[r.key]]
      BY <1>2, <1>3, <1>4, <2>1, <3>1, OwnKey DEF IInv
    <3>3. HoldsIn(manager_, vlog, a, [key |-> r.key, val |-> expect[r.key]])
      BY <1>2, <1>3, <1>5, <2>1, <3>2 DEF PendingExact
    <3>4. expect[r.key] # NoValue
      <4>1. Here(t).vlog # NotFound.vlog
        BY <1>2 DEF Here, NotFound
      <4>2. addr[r.key] # NotFound
        BY <3>1, <4>1
      <4> QED BY <1>4, <2>1, <4>2 DEF AddrExact
    <3>5. AddrExact'
      BY <1>1, <1>4, <2>1, <3>1, <3>3, <3>4 DEF AddrExact, IInv, TypeInv
    <3> QED BY <2>2, <3>5
  <2> QED BY <2>3, <2>4
<1>14. ASSUME blame' = {}
      PROVE  /\ Passed' /\ PendingNotPassed' /\ MovedNotPending'
             /\ PendingFresh' /\ AllPassed' /\ InLinked'
  <2>1. /\ Passed /\ PendingNotPassed /\ MovedNotPending /\ PendingFresh /\ AllPassed /\ InLinked
        /\ AddrExact /\ PendingExact
    BY <1>1, <1>14 DEF IInv, GarbageInv, ExactInv, Calm
  <2>2. \A k \in Keys : addr'[k] = addr[k] \/ addr'[k] = a
    BY <1>4, <1>6 DEF IInv, TypeInv
  <2>3. \A k \in Keys : addr'[k] # Here(t)
    <3> SUFFICES ASSUME NEW k \in Keys, addr'[k] = Here(t) PROVE FALSE
      OBVIOUS
    <3>1. a # Here(t) /\ addr[k] = Here(t)
      <4>1. a.vlog # target[t]
        BY <1>2, <1>5, GCAssumption DEF IInv, TypeInv, Address, VlogNumbers
      <4> QED BY <2>2, <4>1 DEF Here
    <3>2. k = r.key
      <4>1. r = [key |-> k, val |-> expect[k]]
        BY <1>2, <1>3, <2>1, <3>1, OwnKey DEF IInv
      <4> QED BY <4>1
    <3> QED BY <1>4, <1>6, <1>14, <3>1, <3>2 DEF IInv, TypeInv
  <2>4. Passed' /\ PendingNotPassed'
    <3>1. \A u \in Threads : u # t /\ pc[u] \in PendingPcs => new[u] # Here(t)
      BY <1>1, <1>2, <2>1 DEF MovedNotPending
    <3>2. \A k \in Keys : \/ addr'[k] = addr[k]
                          \/ /\ addr'[k].vlog # target[t]
                             /\ \A u \in Threads \ {t} : target[u] # 0 /\ addr'[k].vlog = target[u]
                                                           => addr'[k].pos >= idx[u]
      <4>1. a.vlog # target[t]
        BY <1>2, <1>5, GCAssumption DEF IInv, TypeInv, Address, VlogNumbers
      <4>2. \A u \in Threads \ {t} : target[u] # 0 /\ a.vlog = target[u] => a.pos >= idx[u]
        BY <1>2, <1>5, <2>1 DEF PendingNotPassed
      <4> QED BY <2>2, <4>1, <4>2
    <3> QED BY <1>1, <1>2, <1>7, <1>12, <2>1, <2>3, <3>1, <3>2, RecordPassed
  <2>5. MovedNotPending' /\ AllPassed'
    BY <1>1, <1>9, <1>10, <1>12, <2>1 DEF MovedNotPending, AllPassed, Here, File
  <2>6. PendingFresh'
    <3> SUFFICES ASSUME NEW u \in Threads, pc'[u] \in PendingPcs
                 PROVE  /\ \A k \in Keys : addr'[k] # new[u]
                        /\ \A w \in Threads : w # u /\ pc'[w] \in PendingPcs => new[w] # new[u]
      BY <1>12 DEF PendingFresh
    <3> QED BY <1>2, <1>5, <1>12, <2>1, <2>2 DEF PendingFresh
  <2>7. InLinked'
    BY <1>1, <1>2, <1>5, <1>12, <2>1, <2>2 DEF InLinked
  <2> QED BY <2>4, <2>5, <2>6, <2>7
<1> QED BY <1>8, <1>11, <1>13, <1>14 DEF IInv, GarbageInv

(* The GC thread is left waiting: the master may have served its request. *)
LEMMA ReusedStep ==
  ASSUME IInv, DescriptorReused
  PROVE  IInv'
<1>0. PICK t \in Threads : t = "gc"
  BY DEF Threads
<1>1. /\ pc["main"] = "idle" /\ pc[t] \in {"get", "update"} /\ blame \subseteq blame'
      /\ UNCHANGED <<vlog, linked, manager_, g_vlog_number, target, idx, fetching, puts, expect>>
      /\ pc' = [pc EXCEPT !["main"] = "reconnect", !["gc"] = "hung"]
      /\ rec' = [rec EXCEPT ![t] = NoRecord] /\ new' = [new EXCEPT ![t] = NotFound]
  BY <1>0 DEF DescriptorReused, DropRecord, Note, disk
<1>2. /\ target[t] # 0 /\ target["main"] = 0 /\ fetching = {}
      /\ idx[t] \in 1 .. Len(vlog[target[t]])
  BY <1>1 DEF IInv, GcInv, CollectsInv, GcPcs, NoGcPcs, Threads
<1>3. \/ addr' = addr
      \/ /\ pc[t] = "update" /\ addr' = [addr EXCEPT ![rec[t].key] = new[t]]
         /\ addr[rec[t].key] = Here(t) \/ "resurrect" \in blame'
  BY <1>0 DEF DescriptorReused, CasSucceeds, Note
<1>4. pc'["main"] = "reconnect" /\ pc'["gc"] = "hung" /\ \A u \in Threads : pc'[u] \in {"reconnect", "hung"}
  BY <1>1 DEF IInv, TypeInv, Threads
<1>5. ASSUME pc[t] = "update"
      PROVE  /\ rec[t] \in Record /\ new[t] \in Address /\ rec[t] = File(t)[idx[t]]
             /\ new[t].vlog > target[t] /\ pc[t] \in PendingPcs
  BY <1>2, <1>5 DEF IInv, TypeInv, GcInv, CollectsInv, GcPcs, PendingPcs, File
<1>6. addr' \in [Keys -> Address]
  <2>1. pc[t] = "update" => rec[t].key \in Keys
    BY <1>5 DEF Record
  <2> QED BY <1>3, <1>5, <2>1 DEF IInv, TypeInv
<1>7. TypeInv'
  <2>1. NotFound \in Address
    BY DEF NotFound, Address
  <2>2. rec' \in [Threads -> Record \cup {NoRecord}] /\ new' \in [Threads -> Address]
    BY <1>1, <2>1 DEF IInv, TypeInv
  <2>3. pc' \in [Threads -> Pcs]
    BY <1>1 DEF IInv, TypeInv, Pcs, GcPcs, NoGcPcs
  <2> QED BY <1>1, <1>6, <2>2, <2>3 DEF IInv, TypeInv
<1>8. GcInv'
  <2> SUFFICES ASSUME NEW u \in Threads
               PROVE  CollectsInv(pc'[u], g_vlog_number, vlog, target[u], idx[u], rec'[u], new'[u])
    BY <1>1, <1>2 DEF GcInv
  <2>1. CollectsInv(pc[u], g_vlog_number, vlog, target[u], idx[u], rec[u], new[u])
    BY DEF IInv, GcInv
  <2>2. CASE u = t
    BY <1>0, <1>2, <1>4, <2>1, <2>2 DEF CollectsInv, GcPcs, NoGcPcs, PendingPcs
  <2>3. CASE u = "main"
    BY <1>2, <1>4, <2>3 DEF CollectsInv, GcPcs, NoGcPcs, PendingPcs
  <2> QED BY <1>0, <2>2, <2>3 DEF Threads
<1>9. \A u \in Threads : pc'[u] \notin PendingPcs \cup {"write", "number", "update", "remove"}
  BY <1>4 DEF PendingPcs
<1>10. ExactInv'
  <2> SUFFICES ASSUME Calm' PROVE AddrExact' /\ PendingExact' /\ FetchingExact'
    BY DEF ExactInv
  <2>1. AddrExact /\ PendingExact
    BY <1>1 DEF IInv, ExactInv, Calm
  <2>2. PendingExact' /\ FetchingExact'
    BY <1>1, <1>2, <1>9 DEF PendingExact, FetchingExact
  <2>3. CASE addr' = addr
    BY <1>1, <2>1, <2>2, <2>3 DEF AddrExact
  <2>4. CASE addr' # addr
    <3>0. PICK r \in Record, a \in Address : r = rec[t] /\ a = new[t]
      BY <1>3, <1>5, <2>4
    <3>1. addr' = [addr EXCEPT ![r.key] = a] /\ addr[r.key] = Here(t) /\ pc[t] \in PendingPcs
      BY <1>3, <1>5, <2>4, <3>0 DEF Calm
    <3>2. r.key \in Keys /\ r = [key |-> r.key, val |-> r.val]
      BY DEF Record
    <3>3. r = [key |-> r.key, val |-> expect[r.key]]
      BY <1>2, <1>3, <1>5, <2>1, <2>4, <3>0, <3>1, <3>2, OwnKey DEF IInv
    <3>4. HoldsIn(manager_, vlog, a, [key |-> r.key, val |-> expect[r.key]])
      BY <2>1, <3>0, <3>1, <3>3 DEF PendingExact
    <3>5. expect[r.key] # NoValue
      <4>1. Here(t).vlog # NotFound.vlog
        BY <1>2 DEF Here, NotFound
      <4>2. addr[r.key] # NotFound
        BY <3>1, <4>1
      <4> QED BY <2>1, <3>2, <4>2 DEF AddrExact
    <3>6. AddrExact'
      BY <1>1, <2>1, <3>1, <3>2, <3>4, <3>5 DEF AddrExact, IInv, TypeInv
    <3> QED BY <2>2, <3>6
  <2> QED BY <2>3, <2>4
<1>11. ASSUME blame' = {}
      PROVE  /\ Passed' /\ PendingNotPassed' /\ MovedNotPending'
             /\ PendingFresh' /\ AllPassed' /\ InLinked'
  <2>1. Passed /\ InLinked
    BY <1>1, <1>11 DEF IInv, GarbageInv
  <2>2. \A k \in Keys : \/ addr'[k] = addr[k]
                        \/ pc[t] = "update" /\ addr'[k] = new[t]
    BY <1>3 DEF IInv, TypeInv
  <2>3. pc[t] = "update" => new[t].vlog # target[t]
    BY <1>5, GCAssumption DEF IInv, TypeInv, Address, VlogNumbers
  <2>4. \A u \in Threads : u = t \/ target[u] = 0
    BY <1>0, <1>2 DEF Threads
  <2>5. Passed'
    BY <1>1, <2>1, <2>2, <2>3, <2>4 DEF Passed
  <2>6. InLinked'
    BY <1>1, <1>5, <1>9, <2>1, <2>2 DEF InLinked
  <2>7. PendingNotPassed' /\ MovedNotPending' /\ PendingFresh' /\ AllPassed'
    BY <1>9 DEF PendingNotPassed, MovedNotPending, PendingFresh, AllPassed
  <2> QED BY <2>5, <2>6, <2>7
<1> QED BY <1>7, <1>8, <1>10, <1>11 DEF IInv, GarbageInv

-----------------------------------------------------------------------------
(* The theorems *)

(* The invariant holds when the slave has started. *)
LEMMA InitIInv ==
  ASSUME Init
  PROVE  IInv
<1>1. 1 \in VlogNumbers
  BY GCAssumption DEF VlogNumbers
<1>2. NotFound \in Address /\ NoRecord \in Record \cup {NoRecord} /\ <<>> \in Seq(Record)
  BY DEF NotFound, Address
<1>3. addr \in [Keys -> Address] /\ new \in [Threads -> Address]
      /\ vlog \in [VlogNumbers -> Seq(Record)] /\ rec \in [Threads -> Record \cup {NoRecord}]
  BY <1>2 DEF Init
<1>4. TypeInv
  BY <1>1, <1>3 DEF Init, TypeInv, Pcs, NoGcPcs, NoValue
<1>5. GcInv
  BY DEF Init, GcInv, CollectsInv, GcPcs, NoGcPcs, PendingPcs
<1>6. ExactInv
  BY DEF Init, ExactInv, AddrExact, PendingExact, FetchingExact, PendingPcs
<1>7. GarbageInv
  BY DEF Init, GarbageInv, Passed, PendingNotPassed, MovedNotPending, PendingFresh, AllPassed,
         InLinked, PendingPcs
<1> QED BY <1>4, <1>5, <1>6, <1>7 DEF IInv

(* Every step keeps it. *)
LEMMA NextIInv ==
  ASSUME IInv, [Next]_vars
  PROVE  IInv'
<1>1. ASSUME NEW k \in Keys, Put(k) PROVE IInv'
  <2>1. [key |-> k, val |-> puts + 1] \in Record /\ "main" \in Threads /\ puts + 1 \in Nat
    BY DEF IInv, TypeInv, Record, Threads
  <2>2. PICK r \in Record : r = [key |-> k, val |-> puts + 1]
    BY <2>1
  <2>3. PICK t \in Threads : t = "main"
    BY <2>1
  <2>4. /\ AppendRecord(t, r) /\ pc[t] = "idle" /\ puts' \in Nat
        /\ UNCHANGED <<addr, target, idx, fetching, expect, blame>>
    BY <1>1, <2>1, <2>2, <2>3 DEF Put
  <2> QED BY <2>3, <2>4, AppendStep
<1>2. ASSUME NEW t \in Threads, GcWrite(t) PROVE IInv'
  <2>1. target[t] \in VlogNumbers /\ idx[t] \in 1 .. Len(vlog[target[t]])
    BY <1>2 DEF GcWrite, IInv, TypeInv, GcInv, CollectsInv, GcPcs
  <2>2. PICK q \in Seq(Record) : q = vlog[target[t]]
    BY <2>1 DEF IInv, TypeInv
  <2>3. q[idx[t]] \in Record
    BY <2>1, <2>2
  <2>4. File(t)[idx[t]] \in Record
    BY <2>2, <2>3 DEF File
  <2>5. puts' \in Nat
    BY <1>2 DEF GcWrite, IInv, TypeInv
  <2> QED BY <1>2, <2>4, <2>5, AppendStep DEF GcWrite
<1>3. ASSUME GcCommand \/ GcRound PROVE IInv'
  BY <1>3, StartStep DEF GcCommand, GcRound, Threads
<1>4. ASSUME NEW t \in Threads, GcStep(t) PROVE IInv'
  BY <1>2, <1>4, OpenStep, NextStep, GetSteps, NumberStep, UpdateStep, RemoveStep DEF GcStep
<1>5. CASE UNCHANGED vars
  <2>1. UNCHANGED kept /\ UNCHANGED <<pc, fetching>>
    BY <1>5 DEF vars, kept, disk, locals
  <2>2. /\ pc' \in [Threads -> Pcs] /\ fetching' \in SUBSET [key : Keys, addr : Address]
        /\ pc'["main"] \notin {"fetch", "dead"} => fetching' = {}
    BY <2>1 DEF IInv, TypeInv, GcInv
  <2>3. Calm => FetchingExact'
    BY <2>1 DEF IInv, ExactInv, FetchingExact, kept
  <2> QED BY <2>1, <2>2, <2>3, QuietStep
<1>6. ASSUME GcReturns PROVE IInv'
  BY <1>6, GetSteps DEF Threads
<1> QED BY <1>1, <1>3, <1>4, <1>5, <1>6, DeleteStep, ScanStep, PutAddrStep, FetchStep, LinkSteps,
           ReusedStep
        DEF Next, Command

(* IInv is an inductive invariant of a slave and its part of the master. *)
THEOREM Inductive == Spec => []IInv
<1>1. Init => IInv
  BY InitIInv
<1>2. IInv /\ [Next]_vars => IInv'
  BY NextIInv
<1> QED BY <1>1, <1>2, PTL DEF Spec

(* A GET or SCAN reads the value that the key had when the master gave out *)
(* its address, although GC may move the record and unlink its file before *)
(* FetchValueFromVlog opens it, unless an address was mislabelled, a key   *)
(* revived or an address swapped without a comparison.                     *)
THEOREM ReadsCorrect == Spec => []ReadsReturnValue
<1>1. IInv => ReadsReturnValue
  BY DEF IInv, ExactInv, Calm, FetchingExact, ReadsReturnValue, Holds, HoldsIn
<1> QED BY <1>1, Inductive, PTL

(* What execute_gc_on_file has passed in a file is garbage and stays so,   *)
(* whatever PUTs, DELETEs and another collection do meanwhile.             *)
THEOREM PassedIsGarbage == Spec => []ScannedIsGarbage
<1>1. IInv => ScannedIsGarbage
  BY DEF IInv, GarbageInv, Passed, ScannedIsGarbage
<1> QED BY <1>1, Inductive, PTL

(* GC concurrent with commands loses, changes and revives no value: while  *)
(* none of the hazardous events has happened, the master has an address    *)
(* exactly for the keys that have a value, and it names the record of the  *)
(* last PUT in a file that is still linked.                                *)
THEOREM NoValueLost == Spec => []ValuesSafe
<1>1. IInv => ValuesSafe
  <2> SUFFICES ASSUME IInv, blame = {}, NEW k \in Keys
               PROVE  IF expect[k] = NoValue THEN addr[k] = NotFound
                      ELSE addr[k].vlog \in linked /\ Holds(addr[k], [key |-> k, val |-> expect[k]])
    BY DEF ValuesSafe
  <2>1. AddrExact /\ InLinked
    BY DEF IInv, ExactInv, Calm, GarbageInv
  <2>2. CASE expect[k] = NoValue
    BY <2>1, <2>2 DEF AddrExact
  <2>3. CASE expect[k] # NoValue
    <3>1. HoldsIn(manager_, vlog, addr[k], [key |-> k, val |-> expect[k]])
      BY <2>1, <2>3 DEF AddrExact
    <3>2. addr[k] # NotFound
      <4>1. addr[k].vlog # 0
        BY <3>1, GCAssumption DEF HoldsIn, IInv, TypeInv, VlogNumbers
      <4> QED BY <4>1 DEF NotFound
    <3> QED BY <2>1, <2>3, <3>1, <3>2 DEF InLinked, Holds, HoldsIn
  <2> QED BY <2>2, <2>3
<1> QED BY <1>1, Inductive, PTL
=============================================================================
