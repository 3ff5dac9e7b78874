------------------------ MODULE SlaveRecoveryProofs ------------------------
(***************************************************************************)
(* Proofs about a slave over several lives, for every set of entries, all  *)
(* sizes and any number of vlogs, writes, restarts and crashes: what a     *)
(* graceful stop leaves on disk, and what a start makes of it.             *)
(***************************************************************************)
EXTENDS SlaveRecovery, VlogLemmas

Address == [vlog : VlogNumbers, offset : Nat, entry : Entries]

\* VlogInfos m and files f are well formed.
Sound(m, f) ==
  /\ DOMAIN m \subseteq VlogNumbers /\ m \in [DOMAIN m -> VlogInfo]
  /\ \A n \in DOMAIN m : WellPlaced(m[n].buf)
  /\ f \in [VlogNumbers -> Chunk] /\ \A n \in VlogNumbers : WellPlaced(f[n])

TypeInv ==
  /\ up \in BOOLEAN
  /\ Sound(manager_, files)
  /\ linked \subseteq VlogNumbers
  /\ meta.pos \in Nat /\ pos \in [Threads -> Nat]
  /\ acked \subseteq Address /\ pend \subseteq Address /\ fresh \subseteq Address
  /\ target \in VlogNumbers \cup {0}
  /\ ~up => pend = {} /\ fresh = {} /\ target = 0
  /\ crashes \in Nat

\* Everything written to vlog n.
All(n) == Append2(files[n], manager_[n].buf)

Stores(a) ==
  a.vlog \in DOMAIN manager_ /\ a.offset - kVHeaderSize \in Nat /\ RecordAt(a) \in All(a.vlog).recs

\* While the process runs.
Running ==
  /\ cur_vlog_ = g_vlog_number /\ g_vlog_number \in linked
  /\ linked \subseteq DOMAIN manager_ /\ \A n \in DOMAIN manager_ : n <= g_vlog_number
  /\ manager_[g_vlog_number].head = files[g_vlog_number].len
  /\ \A n \in DOMAIN manager_ : n # g_vlog_number => manager_[n].buf = NoBytes
  /\ \A a \in (acked \cup pend) \ skipped : a.vlog \in linked
  /\ \A a \in acked \cup pend : a.vlog <= g_vlog_number /\ (a.vlog \in linked => Stores(a))
  /\ \A a \in fresh : Stores(a) /\ manager_[a.vlog].head = files[a.vlog].len

\* While GC works on a file: no address it has not skipped is one of a record
\* it has passed.
Scanning ==
  target # 0 =>
    /\ target \in linked /\ target < g_vlog_number
    /\ \A a \in (acked \cup pend) \ skipped : a.vlog = target => RecordAt(a) \notin seen

\* After it stopped: VLOG_META has the newest file and its length.
Stopped ==
  /\ meta.number \in linked /\ \A n \in linked : n <= meta.number
  /\ meta.pos = files[meta.number].len
  /\ \A a \in acked \ skipped : a.vlog \in linked
  /\ \A a \in acked :
       /\ a.vlog <= meta.number
       /\ a.vlog \in linked => OnDisk(a) /\ a.offset - kVHeaderSize \in Nat

RunInv  == crashes = 0 /\ up => Running
ScanInv == crashes = 0 /\ up => Scanning
StopInv == crashes = 0 /\ ~up => Stopped

(***************************************************************************)
(* The inductive invariant.  StoppedHasAllOnDisk says nothing of a running *)
(* slave, whose newest records are in a buffer, or of a file that GC has   *)
(* half read, and CurrentReadable nothing of what a start will find.       *)
(***************************************************************************)
IInv == TypeInv /\ RunInv /\ ScanInv /\ StopInv

-----------------------------------------------------------------------------
(* VlogInfos and files *)

(* Reading sound maps. *)
LEMMA SoundFacts ==
  ASSUME NEW m, NEW f, Sound(m, f)
  PROVE  /\ \A n \in DOMAIN m : /\ n \in VlogNumbers /\ m[n] \in VlogInfo
                                /\ m[n].head \in Nat /\ m[n].buf \in Chunk
                                /\ m[n].buf.len \in Nat /\ WellPlaced(m[n].buf)
         /\ \A n \in VlogNumbers : n \in Nat /\ f[n] \in Chunk /\ f[n].len \in Nat
                                   /\ WellPlaced(f[n])
         /\ \A n : WritePosOf(m, n) \in Nat
<1>1. \A n \in DOMAIN m : /\ n \in VlogNumbers /\ m[n] \in VlogInfo
                          /\ m[n].head \in Nat /\ m[n].buf \in Chunk
                          /\ m[n].buf.len \in Nat /\ WellPlaced(m[n].buf)
  BY DEF Sound, VlogInfo, Chunk
<1>2. \A n \in VlogNumbers : n \in Nat /\ f[n] \in Chunk /\ f[n].len \in Nat /\ WellPlaced(f[n])
  BY DEF Sound, Chunk, VlogNumbers
<1>3. \A n : WritePosOf(m, n) \in Nat
  BY <1>1 DEF WritePosOf, WritePos
<1> QED BY <1>1, <1>2, <1>3

(* A vlog that starts is empty. *)
LEMMA NewFacts ==
  /\ NewVlogInfo \in VlogInfo /\ NewVlogInfo.buf = NoBytes /\ NewVlogInfo.head = 0
  /\ NoBytes.len = 0
BY NoBytesFacts DEF NewVlogInfo, VlogInfo, NoBytes

(* Replacing one VlogInfo and one file by well-formed ones. *)
LEMMA SoundUpdate ==
  ASSUME NEW m, NEW f, Sound(m, f), NEW n, NEW k \in VlogNumbers,
         NEW v \in VlogInfo, WellPlaced(v.buf), NEW c \in Chunk, WellPlaced(c)
  PROVE  /\ Sound([m EXCEPT ![n] = v], [f EXCEPT ![n] = c])
         /\ Sound(With(m, k, v), [f EXCEPT ![k] = c])
<1>1. Sound([m EXCEPT ![n] = v], [f EXCEPT ![n] = c])
  BY DEF Sound
<1>2. PICK w : w = With(m, k, v)
  OBVIOUS
<1>3. /\ DOMAIN w = DOMAIN m \cup {k} /\ w \in [DOMAIN w -> VlogInfo]
      /\ w[k] = v /\ \A i \in DOMAIN m : i # k => w[i] = m[i]
  BY <1>2 DEF With, Sound
<1>4. Sound(w, [f EXCEPT ![k] = c])
  BY <1>3 DEF Sound
<1> QED BY <1>1, <1>2, <1>4

(* Appending to a file takes no record out of it. *)
LEMMA AppendKeeps == \A c, d : c.recs \subseteq Append2(c, d).recs
BY DEF Append2

(* AddVlog keeps the maps well formed, and the records of every file that is
   in the directory. *)
LEMMA AddVlogFacts ==
  ASSUME NEW m, NEW f, Sound(m, f), NEW k \in VlogNumbers
  PROVE  LET a == AddVlog(m, f, k)
         IN  /\ Sound(a.m, a.f)
             /\ \A n \in VlogNumbers \cap linked : f[n].recs \subseteq a.f[n].recs
<1>1. PICK c : c = IF k \in DOMAIN m THEN Append2(f[k], m[k].buf) ELSE Opened(f, k)
  OBVIOUS
<1>2. c \in Chunk /\ WellPlaced(c) /\ (k \in linked => f[k].recs \subseteq c.recs)
  <2>1. CASE k \in DOMAIN m
    <3>1. /\ f[k] \in Chunk /\ m[k].buf \in Chunk
          /\ WellPlaced(f[k]) /\ WellPlaced(m[k].buf)
      BY <2>1, SoundFacts
    <3>2. c = Append2(f[k], m[k].buf)
      BY <1>1, <2>1
    <3> QED BY <3>1, <3>2, Append2Facts, AppendKeeps
  <2>2. CASE k \notin DOMAIN m
    <3>1. c = Opened(f, k) /\ f[k] \in Chunk /\ WellPlaced(f[k])
      BY <1>1, <2>2, SoundFacts
    <3> QED BY <3>1, NoBytesFacts DEF Opened
  <2> QED BY <2>1, <2>2
<1>3. AddVlog(m, f, k) = [m |-> With(m, k, NewVlogInfo), f |-> [f EXCEPT ![k] = c]]
  <2>1. k \in DOMAIN f
    BY DEF Sound
  <2> QED BY <1>1, <2>1 DEF AddVlog
<1>4. Sound(With(m, k, NewVlogInfo), [f EXCEPT ![k] = c])
  <2>1. NewVlogInfo \in VlogInfo /\ WellPlaced(NewVlogInfo.buf)
    BY NewFacts, NoBytesFacts
  <2> QED BY <1>2, <2>1, SoundUpdate
<1>5. \A n \in VlogNumbers \cap linked : f[n].recs \subseteq [f EXCEPT ![k] = c][n].recs
  BY <1>2 DEF Sound
<1> QED BY <1>3, <1>4, <1>5

-----------------------------------------------------------------------------
(* write_value_to_vlog *)

(* A rotation is due only with a current VlogInfo: it flushes that vlog and
   adds the next one. *)
LEMMA RotationIs ==
  ASSUME TypeInv, GetWritePos >= max_vlog_size
  PROVE  /\ cur_vlog_ \in DOMAIN manager_
         /\ \E v \in VlogInfo, c \in Chunk :
              LET a == AddVlog([manager_ EXCEPT ![cur_vlog_] = v],
                               [files EXCEPT ![cur_vlog_] = c], g_vlog_number + 1)
              IN  /\ c = All(cur_vlog_) /\ WellPlaced(c)
                  /\ v.buf = NoBytes
                  /\ files[cur_vlog_].len = manager_[cur_vlog_].head => v.head = c.len
                  /\ Rotated = [m |-> a.m, f |-> a.f, cur |-> g_vlog_number + 1,
                                num |-> g_vlog_number + 1]
<1>0. Sound(manager_, files)
  BY DEF TypeInv
<1>1. GetWritePos > 0
  BY <1>0, SoundFacts, RecoveryAssumption DEF GetWritePos
<1>2. cur_vlog_ \in DOMAIN manager_
  BY <1>1 DEF GetWritePos, WritePosOf
<1>3. /\ manager_[cur_vlog_] \in VlogInfo /\ files[cur_vlog_] \in Chunk
      /\ WellPlaced(manager_[cur_vlog_].buf) /\ WellPlaced(files[cur_vlog_])
  BY <1>0, <1>2, SoundFacts
<1>4. PICK fl : fl = FlushBuffer(manager_[cur_vlog_], files[cur_vlog_])
  OBVIOUS
<1>5. /\ fl.info \in VlogInfo /\ fl.info.buf = NoBytes
      /\ fl.file \in Chunk /\ fl.file = Append2(files[cur_vlog_], manager_[cur_vlog_].buf)
      /\ files[cur_vlog_].len = manager_[cur_vlog_].head => fl.info.head = fl.file.len
      /\ WellPlaced(fl.file)
  BY <1>3, <1>4, FlushFacts
<1>6. Rotated = LET a == AddVlog([manager_ EXCEPT ![cur_vlog_] = fl.info],
                                 [files EXCEPT ![cur_vlog_] = fl.file], g_vlog_number + 1)
                IN  [m |-> a.m, f |-> a.f, cur |-> g_vlog_number + 1, num |-> g_vlog_number + 1]
  BY <1>4 DEF Rotated
<1> QED BY <1>2, <1>5, <1>6 DEF All

(* The maps after the rotation are well formed, and every file in the
   directory has the records it had. *)
LEMMA RotatedSound ==
  ASSUME TypeInv, Rotated.num \in VlogNumbers
  PROVE  /\ Sound(Rotated.m, Rotated.f)
         /\ \A n \in linked : files[n].recs \subseteq Rotated.f[n].recs
<1>0. Sound(manager_, files) /\ linked \subseteq VlogNumbers
  BY DEF TypeInv
<1>1. CASE ~(GetWritePos >= max_vlog_size)
  <2>1. Rotated.m = manager_ /\ Rotated.f = files
    BY <1>1 DEF Rotated
  <2> QED BY <1>0, <2>1
<1>2. CASE GetWritePos >= max_vlog_size
  <2>1. cur_vlog_ \in DOMAIN manager_
    BY <1>2, RotationIs
  <2>2. PICK v \in VlogInfo, c \in Chunk :
              LET a == AddVlog([manager_ EXCEPT ![cur_vlog_] = v],
                               [files EXCEPT ![cur_vlog_] = c], g_vlog_number + 1)
              IN  /\ c = All(cur_vlog_) /\ WellPlaced(c)
                  /\ v.buf = NoBytes
                  /\ files[cur_vlog_].len = manager_[cur_vlog_].head => v.head = c.len
                  /\ Rotated = [m |-> a.m, f |-> a.f, cur |-> g_vlog_number + 1,
                                num |-> g_vlog_number + 1]
    BY <1>2, RotationIs
  <2>3. PICK m, f, k : /\ m = [manager_ EXCEPT ![cur_vlog_] = v]
                       /\ f = [files EXCEPT ![cur_vlog_] = c] /\ k = g_vlog_number + 1
    OBVIOUS
  <2>4. /\ Rotated.m = AddVlog(m, f, k).m /\ Rotated.f = AddVlog(m, f, k).f
        /\ k \in VlogNumbers
    BY <2>2, <2>3
  <2>5. Sound(m, f)
    <3>1. WellPlaced(v.buf) /\ WellPlaced(c) /\ 1 \in VlogNumbers
      BY <2>2, NoBytesFacts, RecoveryAssumption DEF VlogNumbers
    <3> QED BY <1>0, <2>3, <3>1, SoundUpdate
  <2>6. \A n \in linked : files[n].recs \subseteq f[n].recs
    <3>1. files[cur_vlog_].recs \subseteq c.recs
      BY <2>2, AppendKeeps DEF All
    <3> QED BY <1>0, <2>3, <3>1 DEF Sound
  <2>7. /\ Sound(Rotated.m, Rotated.f)
        /\ \A n \in VlogNumbers \cap linked : f[n].recs \subseteq Rotated.f[n].recs
    BY <2>4, <2>5, AddVlogFacts
  <2> QED BY <1>0, <2>6, <2>7
<1> QED BY <1>1, <1>2

(* Without a crash, the rotation leaves the vlog to write to as the newest
   one, with its head_ at the end of its file and everything older on disk;
   no vlog has other contents than before. *)
LEMMA RotatedRun ==
  ASSUME TypeInv, RunInv, crashes = 0, up, Rotated.num \in VlogNumbers
  PROVE  LET r == Rotated
         IN  /\ r.cur = r.num /\ r.num \in DOMAIN r.m
             /\ DOMAIN manager_ \subseteq DOMAIN r.m
             /\ \A n \in DOMAIN r.m : n <= r.num
             /\ r.m[r.num].head = r.f[r.num].len
             /\ \A n \in DOMAIN r.m : n # r.num => r.m[n].buf = NoBytes
             /\ \A n \in DOMAIN manager_ :
                  /\ Append2(r.f[n], r.m[n].buf) = All(n)
                  /\ manager_[n].head = files[n].len => r.m[n].head = r.f[n].len
             /\ r.num \in linked \/ r.num > g_vlog_number
             /\ DOMAIN r.m \subseteq DOMAIN manager_ \cup {r.num}
<1>0. Sound(manager_, files) /\ linked \subseteq VlogNumbers
  BY DEF TypeInv
<1>r. /\ cur_vlog_ = g_vlog_number /\ g_vlog_number \in linked
      /\ g_vlog_number \in DOMAIN manager_ /\ g_vlog_number \in Nat
      /\ linked \subseteq DOMAIN manager_ /\ \A n \in DOMAIN manager_ : n <= g_vlog_number
      /\ manager_[g_vlog_number].head = files[g_vlog_number].len
      /\ \A n \in DOMAIN manager_ : n # g_vlog_number => manager_[n].buf = NoBytes
  <2>1. /\ cur_vlog_ = g_vlog_number /\ g_vlog_number \in linked
        /\ linked \subseteq DOMAIN manager_ /\ \A n \in DOMAIN manager_ : n <= g_vlog_number
        /\ manager_[g_vlog_number].head = files[g_vlog_number].len
        /\ \A n \in DOMAIN manager_ : n # g_vlog_number => manager_[n].buf = NoBytes
    BY Zenon DEF RunInv, Running
  <2>2. g_vlog_number \in DOMAIN manager_
    BY <2>1
  <2>3. g_vlog_number \in Nat
    <3>1. g_vlog_number \in VlogNumbers
      BY <1>0, <2>1, Zenon
    <3> QED BY <1>0, <3>1, SoundFacts, Zenon
  <2> QED BY <2>1, <2>2, <2>3
<1>1. CASE ~(GetWritePos >= max_vlog_size)
  <2>1. /\ Rotated.m = manager_ /\ Rotated.f = files
        /\ Rotated.cur = cur_vlog_ /\ Rotated.num = g_vlog_number
    BY <1>1 DEF Rotated
  <2> QED BY <1>r, <2>1 DEF All
<1>2. CASE GetWritePos >= max_vlog_size
  <2>2. PICK v \in VlogInfo, c \in Chunk :
              LET a == AddVlog([manager_ EXCEPT ![cur_vlog_] = v],
                               [files EXCEPT ![cur_vlog_] = c], g_vlog_number + 1)
              IN  /\ c = All(cur_vlog_) /\ WellPlaced(c)
                  /\ v.buf = NoBytes
                  /\ files[cur_vlog_].len = manager_[cur_vlog_].head => v.head = c.len
                  /\ Rotated = [m |-> a.m, f |-> a.f, cur |-> g_vlog_number + 1,
                                num |-> g_vlog_number + 1]
    BY <1>2, RotationIs
  <2>3. PICK m, f, g, k : /\ m = [manager_ EXCEPT ![g] = v] /\ g = g_vlog_number
                          /\ f = [files EXCEPT ![g] = c] /\ k = g + 1
    OBVIOUS
  <2>4. /\ Rotated.m = AddVlog(m, f, k).m /\ Rotated.f = AddVlog(m, f, k).f
        /\ Rotated.num = k /\ Rotated.cur = k /\ k \in VlogNumbers
    BY <1>r, <2>2, <2>3
  <2>5. /\ k \notin DOMAIN manager_ /\ k \notin linked /\ k > g /\ k # g
        /\ \A n \in DOMAIN manager_ : n # k /\ n <= k
    <3>1. \A n \in DOMAIN manager_ : n \in Nat /\ n <= g
      BY <1>0, <1>r, <2>3 DEF Sound, VlogNumbers
    <3>2. g \in Nat /\ k = g + 1
      BY <1>r, <2>3
    <3> QED BY <3>1, <3>2, <1>r
  <2>6. /\ DOMAIN m = DOMAIN manager_ /\ m[g] = v /\ g \in DOMAIN m
        /\ \A n \in DOMAIN m : n # g => m[n] = manager_[n]
        /\ f[g] = c /\ \A n \in VlogNumbers : n # g => f[n] = files[n]
        /\ DOMAIN f = VlogNumbers
    BY <1>0, <1>r, <2>3 DEF Sound
  <2>7. AddVlog(m, f, k).m = With(m, k, NewVlogInfo)
    BY DEF AddVlog
  <2>8. AddVlog(m, f, k).f = [f EXCEPT ![k] = NoBytes]
    BY <2>5, <2>6 DEF AddVlog, Opened
  <2>9. PICK rm, rf : rm = Rotated.m /\ rf = Rotated.f
    OBVIOUS
  <2>10. /\ DOMAIN rm = DOMAIN manager_ \cup {k} /\ rm[k] = NewVlogInfo
         /\ \A n \in DOMAIN manager_ : rm[n] = m[n]
    BY <2>4, <2>5, <2>6, <2>7, <2>9 DEF With
  <2>11. rf[k] = NoBytes /\ \A n \in DOMAIN manager_ : rf[n] = f[n]
    BY <1>0, <2>4, <2>5, <2>6, <2>8, <2>9 DEF Sound
  <2>12. rm[k].head = rf[k].len
    BY <2>10, <2>11, NewFacts
  <2>13. ASSUME NEW n \in DOMAIN manager_
         PROVE  /\ rm[n].buf = NoBytes /\ Append2(rf[n], rm[n].buf) = All(n)
                /\ manager_[n].head = files[n].len => rm[n].head = rf[n].len
    <3>0. n \in VlogNumbers /\ files[n] \in Chunk
      BY <1>0, SoundFacts
    <3>1. CASE n = g
      <4>1. rm[n] = v /\ rf[n] = c
        BY <2>6, <2>10, <2>11, <3>1
      <4>2. v.buf = NoBytes /\ c = All(n) /\ v.head = c.len
        BY <1>r, <2>2, <2>3, <3>1
      <4>3. Append2(c, NoBytes) = c
        BY Append2Empty
      <4> QED BY <4>1, <4>2, <4>3
    <3>2. CASE n # g
      <4>1. rm[n] = manager_[n] /\ rf[n] = files[n]
        BY <2>6, <2>10, <2>11, <3>0, <3>2
      <4>2. manager_[n].buf = NoBytes
        BY <1>r, <2>3, <3>2
      <4> QED BY <4>1, <4>2 DEF All
    <3> QED BY <3>1, <3>2
  <2>14. k <= k
    BY <2>4 DEF VlogNumbers
  <2>15. k > g_vlog_number
    BY <2>3, <2>5
  <2> QED BY <2>4, <2>5, <2>9, <2>10, <2>12, <2>13, <2>14, <2>15
<1> QED BY <1>1, <1>2

(* A write keeps the maps well formed, whatever an earlier crash left. *)
LEMMA WriteSound ==
  ASSUME TypeInv, NEW e \in Entries, WriteValue(e)
  PROVE  /\ Sound(manager_', files')
         /\ AddressFor(e) \in Address /\ fresh' = fresh \cup {AddressFor(e)}
         /\ linked' \subseteq VlogNumbers /\ linked \subseteq linked'
         /\ \A n \in linked : files[n].recs \subseteq files'[n].recs
<1>0. PICK rm, rf, rc, rn, w : /\ rm = Rotated.m /\ rf = Rotated.f /\ rc = Rotated.cur
                               /\ rn = Rotated.num /\ w = AddRecord(rm[rc], rf[rc], e)
  OBVIOUS
<1>1. /\ rn \in VlogNumbers /\ rc \in DOMAIN rm
      /\ manager_' = [rm EXCEPT ![rc] = w.info] /\ files' = [rf EXCEPT ![rc] = w.file]
      /\ linked' = IF rn > g_vlog_number THEN linked \cup {rn} ELSE linked
      /\ fresh' = fresh \cup {AddressFor(e)}
  BY <1>0 DEF WriteValue
<1>2. Sound(rm, rf) /\ \A n \in linked : files[n].recs \subseteq rf[n].recs
  BY <1>0, <1>1, RotatedSound
<1>3. /\ rm[rc] \in VlogInfo /\ WellPlaced(rm[rc].buf) /\ rc \in VlogNumbers
      /\ rf[rc] \in Chunk /\ WellPlaced(rf[rc]) /\ WritePosOf(rm, rc) \in Nat
  BY <1>1, <1>2, SoundFacts
<1>4. /\ w.info \in VlogInfo /\ WellPlaced(w.info.buf)
      /\ w.file \in Chunk /\ WellPlaced(w.file) /\ rf[rc].recs \subseteq w.file.recs
  BY <1>0, <1>3, AddRecordFacts
<1>5. Sound(manager_', files')
  BY <1>1, <1>2, <1>3, <1>4, SoundUpdate
<1>6. linked \subseteq VlogNumbers
  BY DEF TypeInv
<1>7. linked' \subseteq VlogNumbers /\ linked \subseteq linked'
  BY <1>1, <1>6
<1>8. \A n \in linked : files[n].recs \subseteq files'[n].recs
  BY <1>1, <1>2, <1>4, <1>6 DEF Sound
<1>9. AddressFor(e) = [vlog |-> rn, offset |-> WritePosOf(rm, rc) + kVHeaderSize, entry |-> e]
  BY <1>0 DEF AddressFor
<1>10. WritePosOf(rm, rc) + kVHeaderSize \in Nat
  BY <1>3, VlogAssumption
<1>11. AddressFor(e) \in Address
  BY <1>1, <1>9, <1>10 DEF Address
<1> QED BY <1>1, <1>5, <1>7, <1>8, <1>11

(* Without a crash, a write puts its record where its address says, behind
   everything its vlog holds, and leaves all other contents alone. *)
LEMMA WriteRun ==
  ASSUME TypeInv, RunInv, crashes = 0, up, NEW e \in Entries, WriteValue(e)
  PROVE  /\ cur_vlog_' = g_vlog_number' /\ g_vlog_number' \in linked'
         /\ linked' \subseteq DOMAIN manager_' /\ \A n \in DOMAIN manager_' : n <= g_vlog_number'
         /\ manager_'[g_vlog_number'].head = files'[g_vlog_number'].len
         /\ \A n \in DOMAIN manager_' : n # g_vlog_number' => manager_'[n].buf = NoBytes
         /\ \A n \in DOMAIN manager_ :
              /\ n \in DOMAIN manager_' /\ All(n).recs \subseteq All(n)'.recs
              /\ manager_[n].head = files[n].len => manager_'[n].head = files'[n].len
         /\ AddressFor(e).vlog = g_vlog_number'
         /\ AddressFor(e).offset - kVHeaderSize \in Nat
         /\ RecordAt(AddressFor(e)) \in All(g_vlog_number)'.recs
<1>0. PICK rm, rf, k, w : /\ rm = Rotated.m /\ rf = Rotated.f
                          /\ k = Rotated.num /\ w = AddRecord(rm[k], rf[k], e)
  OBVIOUS
<1>n. k \in VlogNumbers
  BY <1>0 DEF WriteValue
<1>r. /\ Rotated.cur = k /\ k \in DOMAIN rm /\ DOMAIN manager_ \subseteq DOMAIN rm
      /\ \A n \in DOMAIN rm : n <= k
      /\ rm[k].head = rf[k].len
      /\ \A n \in DOMAIN rm : n # k => rm[n].buf = NoBytes
      /\ \A n \in DOMAIN manager_ :
           /\ Append2(rf[n], rm[n].buf) = All(n)
           /\ manager_[n].head = files[n].len => rm[n].head = rf[n].len
      /\ k \in linked \/ k > g_vlog_number
      /\ DOMAIN rm \subseteq DOMAIN manager_ \cup {k}
  BY <1>0, <1>n, RotatedRun
<1>1. /\ manager_' = [rm EXCEPT ![k] = w.info] /\ files' = [rf EXCEPT ![k] = w.file]
      /\ linked' = IF k > g_vlog_number THEN linked \cup {k} ELSE linked
      /\ cur_vlog_' = k /\ g_vlog_number' = k
  BY <1>0, <1>r DEF WriteValue
<1>2. Sound(rm, rf)
  BY <1>0, <1>n, RotatedSound
<1>3. /\ rm[k] \in VlogInfo /\ WellPlaced(rm[k].buf) /\ rm[k].buf \in Chunk
      /\ rf[k] \in Chunk /\ WellPlaced(rf[k])
      /\ rm[k].head \in Nat /\ rm[k].buf.len \in Nat
  BY <1>n, <1>r, <1>2, SoundFacts
<1>4. /\ w.info.head = w.file.len
      /\ Append2(w.file, w.info.buf) = Append2(Append2(rf[k], rm[k].buf), RecordOf(e))
  BY <1>0, <1>r, <1>3, AddRecordFacts
<1>5. PICK c : c = Append2(rf[k], rm[k].buf)
  OBVIOUS
<1>6. c \in Chunk /\ c.len = rf[k].len + rm[k].buf.len
  BY <1>3, <1>5, Append2Facts
<1>7. Append2(w.file, w.info.buf).recs = c.recs \cup {[at |-> c.len, entry |-> e]}
  BY <1>4, <1>5, <1>6, AppendOne
<1>8. /\ DOMAIN manager_' = DOMAIN rm /\ manager_'[k] = w.info /\ files'[k] = w.file
      /\ \A n \in DOMAIN rm : n # k => manager_'[n] = rm[n] /\ files'[n] = rf[n]
  BY <1>n, <1>1, <1>2, <1>r DEF Sound
<1>9. All(k)'.recs = c.recs \cup {[at |-> c.len, entry |-> e]}
  BY <1>7, <1>8 DEF All
<1>10. ASSUME NEW n \in DOMAIN manager_
       PROVE  /\ n \in DOMAIN manager_' /\ All(n).recs \subseteq All(n)'.recs
              /\ manager_[n].head = files[n].len => manager_'[n].head = files'[n].len
  <2>1. n \in DOMAIN rm
    BY <1>r
  <2>2. CASE n = k
    <3>1. All(n) = c
      BY <1>r, <1>5, <2>2
    <3>2. manager_'[n].head = files'[n].len
      BY <1>4, <1>8, <2>2
    <3> QED BY <1>8, <1>9, <2>1, <2>2, <3>1, <3>2
  <2>3. CASE n # k
    <3>1. manager_'[n] = rm[n] /\ files'[n] = rf[n]
      BY <1>8, <2>1, <2>3
    <3>2. All(n)' = All(n)
      BY <1>r, <3>1 DEF All
    <3> QED BY <1>8, <1>r, <2>1, <3>1, <3>2
  <2> QED BY <2>2, <2>3
<1>11. linked \subseteq DOMAIN manager_
  BY Zenon DEF RunInv, Running
<1>12. k \in linked' /\ linked' \subseteq DOMAIN manager_'
  BY <1>1, <1>r, <1>8, <1>11
<1>13. /\ AddressFor(e).vlog = k /\ AddressFor(e).entry = e
       /\ AddressFor(e).offset = WritePosOf(rm, k) + kVHeaderSize
  BY <1>0, <1>r DEF AddressFor
<1>14. WritePosOf(rm, k) = c.len /\ c.len \in Nat
  BY <1>r, <1>3, <1>6 DEF WritePosOf, WritePos
<1>15. AddressFor(e).offset - kVHeaderSize = c.len
  BY <1>13, <1>14, VlogAssumption
<1>16. RecordAt(AddressFor(e)) = [at |-> c.len, entry |-> e]
  BY <1>13, <1>15 DEF RecordAt
<1>17. RecordAt(AddressFor(e)) \in All(k)'.recs
  BY <1>9, <1>16
<1>18. manager_'[k].head = files'[k].len
  BY <1>4, <1>8
<1>19. \A n \in DOMAIN manager_' : n # k => manager_'[n].buf = NoBytes
  BY <1>r, <1>8
<1>20. RecordAt(AddressFor(e)) \in All(g_vlog_number)'.recs
  BY <1>1, <1>17 DEF All
<1>21. AddressFor(e).offset - kVHeaderSize \in Nat
  BY <1>14, <1>15
<1>22. \A n \in DOMAIN manager_' : n <= k
  BY <1>r, <1>8
<1> QED BY <1>1, <1>10, <1>12, <1>13, <1>18, <1>19, <1>20, <1>21, <1>22

-----------------------------------------------------------------------------
(* Each action preserves the invariant *)

(* Put and GcMove: the only new address is the one of the record written,
   and GC passes no record of an address it neither moves nor skips. *)
LEMMA WriteStep ==
  ASSUME IInv, NEW e \in Entries, WriteValue(e), up, up' = up, crashes' = crashes,
         meta' = meta, pos' = pos, acked' \cup pend' \subseteq acked \cup pend \cup {AddressFor(e)},
         skipped \subseteq skipped', target' = target,
         \A a \in (acked' \cup pend') \ skipped' :
           a # AddressFor(e) /\ a.vlog = target /\ RecordAt(a) \notin seen => RecordAt(a) \notin seen'
  PROVE  IInv'
<1>1. TypeInv /\ RunInv /\ ScanInv
  BY DEF IInv
<1>2. /\ Sound(manager_', files')
      /\ AddressFor(e) \in Address /\ fresh' = fresh \cup {AddressFor(e)}
      /\ linked' \subseteq VlogNumbers /\ linked \subseteq linked'
  BY <1>1, WriteSound
<1>3. acked \subseteq Address /\ pend \subseteq Address /\ fresh \subseteq Address
  BY <1>1 DEF TypeInv
<1>4. acked' \subseteq Address /\ pend' \subseteq Address /\ fresh' \subseteq Address
  BY <1>2, <1>3
<1>5. TypeInv'
  BY <1>1, <1>2, <1>4, Zenon DEF TypeInv
<1>6. ASSUME crashes' = 0, up' PROVE Running' /\ Scanning'
  <2>0. crashes = 0 /\ up
    BY <1>6
  <2>1. /\ \A a \in (acked \cup pend) \ skipped : a.vlog \in linked
        /\ \A a \in acked \cup pend : a.vlog <= g_vlog_number /\ (a.vlog \in linked => Stores(a))
        /\ \A a \in fresh : Stores(a) /\ manager_[a.vlog].head = files[a.vlog].len
        /\ g_vlog_number \in linked /\ \A i \in DOMAIN manager_ : i <= g_vlog_number
        /\ linked \subseteq DOMAIN manager_
    BY <1>1, <2>0, Zenon DEF RunInv, Running
  <2>2. PICK n : n = AddressFor(e)
    OBVIOUS
  <2>3. /\ cur_vlog_' = g_vlog_number' /\ g_vlog_number' \in linked'
        /\ linked' \subseteq DOMAIN manager_' /\ \A i \in DOMAIN manager_' : i <= g_vlog_number'
        /\ manager_'[g_vlog_number'].head = files'[g_vlog_number'].len
        /\ \A i \in DOMAIN manager_' : i # g_vlog_number' => manager_'[i].buf = NoBytes
        /\ \A i \in DOMAIN manager_ :
             /\ i \in DOMAIN manager_' /\ All(i).recs \subseteq All(i)'.recs
             /\ manager_[i].head = files[i].len => manager_'[i].head = files'[i].len
        /\ n.vlog = g_vlog_number'
        /\ n.offset - kVHeaderSize \in Nat
        /\ RecordAt(n) \in All(g_vlog_number)'.recs
    BY <1>1, <2>0, <2>2, WriteRun
  <2>n. /\ g_vlog_number \in Nat /\ g_vlog_number' \in Nat /\ g_vlog_number <= g_vlog_number'
        /\ \A a \in acked \cup pend : a.vlog \in Nat
    <3>1. linked \subseteq Nat /\ linked' \subseteq Nat
      BY <1>1, <1>2 DEF TypeInv, VlogNumbers
    <3>2. \A a \in Address : a.vlog \in Nat
      BY DEF Address, VlogNumbers
    <3> QED BY <1>2, <1>3, <2>1, <2>3, <3>1, <3>2
  <2>l. \A i \in linked' : i \in linked \/ i > g_vlog_number
    <3>1. linked' = linked \/ (Rotated.num > g_vlog_number /\ linked' = linked \cup {Rotated.num})
      BY DEF WriteValue
    <3> QED BY <3>1
  <2>4. ASSUME NEW a, Stores(a)
        PROVE  /\ a.vlog \in DOMAIN manager_' /\ a.offset - kVHeaderSize \in Nat
               /\ RecordAt(a) \in All(a.vlog)'.recs
    <3>1. /\ a.vlog \in DOMAIN manager_ /\ a.offset - kVHeaderSize \in Nat
          /\ RecordAt(a) \in All(a.vlog).recs
      BY <2>4 DEF Stores
    <3>2. PICK i : i = a.vlog
      OBVIOUS
    <3>3. i \in DOMAIN manager_' /\ RecordAt(a) \in All(i)'.recs
      BY <2>3, <3>1, <3>2
    <3> QED BY <3>1, <3>2, <3>3 DEF All
  <2>5. n.vlog \in DOMAIN manager_' /\ RecordAt(n) \in Append2(files'[n.vlog], manager_'[n.vlog].buf).recs
    BY <2>3 DEF All
  <2>6. /\ \A a : Stores(a) => Stores(a)'
        /\ Stores(n)'
    <3>1. ASSUME NEW a, Stores(a) PROVE Stores(a)'
      BY <2>4, <3>1 DEF Stores, All, RecordAt
    <3>2. Stores(n)'
      BY <2>3, <2>5 DEF Stores, All, RecordAt
    <3> QED BY <3>1, <3>2
  <2>7. \A a \in (acked' \cup pend') \ skipped' : a.vlog \in linked'
    BY <1>2, <2>1, <2>2, <2>3
  <2>8. ASSUME NEW a \in acked' \cup pend'
        PROVE  a.vlog <= g_vlog_number' /\ (a.vlog \in linked' => Stores(a)')
    <3>1. CASE a = n
      BY <2>3, <2>6, <2>n, <3>1
    <3>2. CASE a \in acked \cup pend
      <4>1. a.vlog <= g_vlog_number /\ a.vlog \in Nat /\ (a.vlog \in linked => Stores(a))
        BY <2>1, <2>n, <3>2
      <4>2. a.vlog <= g_vlog_number'
        BY <2>n, <4>1
      <4>3. a.vlog \in linked' => a.vlog \in linked
        BY <2>l, <2>n, <4>1
      <4> QED BY <2>6, <4>1, <4>2, <4>3
    <3> QED BY <2>2, <3>1, <3>2
  <2>9. ASSUME NEW a \in fresh' PROVE Stores(a)' /\ manager_'[a.vlog].head = files'[a.vlog].len
    <3>1. CASE a = n
      BY <2>3, <2>6, <3>1
    <3>2. CASE a \in fresh
      <4>1. /\ Stores(a) /\ a.vlog \in DOMAIN manager_
            /\ manager_[a.vlog].head = files[a.vlog].len
        BY <2>1, <3>2 DEF Stores
      <4> QED BY <2>3, <2>6, <4>1
    <3> QED BY <1>2, <2>2, <3>1, <3>2
  <2>10. Running'
    BY <2>3, <2>7, <2>8, <2>9, Zenon DEF Running
  <2>11. ASSUME target # 0 PROVE Scanning'
    <3>1. /\ target \in linked /\ target < g_vlog_number
          /\ \A a \in (acked \cup pend) \ skipped : a.vlog = target => RecordAt(a) \notin seen
      BY <1>1, <2>0, <2>11, Zenon DEF ScanInv, Scanning
    <3>2. target \in linked' /\ target < g_vlog_number' /\ n.vlog # target
      <4>1. target \in Nat
        BY <1>1, <3>1 DEF TypeInv, VlogNumbers
      <4> QED BY <1>2, <2>3, <2>n, <3>1, <4>1
    <3>3. ASSUME NEW a, a \in acked' \cup pend', a \notin skipped', a.vlog = target
          PROVE  RecordAt(a) \notin seen'
      <4>1. a # AddressFor(e)
        BY <2>2, <3>2, <3>3
      <4>2. a \in (acked \cup pend) \ skipped
        BY <3>3, <4>1
      <4> QED BY <3>1, <3>3, <4>1, <4>2
    <3>4. \A a : RecordAt(a)' = RecordAt(a)
      BY DEF RecordAt
    <3> QED BY <3>2, <3>3, <3>4, Zenon DEF Scanning
  <2>12. CASE target = 0
    BY <2>10, <2>12 DEF Scanning
  <2> QED BY <2>10, <2>11, <2>12
<1>7. RunInv' /\ ScanInv'
  BY <1>6, Zenon DEF RunInv, ScanInv
<1>8. StopInv'
  BY Zenon DEF StopInv
<1> QED BY <1>5, <1>7, <1>8 DEF IInv

(* The steps of a running slave that write nothing: all but what GC does. *)
LEMMA QuietStep ==
  ASSUME IInv, up, up' = up, UNCHANGED <<memory, files, linked, fresh, crashes>>,
         acked' \cup pend' \subseteq acked \cup pend, skipped \subseteq skipped',
         meta'.pos \in Nat, pos' \in [Threads -> Nat], target' \in VlogNumbers \cup {0}
  PROVE  /\ TypeInv' /\ RunInv' /\ StopInv'
         /\ UNCHANGED <<target, seen>> => IInv'
<1>0. /\ manager_' = manager_ /\ cur_vlog_' = cur_vlog_ /\ g_vlog_number' = g_vlog_number
      /\ files' = files /\ linked' = linked /\ fresh' = fresh /\ crashes' = crashes
  BY DEF memory
<1>1. TypeInv /\ RunInv /\ ScanInv
  BY DEF IInv
<1>2. acked \subseteq Address /\ pend \subseteq Address
  BY <1>1 DEF TypeInv
<1>3. acked' \subseteq Address /\ pend' \subseteq Address
  BY <1>2
<1>4. TypeInv'
  BY <1>0, <1>1, <1>3, Zenon DEF TypeInv
<1>5. \A a : (Stores(a)' <=> Stores(a)) /\ RecordAt(a)' = RecordAt(a)
  BY <1>0, Zenon DEF Stores, All, RecordAt
<1>6. \A a : a \in acked' \cup pend' => a \in acked \cup pend
  OBVIOUS
<1>7. \A a : a \in (acked' \cup pend') \ skipped' => a \in (acked \cup pend) \ skipped
  OBVIOUS
<1>8. RunInv'
  BY <1>0, <1>1, <1>5, <1>6, <1>7, Zenon DEF RunInv, Running
<1>9. StopInv'
  BY Zenon DEF StopInv
<1>10. ASSUME target' = target, seen' = seen PROVE ScanInv'
  BY <1>0, <1>1, <1>5, <1>7, <1>10, Zenon DEF ScanInv, Scanning
<1> QED BY <1>4, <1>8, <1>9, <1>10 DEF IInv

(* GcOpen: nothing has been passed yet. *)
LEMMA GcOpenStep ==
  ASSUME IInv, GcOpen
  PROVE  IInv'
<1>0. /\ up /\ up' = up /\ UNCHANGED <<memory, files, linked, fresh, crashes>>
      /\ acked' = acked /\ pend' = pend /\ meta' = meta /\ pos' = pos /\ skipped' = skipped
      /\ seen' = {}
  BY DEF GcOpen, counts
<1>1. TypeInv
  BY DEF IInv
<1>2. target' \in linked /\ target' < g_vlog_number
  BY DEF GcOpen
<1>3. /\ meta'.pos \in Nat /\ pos' \in [Threads -> Nat] /\ target' \in VlogNumbers \cup {0}
      /\ acked' \cup pend' \subseteq acked \cup pend /\ skipped \subseteq skipped'
  BY <1>0, <1>1, <1>2 DEF TypeInv
<1>4. TypeInv' /\ RunInv' /\ StopInv'
  BY <1>0, <1>3, QuietStep
<1>5. ScanInv'
  <2>1. linked' = linked /\ g_vlog_number' = g_vlog_number /\ seen' = {}
    BY <1>0 DEF memory
  <2> QED BY <1>2, <2>1 DEF ScanInv, Scanning
<1> QED BY <1>4, <1>5 DEF IInv

(* An address with this record is the one GC compares with. *)
LEMMA NamesHere ==
  ASSUME NEW a \in Address, NEW r, a.vlog = target, RecordAt(a) = r
  PROVE  a = Here(r)
<1>1. /\ a = [vlog |-> a.vlog, offset |-> a.offset, entry |-> a.entry] /\ a.offset \in Nat
  BY DEF Address
<1>2. r.at = a.offset - kVHeaderSize /\ r.entry = a.entry
  BY DEF RecordAt
<1>3. r.at + kVHeaderSize = a.offset
  BY <1>1, <1>2, VlogAssumption
<1> QED BY <1>1, <1>2, <1>3 DEF Here

(* GcMove: the address of the record is replaced, or skipped. *)
LEMMA GcMoveStep ==
  ASSUME IInv, NEW r, GcMove(r)
  PROVE  /\ IInv'
         /\ r.entry \in Entries /\ WriteValue(r.entry)
<1>0. /\ TypeInv /\ acked \subseteq Address /\ pend \subseteq Address /\ Sound(manager_, files)
      /\ target \in VlogNumbers \cup {0}
  BY DEF IInv, TypeInv
<1>1. /\ up /\ target # 0 /\ r \in files[target].recs
      /\ seen' = seen \cup {r} /\ target' = target
  BY DEF GcMove, Reads
<1>2. r.entry \in Entries
  <2>1. files[target] \in Chunk
    BY <1>0, <1>1, SoundFacts
  <2> QED BY <1>1, <2>1 DEF Chunk, Placed
<1>3. /\ WriteValue(r.entry) /\ up' = up /\ meta' = meta /\ pos' = pos /\ pend' = pend
      /\ crashes' = crashes
  BY DEF GcMove
<1>4. PICK updated \in BOOLEAN :
        /\ acked' = IF updated THEN (acked \ {Here(r)}) \cup {AddressFor(r.entry)} ELSE acked
        /\ skipped' = skipped \cup Naming(pend \cup (IF updated THEN {} ELSE acked), r)
  BY DEF GcMove
<1>5. PICK h, n : h = Here(r) /\ n = AddressFor(r.entry)
  OBVIOUS
<1>6. /\ acked' \cup pend' \subseteq acked \cup pend \cup {n}
      /\ skipped \subseteq skipped'
  BY <1>3, <1>4, <1>5
<1>7. ASSUME NEW a, a \in acked' \cup pend', a \notin skipped', a # n, a.vlog = target,
             RecordAt(a) \notin seen
      PROVE  RecordAt(a) \notin seen'
  <2>1. SUFFICES ASSUME RecordAt(a) = r PROVE FALSE
    BY <1>1, <1>7
  <2>2. a \in acked \cup pend /\ a \in Address
    BY <1>0, <1>6, <1>7
  <2>3. a = h
    BY <1>5, <1>7, <2>1, <2>2, NamesHere
  <2>4. a \notin pend
    BY <1>4, <1>7, <2>1 DEF Naming
  <2>5. ~updated => a \notin acked
    BY <1>4, <1>7, <2>1 DEF Naming
  <2>6. updated => a \notin acked'
    BY <1>4, <1>5, <1>7, <2>3
  <2> QED BY <1>3, <1>7, <2>2, <2>4, <2>5, <2>6
<1>8. \A a \in (acked' \cup pend') \ skipped' :
        a # AddressFor(r.entry) /\ a.vlog = target /\ RecordAt(a) \notin seen
          => RecordAt(a) \notin seen'
  BY <1>5, <1>7
<1>9. IInv'
  BY <1>1, <1>2, <1>3, <1>5, <1>6, <1>8, WriteStep
<1> QED BY <1>2, <1>3, <1>9

(* GcPass: the record is garbage, or its address is skipped. *)
LEMMA GcPassStep ==
  ASSUME IInv, NEW r, GcPass(r)
  PROVE  IInv'
<1>0. /\ TypeInv /\ ScanInv /\ acked \subseteq Address /\ pend \subseteq Address
      /\ meta.pos \in Nat /\ pos \in [Threads -> Nat] /\ target \in VlogNumbers \cup {0}
  BY DEF IInv, TypeInv
<1>1. /\ up /\ target # 0 /\ seen' = seen \cup {r} /\ target' = target
      /\ up' = up /\ UNCHANGED <<memory, files, linked, fresh, crashes>>
      /\ acked' = acked /\ pend' = pend /\ meta' = meta /\ pos' = pos
  BY DEF GcPass, Reads, counts
<1>2. PICK failed \in BOOLEAN :
        /\ failed \/ Here(r) \notin acked
        /\ skipped' = skipped \cup Naming(pend \cup (IF failed THEN acked ELSE {}), r)
  BY DEF GcPass
<1>3. skipped \subseteq skipped'
  BY <1>2
<1>4. TypeInv' /\ RunInv' /\ StopInv'
  BY <1>0, <1>1, <1>3, QuietStep
<1>5. ASSUME crashes = 0 PROVE Scanning'
  <2>1. /\ target \in linked /\ target < g_vlog_number
        /\ \A a \in (acked \cup pend) \ skipped : a.vlog = target => RecordAt(a) \notin seen
    BY <1>0, <1>1, <1>5, Zenon DEF ScanInv, Scanning
  <2>2. ASSUME NEW a, a \in acked \cup pend, a \notin skipped', a.vlog = target
        PROVE  RecordAt(a) \notin seen'
    <3>1. a \in Address /\ RecordAt(a) \notin seen
      BY <1>0, <1>3, <2>1, <2>2
    <3>2. RecordAt(a) # r
      <4>1. SUFFICES ASSUME RecordAt(a) = r PROVE FALSE
        OBVIOUS
      <4>2. a = Here(r)
        BY <2>2, <3>1, <4>1, NamesHere
      <4>3. a \notin pend /\ (failed => a \notin acked)
        BY <1>2, <2>2, <4>1 DEF Naming
      <4> QED BY <1>2, <2>2, <4>2, <4>3
    <3> QED BY <1>1, <3>1, <3>2
  <2>3. linked' = linked /\ g_vlog_number' = g_vlog_number
    BY <1>1 DEF memory
  <2>4. \A a : RecordAt(a)' = RecordAt(a)
    BY DEF RecordAt
  <2> QED BY <1>1, <2>1, <2>2, <2>3, <2>4, Zenon DEF Scanning
<1>6. ScanInv'
  BY <1>1, <1>5, Zenon DEF ScanInv
<1> QED BY <1>4, <1>6 DEF IInv

(* GcRemove: the file is not the current one, so its records are all on disk;
   at its end GC has passed all of them, and when it stops early it skips the
   addresses that are left. *)
LEMMA GcRemoveStep ==
  ASSUME IInv, GcRemove
  PROVE  IInv'
<1>0. /\ up /\ up' = up /\ manager_' = manager_ /\ cur_vlog_' = cur_vlog_
      /\ g_vlog_number' = g_vlog_number /\ files' = files /\ fresh' = fresh
      /\ crashes' = crashes /\ acked' = acked /\ pend' = pend /\ meta' = meta /\ pos' = pos
      /\ target # 0 /\ target' = 0
  BY DEF GcRemove, memory, counts
<1>1. TypeInv /\ RunInv /\ ScanInv
  BY DEF IInv
<1>2. PICK early \in BOOLEAN :
        /\ early \/ files[target].recs \subseteq seen
        /\ skipped' = IF early /\ seen # {}
                      THEN skipped \cup {a \in acked \cup pend : a.vlog = target}
                      ELSE skipped
  BY DEF GcRemove
<1>l. linked' = IF seen # {} THEN linked \ {target} ELSE linked
  BY DEF GcRemove
<1>3. linked' \subseteq VlogNumbers /\ linked' \subseteq linked /\ skipped \subseteq skipped'
  BY <1>1, <1>2, <1>l DEF TypeInv
<1>4. TypeInv'
  BY <1>0, <1>1, <1>3 DEF TypeInv
<1>5. \A a : Stores(a)' <=> Stores(a)
  BY <1>0, Zenon DEF Stores, All, RecordAt
<1>6. ASSUME crashes = 0 PROVE Running'
  <2>1. Running /\ Scanning
    BY <1>0, <1>1, <1>6, Zenon DEF RunInv, ScanInv
  <2>2. Sound(manager_, files) /\ linked \subseteq VlogNumbers
    BY <1>1 DEF TypeInv
  <2>r. /\ linked \subseteq DOMAIN manager_ /\ g_vlog_number \in linked
        /\ \A n \in DOMAIN manager_ : n # g_vlog_number => manager_[n].buf = NoBytes
        /\ \A a \in (acked \cup pend) \ skipped : a.vlog \in linked
        /\ \A a \in acked \cup pend : a.vlog \in linked => Stores(a)
    BY <2>1, Zenon DEF Running
  <2>s. /\ target \in linked /\ target < g_vlog_number
        /\ \A a \in (acked \cup pend) \ skipped : a.vlog = target => RecordAt(a) \notin seen
    BY <1>0, <2>1, Zenon DEF Scanning
  <2>4. target # g_vlog_number /\ target \in DOMAIN manager_
    <3>1. target \in Nat /\ g_vlog_number \in Nat
      BY <2>2, <2>r, <2>s, SoundFacts
    <3> QED BY <2>r, <2>s, <3>1
  <2>5. All(target) = files[target]
    <3>1. manager_[target].buf = NoBytes /\ files[target] \in Chunk
      BY <2>2, <2>r, <2>s, <2>4, SoundFacts
    <3> QED BY <3>1, Append2Empty DEF All
  <2>6. ASSUME NEW a, a \in acked \cup pend, a \notin skipped' PROVE a.vlog \in linked'
    <3>1. a.vlog \in linked /\ Stores(a) /\ a \notin skipped
      BY <1>3, <2>6, <2>r
    <3>2. CASE seen = {}
      BY <1>l, <3>1, <3>2
    <3>3. CASE seen # {}
      <4>1. SUFFICES ASSUME a.vlog = target PROVE FALSE
        BY <1>l, <3>1
      <4>2. ~early
        BY <1>2, <2>6, <3>3, <4>1
      <4>3. RecordAt(a) \in files[target].recs
        BY <2>5, <3>1, <4>1 DEF Stores
      <4> QED BY <1>2, <2>6, <2>s, <3>1, <4>1, <4>2, <4>3
    <3> QED BY <3>2, <3>3
  <2>7. g_vlog_number \in linked' /\ linked' \subseteq DOMAIN manager_
    BY <1>3, <1>l, <2>r, <2>4
  <2>8. \A a \in (acked' \cup pend') \ skipped' : a.vlog \in linked'
    BY <1>0, <2>6
  <2>9. \A a : a.vlog \in linked' => a.vlog \in linked
    BY <1>3
  <2> QED BY <1>0, <1>5, <2>1, <2>7, <2>8, <2>9, Zenon DEF Running
<1>7. RunInv' /\ ScanInv'
  BY <1>0, <1>6, Zenon DEF RunInv, ScanInv, Scanning
<1>8. StopInv'
  BY <1>0, Zenon DEF StopInv
<1> QED BY <1>4, <1>7, <1>8 DEF IInv

(* The memory of a process that ended. *)
LEMMA DeadFacts ==
  ASSUME TypeInv, Dead, files' \in [VlogNumbers -> Chunk], \A n \in VlogNumbers : WellPlaced(files'[n]),
         linked' = linked, acked' = acked, meta'.pos \in Nat, crashes' \in Nat
  PROVE  TypeInv' /\ ~up'
<1>1. /\ up' = FALSE /\ manager_' = [n \in {} |-> NewVlogInfo]
      /\ pos' = [t \in Threads |-> 0] /\ pend' = {} /\ fresh' = {} /\ target' = 0
  BY DEF Dead
<1>2. DOMAIN manager_' = {} /\ manager_' \in [DOMAIN manager_' -> VlogInfo]
  BY <1>1
<1>3. Sound(manager_', files')
  BY <1>2 DEF Sound
<1>4. pos' \in [Threads -> Nat]
  BY <1>1
<1>5. /\ pend' \subseteq Address /\ fresh' \subseteq Address /\ up' \in BOOLEAN /\ ~up'
      /\ target' \in VlogNumbers \cup {0}
  BY <1>1
<1> QED BY <1>1, <1>3, <1>4, <1>5, Zenon DEF TypeInv

(* Crash: nothing is said of a slave that crashed but that its state is well
   formed. *)
LEMMA CrashStep ==
  ASSUME IInv, Crash
  PROVE  IInv'
<1>1. TypeInv /\ crashes \in Nat /\ meta.pos \in Nat /\ Sound(manager_, files)
  BY DEF IInv, TypeInv
<1>2. /\ Dead /\ crashes' = crashes + 1 /\ files' = files /\ linked' = linked
      /\ meta' = meta /\ acked' = acked
  BY DEF Crash
<1>3. files' \in [VlogNumbers -> Chunk] /\ \A n \in VlogNumbers : WellPlaced(files'[n])
  BY <1>1, <1>2 DEF Sound
<1>4. crashes' \in Nat /\ crashes' # 0
  BY <1>1, <1>2
<1>5. TypeInv'
  BY <1>1, <1>2, <1>3, <1>4, DeadFacts
<1> QED BY <1>4, <1>5, Zenon DEF IInv, RunInv, ScanInv, StopInv

(* Shutdown: the destructor puts the last buffer behind its file, and
   VLOG_META gets the length that the file then has. *)
LEMMA ShutdownStep ==
  ASSUME IInv, Shutdown
  PROVE  /\ IInv'
         /\ \A n \in linked : files[n].recs \subseteq files'[n].recs
<1>1. TypeInv /\ RunInv /\ crashes \in Nat /\ Sound(manager_, files) /\ linked \subseteq VlogNumbers
  BY DEF IInv, TypeInv
<1>2. /\ Dead /\ up /\ crashes' = crashes /\ linked' = linked /\ acked' = acked
      /\ skipped' = skipped /\ meta' = [number |-> g_vlog_number, pos |-> GetWritePos]
      /\ cur_vlog_ \notin DOMAIN manager_ => files' = files
      /\ cur_vlog_ \in DOMAIN manager_ => files' = [files EXCEPT ![cur_vlog_] = All(cur_vlog_)]
  <2>1. /\ Dead /\ up /\ crashes' = crashes /\ linked' = linked /\ acked' = acked
        /\ skipped' = skipped /\ meta' = [number |-> g_vlog_number, pos |-> GetWritePos]
        /\ files' = IF cur_vlog_ \in DOMAIN manager_
                    THEN [files EXCEPT ![cur_vlog_] = Append2(@, manager_[cur_vlog_].buf)]
                    ELSE files
    BY DEF Shutdown, Dead, counts
  <2>2. CASE cur_vlog_ \in DOMAIN manager_
    BY <1>1, <2>1, <2>2 DEF All, Sound
  <2>3. CASE cur_vlog_ \notin DOMAIN manager_
    BY <2>1, <2>3
  <2> QED BY <2>1, <2>2, <2>3
<1>3. cur_vlog_ \in DOMAIN manager_ => /\ All(cur_vlog_) \in Chunk /\ WellPlaced(All(cur_vlog_))
                                       /\ files[cur_vlog_].recs \subseteq All(cur_vlog_).recs
  <2> SUFFICES ASSUME cur_vlog_ \in DOMAIN manager_
               PROVE  /\ All(cur_vlog_) \in Chunk /\ WellPlaced(All(cur_vlog_))
                      /\ files[cur_vlog_].recs \subseteq All(cur_vlog_).recs
    OBVIOUS
  <2>1. /\ manager_[cur_vlog_].buf \in Chunk /\ files[cur_vlog_] \in Chunk
        /\ WellPlaced(manager_[cur_vlog_].buf) /\ WellPlaced(files[cur_vlog_])
    BY <1>1, SoundFacts
  <2> QED BY <2>1, Append2Facts, AppendKeeps DEF All
<1>4. /\ files' \in [VlogNumbers -> Chunk] /\ \A n \in VlogNumbers : WellPlaced(files'[n])
      /\ \A n \in VlogNumbers : files[n].recs \subseteq files'[n].recs
  BY <1>1, <1>2, <1>3 DEF Sound
<1>5. GetWritePos \in Nat
  BY <1>1, SoundFacts DEF GetWritePos
<1>6. TypeInv' /\ ~up'
  <2>1. meta'.pos \in Nat /\ crashes' \in Nat
    BY <1>1, <1>2, <1>5
  <2> QED BY <1>1, <1>2, <1>4, <2>1, DeadFacts
<1>7. ASSUME crashes = 0 PROVE Stopped'
  <2>1. Running
    BY <1>1, <1>2, <1>7, Zenon DEF RunInv
  <2>2. PICK g : g = g_vlog_number
    OBVIOUS
  <2>3. /\ g = cur_vlog_ /\ g \in linked /\ g \in DOMAIN manager_ /\ g \in VlogNumbers
        /\ \A n \in linked : n <= g
        /\ manager_[g].head = files[g].len
        /\ \A n \in DOMAIN manager_ : n # g => manager_[n].buf = NoBytes
        /\ \A a \in acked \ skipped : a.vlog \in linked
        /\ \A a \in acked : a.vlog <= g /\ (a.vlog \in linked => Stores(a))
    BY <1>1, <2>1, <2>2 DEF Running
  <2>4. files'[g] = All(g) /\ \A n \in VlogNumbers : n # g => files'[n] = files[n]
    BY <1>1, <1>2, <2>3 DEF Sound
  <2>5. meta'.number = g /\ meta'.pos = files'[g].len
    <3>1. /\ files[g] \in Chunk /\ manager_[g].buf \in Chunk
      BY <1>1, <2>3, SoundFacts
    <3>2. All(g).len = files[g].len + manager_[g].buf.len
      BY <3>1, Append2Facts DEF All
    <3>3. GetWritePos = manager_[g].head + manager_[g].buf.len
      BY <2>3 DEF GetWritePos, WritePosOf, WritePos
    <3> QED BY <1>2, <2>2, <2>3, <2>4, <3>2, <3>3
  <2>6. ASSUME NEW a \in acked, a.vlog \in linked
        PROVE  OnDisk(a)' /\ a.offset - kVHeaderSize \in Nat
    <3>1. /\ a.vlog \in linked /\ a.vlog \in DOMAIN manager_ /\ a.vlog \in VlogNumbers
          /\ a.offset - kVHeaderSize \in Nat /\ RecordAt(a) \in All(a.vlog).recs
      BY <1>1, <2>3, <2>6 DEF Stores
    <3>2. files'[a.vlog] = All(a.vlog)
      <4>1. CASE a.vlog = g
        BY <2>4, <4>1
      <4>2. CASE a.vlog # g
        <5>1. manager_[a.vlog].buf = NoBytes /\ files[a.vlog] \in Chunk
          BY <1>1, <2>3, <3>1, <4>2, SoundFacts
        <5>2. Append2(files[a.vlog], NoBytes) = files[a.vlog]
          BY <5>1, Append2Empty
        <5> QED BY <2>4, <3>1, <4>2, <5>1, <5>2 DEF All
      <4> QED BY <4>1, <4>2
    <3> QED BY <3>1, <3>2 DEF OnDisk, RecordAt
  <2> QED BY <1>2, <2>3, <2>5, <2>6, Zenon DEF Stopped
<1>8. RunInv' /\ ScanInv' /\ StopInv'
  BY <1>2, <1>6, <1>7, Zenon DEF RunInv, ScanInv, StopInv
<1> QED BY <1>1, <1>4, <1>6, <1>8 DEF IInv

(* What init_vlog makes of the directory and of VLOG_META is well formed. *)
LEMMA StartedSound ==
  ASSUME TypeInv, NEW m, m = Started(files, linked, meta).m
  PROVE  /\ DOMAIN m \subseteq VlogNumbers /\ linked \subseteq DOMAIN m
         /\ \A n \in DOMAIN m : m[n] \in VlogInfo /\ m[n].buf = NoBytes
         /\ m \in [DOMAIN m -> VlogInfo]
<1>1. linked \subseteq VlogNumbers /\ meta.pos \in Nat /\ Sound(manager_, files)
  BY DEF TypeInv
<1>2. NewVlogInfo \in VlogInfo /\ NewVlogInfo.buf = NoBytes
  BY NewFacts
<1>3. CASE linked = {}
  <2>1. m = [n \in {1} |-> NewVlogInfo]
    BY <1>3 DEF Started
  <2>2. 1 \in VlogNumbers
    BY RecoveryAssumption DEF VlogNumbers
  <2> QED BY <1>2, <1>3, <2>1, <2>2
<1>4. CASE linked # {}
  <2>1. PICK added : added = [n \in linked |-> NewVlogInfo]
    OBVIOUS
  <2>2. PICK last : last = Biggest(linked)
    OBVIOUS
  <2>3. \/ m = added
        \/ m = SetHead(added, meta.number, meta.pos)
        \/ m = SetHead(added, last, files[last].len)
    BY <1>4, <2>1, <2>2 DEF Started, Recovered
  <2>4. DOMAIN added = linked /\ \A n \in linked : added[n] = NewVlogInfo
    BY <2>1
  <2>5. ASSUME NEW n, NEW h, n \in linked => h \in Nat, m = SetHead(added, n, h)
        PROVE  /\ DOMAIN m = linked /\ m \in [DOMAIN m -> VlogInfo]
               /\ \A i \in linked : m[i] \in VlogInfo /\ m[i].buf = NoBytes
    <3>1. CASE n \in linked
      <4>1. m = [added EXCEPT ![n].head = h]
        BY <2>4, <2>5, <3>1 DEF SetHead
      <4>2. m = [added EXCEPT ![n] = [head |-> h, buf |-> NoBytes]]
        BY <2>4, <3>1, <4>1, <1>2 DEF VlogInfo, NewVlogInfo
      <4>3. [head |-> h, buf |-> NoBytes] \in VlogInfo
        BY <2>5, <3>1, NoBytesFacts DEF VlogInfo
      <4>4. PICK v : v = [head |-> h, buf |-> NoBytes]
        OBVIOUS
      <4>5. v \in VlogInfo /\ v.buf = NoBytes /\ m = [added EXCEPT ![n] = v]
        BY <4>2, <4>3, <4>4
      <4>6. added \in [linked -> VlogInfo]
        BY <1>2, <2>1
      <4>7. m \in [linked -> VlogInfo]
        BY <4>5, <4>6
      <4>8. \A i \in linked : m[i] = v \/ m[i] = NewVlogInfo
        BY <2>4, <4>5
      <4> QED BY <1>2, <4>5, <4>7, <4>8
    <3>2. CASE n \notin linked
      <4>1. m = added
        BY <2>4, <2>5, <3>2 DEF SetHead
      <4> QED BY <1>2, <2>1, <2>4, <4>1
    <3> QED BY <3>1, <3>2
  <2>6. last \in linked => files[last].len \in Nat
    BY <1>1, SoundFacts
  <2>7. /\ DOMAIN m = linked /\ m \in [DOMAIN m -> VlogInfo]
        /\ \A i \in linked : m[i] \in VlogInfo /\ m[i].buf = NoBytes
    <3>1. CASE m = added
      BY <1>2, <2>1, <2>4, <3>1
    <3>2. CASE m = SetHead(added, meta.number, meta.pos)
      BY <1>1, <2>5, <3>2
    <3>3. CASE m = SetHead(added, last, files[last].len)
      BY <2>5, <2>6, <3>3
    <3> QED BY <2>3, <3>1, <3>2, <3>3
  <2> QED BY <1>1, <2>7
<1> QED BY <1>3, <1>4

(* After a graceful stop it finds the newest file, and the head_ it restores
   is the length of that file. *)
LEMMA StartedRun ==
  ASSUME TypeInv, Stopped, NEW s, s = Started(files, linked, meta)
  PROVE  /\ s.cur = meta.number /\ s.num = meta.number /\ DOMAIN s.m = linked
         /\ s.m[meta.number].head = files[meta.number].len
<1>1. linked \subseteq VlogNumbers /\ meta.pos \in Nat /\ Sound(manager_, files)
  BY DEF TypeInv
<1>2. PICK k : k = meta.number
  OBVIOUS
<1>3. /\ k \in linked /\ \A n \in linked : n <= k
      /\ meta.pos = files[k].len
  BY <1>2 DEF Stopped
<1>4. k \in Nat /\ k > 0 /\ \A n \in linked : n \in Nat
  BY <1>1, <1>3 DEF VlogNumbers
<1>5. Biggest(linked) = k
  <2>1. \A n \in linked : (\A i \in linked : i <= n) => n = k
    BY <1>3, <1>4
  <2> QED BY <1>3, <2>1 DEF Biggest
<1>6. PICK added : added = [n \in linked |-> NewVlogInfo]
  OBVIOUS
<1>7. DOMAIN added = linked /\ added[k] = NewVlogInfo
  BY <1>3, <1>6
<1>8. s = IF meta.pos > 0
          THEN [m |-> SetHead(added, k, meta.pos), cur |-> k, num |-> k]
          ELSE [m |-> added, cur |-> k, num |-> k]
  BY <1>2, <1>3, <1>4, <1>5, <1>6 DEF Started, Recovered
<1>9. CASE meta.pos > 0
  <2>1. s.m = [added EXCEPT ![k].head = meta.pos] /\ s.cur = k /\ s.num = k
    BY <1>3, <1>7, <1>8, <1>9 DEF SetHead
  <2>2. DOMAIN s.m = linked /\ s.m[k].head = meta.pos
    BY <1>3, <1>7, <2>1 DEF NewVlogInfo
  <2> QED BY <1>2, <1>3, <2>1, <2>2
<1>10. CASE ~(meta.pos > 0)
  <2>1. s.m = added /\ s.cur = k /\ s.num = k
    BY <1>8, <1>10
  <2>2. meta.pos = 0
    BY <1>1, <1>10
  <2> QED BY <1>2, <1>3, <1>7, <2>1, <2>2, NewFacts
<1> QED BY <1>9, <1>10

(* Start *)
LEMMA StartStep ==
  ASSUME IInv, Start
  PROVE  /\ IInv'
         /\ \A n \in linked : files'[n] = files[n]
<1>1. /\ TypeInv /\ StopInv /\ Sound(manager_, files) /\ linked \subseteq VlogNumbers
      /\ (~up => pend = {} /\ fresh = {} /\ target = 0)
  BY DEF IInv, TypeInv
<1>2. PICK s : s = Started(files, linked, meta)
  OBVIOUS
<1>3. /\ ~up /\ up' = TRUE /\ manager_' = s.m /\ cur_vlog_' = s.cur /\ g_vlog_number' = s.num
      /\ linked' = linked \cup DOMAIN s.m
      /\ files' = [n \in VlogNumbers |-> Opened(files, n)]
      /\ meta' = meta /\ pos' = pos /\ pend' = pend /\ acked' = acked /\ fresh' = fresh
      /\ crashes' = crashes /\ target' = target /\ skipped' = skipped
  BY <1>2 DEF Start, gc
<1>4. /\ DOMAIN s.m \subseteq VlogNumbers /\ linked \subseteq DOMAIN s.m
      /\ \A n \in DOMAIN s.m : s.m[n] \in VlogInfo /\ s.m[n].buf = NoBytes
      /\ s.m \in [DOMAIN s.m -> VlogInfo]
  BY <1>1, <1>2, StartedSound
<1>5. /\ files' \in [VlogNumbers -> Chunk] /\ \A n \in VlogNumbers : WellPlaced(files'[n])
      /\ \A n \in linked : files'[n] = files[n]
  <2>1. ASSUME NEW n \in VlogNumbers
        PROVE  /\ Opened(files, n) \in Chunk /\ WellPlaced(Opened(files, n))
               /\ n \in linked => Opened(files, n) = files[n]
    BY <1>1, SoundFacts, NoBytesFacts DEF Opened
  <2>2. \A n \in VlogNumbers : files'[n] = Opened(files, n)
    BY <1>3
  <2>3. files' \in [VlogNumbers -> Chunk]
    BY <1>3, <2>1
  <2> QED BY <1>1, <2>1, <2>2, <2>3
<1>6. Sound(manager_', files')
  <2>1. \A n \in DOMAIN s.m : WellPlaced(s.m[n].buf)
    BY <1>4, NoBytesFacts
  <2> QED BY <1>3, <1>4, <1>5, <2>1 DEF Sound
<1>7. linked' \subseteq VlogNumbers /\ up' \in BOOLEAN
  BY <1>1, <1>3, <1>4
<1>8. TypeInv'
  BY <1>1, <1>3, <1>6, <1>7, Zenon DEF TypeInv
<1>9. ASSUME crashes = 0 PROVE Running'
  <2>1. Stopped
    BY <1>1, <1>3, <1>9, Zenon DEF StopInv
  <2>2. PICK k : k = meta.number
    OBVIOUS
  <2>3. /\ s.cur = k /\ s.num = k /\ DOMAIN s.m = linked /\ s.m[k].head = files[k].len
    BY <1>1, <1>2, <2>1, <2>2, StartedRun
  <2>4. /\ k \in linked /\ \A n \in linked : n <= k
        /\ \A a \in acked \ skipped : a.vlog \in linked
        /\ \A a \in acked :
             /\ a.vlog <= k
             /\ a.vlog \in linked => OnDisk(a) /\ a.offset - kVHeaderSize \in Nat
    BY <2>1, <2>2 DEF Stopped
  <2>5. linked' = linked /\ DOMAIN manager_' = linked
    BY <1>3, <2>3
  <2>6. manager_'[k].head = files'[k].len
    BY <1>3, <1>5, <2>3, <2>4
  <2>7. \A n \in DOMAIN manager_' : manager_'[n].buf = NoBytes
    BY <1>3, <1>4
  <2>8. ASSUME NEW a \in acked, a.vlog \in linked PROVE Stores(a)'
    <3>1. a.vlog \in linked /\ OnDisk(a) /\ a.offset - kVHeaderSize \in Nat /\ a.vlog \in VlogNumbers
      BY <1>1, <2>4, <2>8
    <3>2. files[a.vlog] \in Chunk /\ files'[a.vlog] = files[a.vlog] /\ manager_'[a.vlog].buf = NoBytes
      BY <1>1, <1>5, <2>5, <2>7, <3>1, SoundFacts
    <3>3. Append2(files'[a.vlog], manager_'[a.vlog].buf) = files[a.vlog]
      BY <3>2, Append2Empty
    <3>4. RecordAt(a) \in files[a.vlog].recs
      BY <3>1 DEF OnDisk, RecordAt
    <3> QED BY <2>5, <3>1, <3>3, <3>4 DEF Stores, All, RecordAt
  <2>9. pend' = {} /\ fresh' = {} /\ acked' = acked
    BY <1>1, <1>3
  <2>10. \A a \in (acked' \cup pend') \ skipped' : a.vlog \in linked'
    BY <1>3, <2>4, <2>5, <2>9
  <2>11. \A a \in acked' \cup pend' : a.vlog <= k /\ (a.vlog \in linked' => Stores(a)')
    BY <2>4, <2>5, <2>8, <2>9
  <2>12. \A a \in fresh' : Stores(a)' /\ manager_'[a.vlog].head = files'[a.vlog].len
    BY <2>9
  <2>13. linked' \subseteq DOMAIN manager_' /\ cur_vlog_' = k /\ g_vlog_number' = k
    BY <1>3, <2>3, <2>5
  <2> QED BY <2>4, <2>5, <2>6, <2>7, <2>10, <2>11, <2>12, <2>13, Zenon DEF Running
<1>10. RunInv' /\ ScanInv' /\ StopInv'
  BY <1>1, <1>3, <1>9, Zenon DEF RunInv, ScanInv, Scanning, StopInv
<1> QED BY <1>5, <1>8, <1>10 DEF IInv

-----------------------------------------------------------------------------
(* The invariant holds *)

(* The first start finds no file. *)
LEMMA InitIInv ==
  ASSUME Init
  PROVE  IInv
<1>1. /\ up = TRUE /\ manager_ = [n \in {1} |-> NewVlogInfo] /\ cur_vlog_ = 1 /\ g_vlog_number = 1
      /\ files = [n \in VlogNumbers |-> NoBytes] /\ linked = {1} /\ meta = NoMeta
      /\ pos = [t \in Threads |-> 0] /\ pend = {} /\ acked = {} /\ fresh = {} /\ crashes = 0
      /\ target = 0
  BY DEF Init
<1>2. 1 \in VlogNumbers
  BY RecoveryAssumption DEF VlogNumbers
<1>3. /\ DOMAIN manager_ = {1} /\ manager_[1] = NewVlogInfo
      /\ files[1] = NoBytes /\ \A n \in VlogNumbers : files[n] = NoBytes
  BY <1>1, <1>2
<1>4. Sound(manager_, files)
  <2>1. files \in [VlogNumbers -> Chunk]
    BY <1>1, NoBytesFacts
  <2>2. manager_ \in [{1} -> VlogInfo]
    BY <1>1, NewFacts
  <2> QED BY <1>2, <1>3, <2>1, <2>2, NewFacts, NoBytesFacts DEF Sound
<1>5. /\ meta.pos \in Nat /\ pos \in [Threads -> Nat] /\ crashes \in Nat /\ linked \subseteq VlogNumbers
      /\ up \in BOOLEAN /\ target \in VlogNumbers \cup {0}
  BY <1>1, <1>2 DEF NoMeta
<1>6. acked \subseteq Address /\ pend \subseteq Address /\ fresh \subseteq Address
  BY <1>1
<1>7. TypeInv
  BY <1>1, <1>4, <1>5, <1>6, Zenon DEF TypeInv
<1>8. Running
  BY <1>1, <1>3, NewFacts DEF Running
<1> QED BY <1>1, <1>7, <1>8 DEF IInv, RunInv, ScanInv, Scanning, StopInv

(* Every step preserves it, and no step takes a record out of a file that
   stays in the directory. *)
LEMMA NextIInv ==
  ASSUME IInv, [Next]_vars
  PROVE  /\ IInv'
         /\ \A n \in linked \cap linked' : files[n].recs \subseteq files'[n].recs
<1>0. /\ TypeInv /\ meta.pos \in Nat /\ pos \in [Threads -> Nat] /\ acked \subseteq Address
      /\ Sound(manager_, files) /\ target \in VlogNumbers \cup {0}
  BY DEF IInv, TypeInv
<1> DEFINE Kept == \A n \in linked \cap linked' : files[n].recs \subseteq files'[n].recs
<1>q. files' = files => Kept
  OBVIOUS
<1>w. GetWritePos \in Nat
  BY <1>0, SoundFacts DEF GetWritePos
<1>1. CASE Start
  <2>1. IInv' /\ \A n \in linked : files'[n] = files[n]
    BY <1>1, StartStep
  <2> QED BY <2>1
<1>2. CASE Shutdown
  <2>1. IInv' /\ \A n \in linked : files[n].recs \subseteq files'[n].recs
    BY <1>2, ShutdownStep
  <2> QED BY <2>1
<1>3. CASE Crash
  <2>1. files' = files
    BY <1>3 DEF Crash
  <2> QED BY <1>3, <1>q, <2>1, CrashStep
<1>4. ASSUME NEW e \in Entries, Put(e) PROVE IInv' /\ Kept
  <2>1. /\ WriteValue(e) /\ up /\ up' = up /\ crashes' = crashes /\ meta' = meta /\ pos' = pos
        /\ acked' = acked /\ pend' = {AddressFor(e)}
        /\ skipped' = skipped /\ target' = target /\ seen' = seen
    BY <1>4 DEF Put, gc
  <2>2. /\ acked' \cup pend' \subseteq acked \cup pend \cup {AddressFor(e)}
        /\ skipped \subseteq skipped'
    BY <2>1
  <2>3. IInv'
    BY <2>1, <2>2, WriteStep
  <2>4. \A n \in linked : files[n].recs \subseteq files'[n].recs
    BY <1>0, <2>1, WriteSound
  <2> QED BY <2>3, <2>4
<1>5. ASSUME NEW r, GcMove(r) PROVE IInv' /\ Kept
  <2>1. IInv' /\ r.entry \in Entries /\ WriteValue(r.entry)
    BY <1>5, GcMoveStep
  <2>2. \A n \in linked : files[n].recs \subseteq files'[n].recs
    BY <1>0, <2>1, WriteSound
  <2> QED BY <2>1, <2>2
<1>p. ASSUME NEW r, GcPass(r) PROVE IInv' /\ Kept
  <2>1. files' = files
    BY <1>p DEF GcPass
  <2> QED BY <1>p, <1>q, <2>1, GcPassStep
<1>6. CASE PutAddr
  <2>1. /\ up /\ up' = up /\ UNCHANGED <<memory, files, linked, fresh, crashes>>
        /\ meta' = meta /\ pos' = pos /\ pend' = {}
        /\ UNCHANGED <<target, seen>> /\ skipped' = skipped
    BY <1>6 DEF PutAddr, counts, gc
  <2>2. PICK p \in pend, registered \in BOOLEAN :
          acked' = IF registered THEN {a \in acked : a.entry # p.entry} \cup {p} ELSE acked
    BY <1>6 DEF PutAddr
  <2>3. acked' \cup pend' \subseteq acked \cup pend /\ skipped \subseteq skipped'
    BY <2>1, <2>2
  <2>4. IInv'
    BY <1>0, <2>1, <2>3, QuietStep
  <2> QED BY <1>q, <2>1, <2>4
<1>o. CASE GcOpen
  <2>1. files' = files
    BY <1>o DEF GcOpen
  <2> QED BY <1>o, <1>q, <2>1, GcOpenStep
<1>7. CASE GcRemove
  <2>1. files' = files
    BY <1>7 DEF GcRemove
  <2> QED BY <1>7, <1>q, <2>1, GcRemoveStep
<1>8. ASSUME NEW t \in Threads, SaveOpen(t) PROVE IInv' /\ Kept
  <2>1. /\ up /\ up' = up /\ UNCHANGED <<memory, files, linked, fresh, crashes>>
        /\ meta' = NoMeta /\ pos' = [pos EXCEPT ![t] = GetWritePos]
        /\ acked' = acked /\ pend' = pend /\ UNCHANGED <<target, seen>> /\ skipped' = skipped
    BY <1>8 DEF SaveOpen, counts, gc
  <2>2. meta'.pos \in Nat /\ pos' \in [Threads -> Nat]
    BY <1>0, <1>w, <2>1 DEF NoMeta
  <2>3. acked' \cup pend' \subseteq acked \cup pend /\ skipped \subseteq skipped'
    BY <2>1
  <2>4. IInv'
    BY <1>0, <2>1, <2>2, <2>3, QuietStep
  <2> QED BY <1>q, <2>1, <2>4
<1>9. ASSUME NEW t \in Threads, SaveClose(t) PROVE IInv' /\ Kept
  <2>1. /\ up /\ up' = up /\ UNCHANGED <<memory, files, linked, fresh, crashes>>
        /\ meta' = [number |-> g_vlog_number, pos |-> pos[t]] /\ pos' = [pos EXCEPT ![t] = 0]
        /\ acked' = acked /\ pend' = pend /\ UNCHANGED <<target, seen>> /\ skipped' = skipped
    BY <1>9 DEF SaveClose, counts, gc
  <2>2. meta'.pos \in Nat /\ pos' \in [Threads -> Nat]
    BY <1>0, <2>1
  <2>3. acked' \cup pend' \subseteq acked \cup pend /\ skipped \subseteq skipped'
    BY <2>1
  <2>4. IInv'
    BY <1>0, <2>1, <2>2, <2>3, QuietStep
  <2> QED BY <1>q, <2>1, <2>4
<1>10. CASE UNCHANGED vars
  <2>1. /\ UNCHANGED <<up, manager_, cur_vlog_, g_vlog_number, files, linked, meta, pos>>
        /\ UNCHANGED <<pend, acked, fresh, target, seen, skipped, crashes>>
    BY <1>10 DEF vars, memory, gc, counts
  <2>2. TypeInv' /\ RunInv' /\ ScanInv' /\ StopInv'
    <3>1. \A a : (Stores(a)' <=> Stores(a)) /\ (OnDisk(a)' <=> OnDisk(a)) /\ RecordAt(a)' = RecordAt(a)
      BY <2>1, Zenon DEF Stores, All, RecordAt, OnDisk
    <3>2. TypeInv'
      BY <1>0, <2>1, Zenon DEF TypeInv
    <3>3. (Running' <=> Running) /\ (Scanning' <=> Scanning) /\ (Stopped' <=> Stopped)
      BY <2>1, <3>1, Zenon DEF Running, Scanning, Stopped
    <3> QED BY <2>1, <3>2, <3>3, Zenon DEF IInv, RunInv, ScanInv, StopInv
  <2> QED BY <1>q, <2>1, <2>2 DEF IInv
<1> QED BY <1>1, <1>2, <1>3, <1>4, <1>5, <1>p, <1>6, <1>o, <1>7, <1>8, <1>9, <1>10 DEF Next

(* IInv is an invariant, for all constants. *)
LEMMA Invariant == Spec => []IInv
<1>1. IInv /\ [Next]_vars => IInv'
  BY NextIInv
<1> QED BY InitIInv, <1>1, PTL DEF Spec

-----------------------------------------------------------------------------
(* Theorems *)

(* A slave that stopped and never crashed has every stored value that GC did
   not skip on disk, at the address the master holds: what GC moves before it
   removes a file, the buffer the destructor of VlogManager writes, the
   position shutdown_vlog saves and the head_ init_vlog restores fit
   together, over any number of lives. *)
THEOREM GracefulStopKeepsAll == Spec => []StoppedHasAllOnDisk
<1>1. IInv => StoppedHasAllOnDisk
  BY Zenon DEF IInv, StopInv, Stopped, StoppedHasAllOnDisk
<1> QED BY <1>1, Invariant, PTL

(* Without a crash, FetchValueFromVlog returns the values of the current vlog
   and those written in this life, wherever the restart fell. *)
THEOREM CurrentVlogReads == Spec => []CurrentReadable
<1>1. IInv => CurrentReadable
  <2> SUFFICES ASSUME IInv, crashes = 0, up, NEW a \in acked \cup fresh,
                      a.vlog = cur_vlog_ \/ a \in fresh
               PROVE  ReadsBack(a)
    BY Zenon DEF CurrentReadable
  <2>1. Running
    BY Zenon DEF IInv, RunInv
  <2>2. Sound(manager_, files) /\ acked \subseteq Address /\ fresh \subseteq Address
    BY DEF IInv, TypeInv
  <2>3. Stores(a) /\ manager_[a.vlog].head = files[a.vlog].len
    BY <2>1 DEF Running
  <2>4. PICK n, p, e : n = a.vlog /\ p = a.offset - kVHeaderSize /\ e = a.entry
    OBVIOUS
  <2>5. /\ n \in DOMAIN manager_ /\ p \in Nat /\ e \in Entries /\ a.offset \in Nat
        /\ [at |-> p, entry |-> e] \in Append2(files[n], manager_[n].buf).recs
        /\ files[n].len = manager_[n].head
    BY <2>2, <2>3, <2>4 DEF Stores, All, RecordAt, Address
  <2>6. /\ manager_[n] \in VlogInfo /\ files[n] \in Chunk
        /\ WellPlaced(files[n]) /\ WellPlaced(manager_[n].buf)
    BY <2>2, <2>5, SoundFacts
  <2>7. Get(manager_[n], files[n], p + kVHeaderSize, Size[e]) = e
    BY <2>5, <2>6, GetFindsRecord
  <2>8. p + kVHeaderSize = a.offset
    BY <2>4, <2>5, VlogAssumption
  <2> QED BY <2>4, <2>5, <2>7, <2>8 DEF ReadsBack
<1> QED BY <1>1, Invariant, PTL

(* Whatever crashes and however stale VLOG_META is, no step takes a record out
   of a file that stays in the directory: files are opened for appending, and
   a rotation writes the buffer it replaces. *)
THEOREM FilesOnlyGrow == Spec => RecordsStayInFiles
<1>1. IInv /\ [Next]_vars =>
        [\A n \in linked \cap linked' : files[n].recs \subseteq files'[n].recs]_vars
  BY NextIInv
<1> QED BY <1>1, Invariant, PTL DEF Spec, RecordsStayInFiles
=============================================================================
