-------------------------- MODULE VlogManagerProofs --------------------------
(***************************************************************************)
(* Proofs about VlogManager, for every set of entries, all entry sizes and *)
(* all values of WriteBufferSize, kVHeaderSize and max_vlog_size.          *)
(***************************************************************************)
EXTENDS VlogManager, VlogLemmas

-----------------------------------------------------------------------------
(* The manager *)

\* Everything written to vlog n, in the buffer or in the file.
All(n) == Append2(files[n], manager_[n].buf)

(***************************************************************************)
(* The inductive invariant.  ReadBack alone is not inductive: it does not  *)
(* say that head_ and the file length agree (so that a flush leaves every  *)
(* record at its address), nor that records do not overlap.                *)
(***************************************************************************)
IInv ==
  /\ TypeOK
  /\ HeadIsFileLength
  /\ BufferNeverOverruns
  /\ \A n \in 1 .. cur_vlog_ : WellPlaced(files[n]) /\ WellPlaced(manager_[n].buf)
  /\ \A n \in 1 .. cur_vlog_ : n # cur_vlog_ => manager_[n].buf = NoBytes
  /\ \A a \in returned :
       /\ a.vlog \in 1 .. cur_vlog_
       /\ a.offset - kVHeaderSize \in Nat
       /\ [at |-> a.offset - kVHeaderSize, entry |-> a.entry] \in All(a.vlog).recs

\* init_vlog on an empty directory establishes the inductive invariant.
LEMMA InitIInv == Init => IInv
  <1> SUFFICES ASSUME Init PROVE IInv
    OBVIOUS
  <1>1. NewVlogInfo \in VlogInfo /\ NewVlogInfo.buf = NoBytes /\ NewVlogInfo.head = 0
    BY NoBytesFacts DEF NewVlogInfo, VlogInfo
  <1>2. 1 .. 1 = {1} /\ 1 \in VlogNumbers
    BY ManagerAssumption DEF VlogNumbers
  <1>3. NoBytes.len = 0
    BY DEF NoBytes
  <1>4. TypeOK
    BY <1>1, <1>2, NoBytesFacts DEF Init, TypeOK
  <1>5. QED
    BY <1>1, <1>2, <1>3, <1>4, NoBytesFacts, VlogAssumption
    DEF Init, IInv, HeadIsFileLength, BufferNeverOverruns

\* What the current VlogInfo and its file satisfy whenever IInv holds.
LEMMA CurrentFacts ==
  ASSUME IInv
  PROVE  /\ cur_vlog_ \in 1 .. cur_vlog_ /\ cur_vlog_ \in Nat
         /\ manager_[cur_vlog_] \in VlogInfo /\ files[cur_vlog_] \in Chunk
         /\ files[cur_vlog_].len = manager_[cur_vlog_].head
         /\ WellPlaced(files[cur_vlog_]) /\ WellPlaced(manager_[cur_vlog_].buf)
         /\ GetWritePos \in Nat
         /\ GetWritePos = All(cur_vlog_).len
         /\ All(cur_vlog_) \in Chunk
  <1>1. cur_vlog_ \in 1 .. cur_vlog_ /\ cur_vlog_ \in Nat
    BY DEF IInv, TypeOK, VlogNumbers
  <1>2. /\ manager_[cur_vlog_] \in VlogInfo /\ files[cur_vlog_] \in Chunk
        /\ files[cur_vlog_].len = manager_[cur_vlog_].head
        /\ WellPlaced(files[cur_vlog_]) /\ WellPlaced(manager_[cur_vlog_].buf)
    BY <1>1 DEF IInv, TypeOK, HeadIsFileLength
  <1>3. GetWritePos \in Nat
    BY <1>2 DEF GetWritePos, WritePos, VlogInfo, Chunk
  <1>4. manager_[cur_vlog_].buf \in Chunk
    BY <1>2 DEF VlogInfo
  <1>5. All(cur_vlog_) \in Chunk /\ GetWritePos = All(cur_vlog_).len
    BY <1>2, <1>4, Append2Facts DEF All, GetWritePos, WritePos
  <1>6. QED
    BY <1>1, <1>2, <1>3, <1>5

\* The effect of write_value_to_vlog on what the vlogs hold.
LEMMA WriteFacts ==
  ASSUME IInv, NEW e \in Entries, Write(e)
  PROVE  /\ TypeOK' /\ cur_vlog_' = cur_vlog_
         /\ HeadIsFileLength' /\ BufferNeverOverruns'
         /\ \A n \in 1 .. cur_vlog_ : WellPlaced(files'[n]) /\ WellPlaced(manager_'[n].buf)
         /\ \A n \in 1 .. cur_vlog_ : n # cur_vlog_ => manager_'[n] = manager_[n]
         /\ \A n \in 1 .. cur_vlog_ : n # cur_vlog_ => All(n)' = All(n)
         /\ All(cur_vlog_)'.recs =
              All(cur_vlog_).recs \cup {[at |-> GetWritePos, entry |-> e]}
  <1> DEFINE r == AddRecord(manager_[cur_vlog_], files[cur_vlog_], e)
  <1>1. /\ r.info \in VlogInfo /\ r.file \in Chunk
        /\ r.info.head = r.file.len
        /\ r.info.buf.len <= WriteBufferSize
        /\ WellPlaced(r.file) /\ WellPlaced(r.info.buf)
        /\ Append2(r.file, r.info.buf) = Append2(All(cur_vlog_), RecordOf(e))
    BY CurrentFacts, AddRecordFacts DEF All
  <1>2. /\ manager_' = [manager_ EXCEPT ![cur_vlog_] = r.info]
        /\ files' = [files EXCEPT ![cur_vlog_] = r.file]
        /\ cur_vlog_' = cur_vlog_
        /\ returned' = returned \cup {[vlog |-> cur_vlog_,
             offset |-> GetWritePos + kVHeaderSize, entry |-> e]}
    BY DEF Write
  <1> HIDE DEF r
  <1>3. /\ manager_ \in [1 .. cur_vlog_ -> VlogInfo] /\ files \in [1 .. cur_vlog_ -> Chunk]
        /\ cur_vlog_ \in VlogNumbers /\ returned \subseteq Address
    BY DEF IInv, TypeOK
  <1>4. /\ manager_' \in [1 .. cur_vlog_ -> VlogInfo] /\ files' \in [1 .. cur_vlog_ -> Chunk]
        /\ manager_'[cur_vlog_] = r.info /\ files'[cur_vlog_] = r.file
        /\ \A n \in 1 .. cur_vlog_ : n # cur_vlog_ =>
             manager_'[n] = manager_[n] /\ files'[n] = files[n]
    BY <1>1, <1>2, <1>3, CurrentFacts
  <1>5. returned' \subseteq Address
    BY <1>2, <1>3, CurrentFacts, VlogAssumption DEF Address
  <1>6. TypeOK'
    BY <1>2, <1>3, <1>4, <1>5 DEF TypeOK
  <1>7. HeadIsFileLength' /\ BufferNeverOverruns'
    BY <1>1, <1>4 DEF IInv, HeadIsFileLength, BufferNeverOverruns, TypeOK
  <1>8. \A n \in 1 .. cur_vlog_ : WellPlaced(files'[n]) /\ WellPlaced(manager_'[n].buf)
    BY <1>1, <1>4 DEF IInv
  <1>9. \A n \in 1 .. cur_vlog_ : n # cur_vlog_ => All(n)' = All(n)
    BY <1>4 DEF All
  <1>10. All(cur_vlog_)' = Append2(All(cur_vlog_), RecordOf(e))
    BY <1>1, <1>2, <1>4 DEF All
  <1>11. QED
    BY <1>2, <1>4, <1>6, <1>7, <1>8, <1>9, <1>10, CurrentFacts, AppendOne

\* The effect of a rotation: the old vlog keeps its records, now all on disk,
\* and the new one holds exactly the record written.
LEMMA RotateFacts ==
  ASSUME IInv, NEW e \in Entries, RotateAndWrite(e)
  PROVE  /\ TypeOK' /\ cur_vlog_' = cur_vlog_ + 1
         /\ HeadIsFileLength' /\ BufferNeverOverruns'
         /\ \A n \in 1 .. cur_vlog_' : WellPlaced(files'[n]) /\ WellPlaced(manager_'[n].buf)
         /\ \A n \in 1 .. cur_vlog_ : manager_'[n].buf = NoBytes
         /\ \A n \in 1 .. cur_vlog_ : All(n)' = All(n)
         /\ Append2(files'[cur_vlog_ + 1], manager_'[cur_vlog_ + 1].buf).recs
              = {[at |-> 0, entry |-> e]}
  <1> DEFINE o == cur_vlog_
             m == cur_vlog_ + 1
             flush == FlushBuffer(manager_[o], files[o])
             r == AddRecord(NewVlogInfo, NoBytes, e)
  <1>1. /\ flush.info \in VlogInfo /\ flush.info.buf = NoBytes
        /\ flush.file \in Chunk /\ flush.file = All(o)
        /\ flush.info.head = flush.file.len /\ WellPlaced(flush.file)
    BY CurrentFacts, FlushFacts DEF All
  <1>2. NewVlogInfo \in VlogInfo /\ NewVlogInfo.buf = NoBytes /\ NewVlogInfo.head = NoBytes.len
    BY NoBytesFacts DEF NewVlogInfo, VlogInfo, NoBytes
  <1>3. /\ r.info \in VlogInfo /\ r.file \in Chunk
        /\ r.info.head = r.file.len
        /\ r.info.buf.len <= WriteBufferSize
        /\ WellPlaced(r.file) /\ WellPlaced(r.info.buf)
        /\ Append2(r.file, r.info.buf) = Append2(Append2(NoBytes, NoBytes), RecordOf(e))
    BY <1>2, NoBytesFacts, AddRecordFacts
  <1>4. Append2(r.file, r.info.buf).recs = {[at |-> 0, entry |-> e]}
    BY <1>3, NoBytesFacts, Append2Empty, AppendOne DEF NoBytes
  <1>5. /\ m \in VlogNumbers
        /\ manager_' = With([manager_ EXCEPT ![o] = flush.info], m, r.info)
        /\ files' = With([files EXCEPT ![o] = flush.file], m, r.file)
        /\ cur_vlog_' = m
        /\ returned' = returned \cup {[vlog |-> m, offset |-> kVHeaderSize, entry |-> e]}
    BY DEF RotateAndWrite
  <1> HIDE DEF r, flush
  <1>6. /\ manager_ \in [1 .. o -> VlogInfo] /\ files \in [1 .. o -> Chunk]
        /\ o \in VlogNumbers /\ returned \subseteq Address
    BY DEF IInv, TypeOK
  <1>7. o \in Nat /\ 1 .. m = (1 .. o) \cup {m} /\ m \notin 1 .. o /\ o \in 1 .. o
    BY <1>6 DEF VlogNumbers
  <1>8. /\ manager_' \in [1 .. m -> VlogInfo] /\ files' \in [1 .. m -> Chunk]
        /\ manager_'[m] = r.info /\ files'[m] = r.file
        /\ manager_'[o] = flush.info /\ files'[o] = flush.file
        /\ \A n \in 1 .. o : n # o => manager_'[n] = manager_[n] /\ files'[n] = files[n]
    <2>1. /\ DOMAIN [manager_ EXCEPT ![o] = flush.info] = 1 .. o
          /\ DOMAIN [files EXCEPT ![o] = flush.file] = 1 .. o
      BY <1>6
    <2>2. /\ manager_' = [n \in 1 .. m |-> IF n = m THEN r.info
                            ELSE [manager_ EXCEPT ![o] = flush.info][n]]
          /\ files' = [n \in 1 .. m |-> IF n = m THEN r.file
                            ELSE [files EXCEPT ![o] = flush.file][n]]
      BY <1>5, <1>7, <2>1 DEF With
    <2>3. QED
      BY <1>1, <1>3, <1>6, <1>7, <2>2
  <1>9. returned' \subseteq Address
    BY <1>5, <1>6, VlogAssumption DEF Address
  <1>10. TypeOK'
    BY <1>5, <1>8, <1>9 DEF TypeOK
  <1>11. HeadIsFileLength' /\ BufferNeverOverruns'
    <2>1. NoBytes.len <= WriteBufferSize
      BY VlogAssumption DEF NoBytes
    <2>2. \A n \in 1 .. m : manager_'[n].head = files'[n].len
                             /\ manager_'[n].buf.len <= WriteBufferSize
      BY <1>1, <1>3, <1>6, <1>7, <1>8, <2>1 DEF IInv, HeadIsFileLength, BufferNeverOverruns
    <2>3. QED
      BY <1>8, <2>2 DEF HeadIsFileLength, BufferNeverOverruns
  <1>12. \A n \in 1 .. m : WellPlaced(files'[n]) /\ WellPlaced(manager_'[n].buf)
    BY <1>1, <1>3, <1>7, <1>8, NoBytesFacts DEF IInv
  <1>13. \A n \in 1 .. o : manager_'[n].buf = NoBytes
    BY <1>1, <1>8 DEF IInv
  <1>14. \A n \in 1 .. o : All(n)' = All(n)
    <2>1. Append2(flush.file, NoBytes) = flush.file
      BY <1>1, Append2Empty
    <2>2. QED
      BY <1>1, <1>8, <2>1 DEF All
  <1>15. QED
    BY <1>4, <1>5, <1>8, <1>10, <1>11, <1>12, <1>13, <1>14

\* Both actions preserve the inductive invariant, and so does stuttering.
LEMMA NextIInv == IInv /\ [Next]_vars => IInv'
  <1> SUFFICES ASSUME IInv, [Next]_vars PROVE IInv'
    OBVIOUS
  <1>0. cur_vlog_ \in Nat /\ returned \subseteq Address
    BY DEF IInv, TypeOK, VlogNumbers
  <1>1. ASSUME NEW e \in Entries, Write(e) PROVE IInv'
    <2>1. returned' = returned \cup {[vlog |-> cur_vlog_,
            offset |-> GetWritePos + kVHeaderSize, entry |-> e]}
      BY <1>1 DEF Write
    <2>2. \A n \in 1 .. cur_vlog_ : All(n).recs \subseteq All(n)'.recs
      BY <1>1, WriteFacts
    <2>3. GetWritePos + kVHeaderSize - kVHeaderSize = GetWritePos /\ GetWritePos \in Nat
      BY CurrentFacts, VlogAssumption
    <2>4. ASSUME NEW a \in returned'
          PROVE  /\ a.vlog \in 1 .. cur_vlog_'
                 /\ a.offset - kVHeaderSize \in Nat
                 /\ [at |-> a.offset - kVHeaderSize, entry |-> a.entry] \in All(a.vlog)'.recs
      <3>1. CASE a \in returned
        BY <1>1, <2>2, <3>1, WriteFacts DEF IInv
      <3>2. CASE a = [vlog |-> cur_vlog_, offset |-> GetWritePos + kVHeaderSize, entry |-> e]
        <4>1. a.vlog = cur_vlog_ /\ a.entry = e /\ a.offset - kVHeaderSize = GetWritePos
          <5>1. a.vlog = cur_vlog_ /\ a.entry = e /\ a.offset = GetWritePos + kVHeaderSize
            BY <3>2
          <5>2. QED
            BY <2>3, <5>1, VlogAssumption
        <4>2. All(a.vlog)'.recs = All(cur_vlog_).recs \cup {[at |-> GetWritePos, entry |-> e]}
          BY <1>1, <4>1, WriteFacts DEF All
        <4>3. a.vlog \in 1 .. cur_vlog_'
          BY <1>1, <4>1, WriteFacts, CurrentFacts
        <4>4. QED
          BY <2>3, <4>1, <4>2, <4>3
      <3>3. QED
        BY <2>1, <3>1, <3>2
    <2>5. \A n \in 1 .. cur_vlog_' : n # cur_vlog_' => manager_'[n].buf = NoBytes
      BY <1>1, WriteFacts DEF IInv
    <2>6. QED
      BY <1>1, <2>4, <2>5, WriteFacts DEF IInv, All
  <1>2. ASSUME NEW e \in Entries, RotateAndWrite(e) PROVE IInv'
    <2>1. returned' = returned \cup {[vlog |-> cur_vlog_ + 1,
            offset |-> kVHeaderSize, entry |-> e]}
      BY <1>2 DEF RotateAndWrite
    <2>2. 1 .. (cur_vlog_ + 1) = (1 .. cur_vlog_) \cup {cur_vlog_ + 1}
      BY <1>0
    <2>3. kVHeaderSize - kVHeaderSize = 0
      BY VlogAssumption
    <2>4. ASSUME NEW a \in returned'
          PROVE  /\ a.vlog \in 1 .. cur_vlog_'
                 /\ a.offset - kVHeaderSize \in Nat
                 /\ [at |-> a.offset - kVHeaderSize, entry |-> a.entry] \in All(a.vlog)'.recs
      <3>1. CASE a \in returned
        BY <1>2, <2>2, <3>1, RotateFacts DEF IInv
      <3>2. CASE a = [vlog |-> cur_vlog_ + 1, offset |-> kVHeaderSize, entry |-> e]
        BY <1>2, <2>2, <2>3, <3>2, RotateFacts DEF All
      <3>3. QED
        BY <2>1, <3>1, <3>2
    <2>5. \A n \in 1 .. cur_vlog_' : n # cur_vlog_' => manager_'[n].buf = NoBytes
      BY <1>2, <2>2, RotateFacts
    <2>6. QED
      BY <1>2, <2>4, <2>5, RotateFacts DEF IInv, All
  <1>3. CASE UNCHANGED vars
    BY <1>3 DEF vars, IInv, TypeOK, HeadIsFileLength, BufferNeverOverruns, All
  <1>4. QED
    BY <1>1, <1>2, <1>3 DEF Next

-----------------------------------------------------------------------------
(***************************************************************************)
(* The invariant holds in every reachable state, for all entry sizes,      *)
(* buffer sizes and file size limits.                                      *)
(***************************************************************************)
THEOREM Invariance == Spec => []IInv
  BY InitIInv, NextIInv, PTL DEF Spec

(***************************************************************************)
(* The state of VlogManager stays well typed; in particular manager_ has   *)
(* an entry for the current vlog, as the asserts of AddRecord require.     *)
(***************************************************************************)
THEOREM TypeCorrect == Spec => []TypeOK
  <1>1. IInv => TypeOK
    BY DEF IInv
  <1>2. QED
    BY <1>1, Invariance, PTL

(***************************************************************************)
(* VWriter::AddRecord never copies beyond buffer_.                         *)
(***************************************************************************)
THEOREM BufferSafe == Spec => []BufferNeverOverruns
  <1>1. IInv => BufferNeverOverruns
    BY DEF IInv
  <1>2. QED
    BY <1>1, Invariance, PTL

(***************************************************************************)
(* head_ is the length of the file, for every vlog.                        *)
(***************************************************************************)
THEOREM HeadCorrect == Spec => []HeadIsFileLength
  <1>1. IInv => HeadIsFileLength
    BY DEF IInv
  <1>2. QED
    BY <1>1, Invariance, PTL

(***************************************************************************)
(* Every address write_value_to_vlog returned reads back its entry through *)
(* FetchValueFromVlog, wherever its bytes are by now.                      *)
(***************************************************************************)
THEOREM ReadsBack == Spec => []ReadBack
  <1>1. ASSUME IInv PROVE ReadBack
    <2>1. ASSUME NEW a \in returned
          PROVE  FetchValueFromVlog(a.vlog, a.offset, Size[a.entry]) = a.entry
      <3> DEFINE n == a.vlog
                 p == a.offset - kVHeaderSize
      <3>1. /\ n \in 1 .. cur_vlog_ /\ p \in Nat /\ a.entry \in Entries
            /\ p + kVHeaderSize = a.offset
            /\ [at |-> p, entry |-> a.entry] \in Append2(files[n], manager_[n].buf).recs
        BY <1>1, VlogAssumption DEF IInv, TypeOK, Address, All
      <3>2. /\ n \in DOMAIN manager_ /\ manager_[n] \in VlogInfo /\ files[n] \in Chunk
            /\ files[n].len = manager_[n].head
            /\ WellPlaced(files[n]) /\ WellPlaced(manager_[n].buf)
        BY <1>1, <3>1 DEF IInv, TypeOK, HeadIsFileLength
      <3> HIDE DEF p
      <3>3. Get(manager_[n], files[n], p + kVHeaderSize, Size[a.entry]) = a.entry
        BY <3>1, <3>2, GetFindsRecord
      <3>4. QED
        BY <3>1, <3>2, <3>3 DEF FetchValueFromVlog
    <2>2. QED
      BY <2>1 DEF ReadBack
  <1>2. QED
    BY <1>1, Invariance, PTL

(***************************************************************************)
(* The file of a vlog that is no longer current holds all of its records,  *)
(* so a garbage collection that reads the file misses none.                *)
(***************************************************************************)
THEOREM RotatedOnDisk == Spec => []RotatedVlogsOnDisk
  <1>1. ASSUME IInv PROVE RotatedVlogsOnDisk
    <2>1. ASSUME NEW a \in returned, a.vlog # cur_vlog_
          PROVE  [at |-> a.offset - kVHeaderSize, entry |-> a.entry] \in files[a.vlog].recs
      <3>1. /\ a.vlog \in 1 .. cur_vlog_
            /\ [at |-> a.offset - kVHeaderSize, entry |-> a.entry] \in All(a.vlog).recs
        BY <1>1 DEF IInv
      <3>2. files[a.vlog] \in Chunk /\ manager_[a.vlog].buf = NoBytes
        BY <1>1, <2>1, <3>1 DEF IInv, TypeOK
      <3>3. QED
        BY <3>1, <3>2, Append2Empty DEF All
    <2>2. QED
      BY <2>1 DEF RotatedVlogsOnDisk
  <1>2. QED
    BY <1>1, Invariance, PTL

-----------------------------------------------------------------------------
(* Refinement of AppendLog *)

\* The address of record r of vlog n.
AddressOf(n, r) == [vlog |-> n, offset |-> r.at + kVHeaderSize, entry |-> r.entry]

\* A record placed inside a chunk starts before the chunk's end.
LEMMA BeforeEnd ==
  ASSUME NEW at \in Nat, NEW h \in Nat, NEW s \in Nat \ {0}, NEW len \in Nat,
         at + h + s <= len
  PROVE  at + h < len + h
  OBVIOUS

\* A record written behind the end of the current vlog, or at the start of a
\* new one, lies behind every record stored so far.
LEMMA BehindAll ==
  ASSUME IInv, NEW n \in 1 .. cur_vlog_ + 1, NEW p \in Nat, NEW e \in Entries,
         \/ n = cur_vlog_ /\ p = All(cur_vlog_).len
         \/ n = cur_vlog_ + 1
  PROVE  \A b \in Contents : Log!Behind(AddressOf(n, [at |-> p, entry |-> e]), b)
  <1> SUFFICES ASSUME NEW m \in DOMAIN files, NEW r \in All(m).recs
               PROVE  Log!Behind(AddressOf(n, [at |-> p, entry |-> e]), AddressOf(m, r))
    BY DEF Contents, AddressOf, All
  <1>1. /\ m \in 1 .. cur_vlog_ /\ cur_vlog_ \in Nat
        /\ files[m] \in Chunk /\ manager_[m] \in VlogInfo
        /\ WellPlaced(files[m]) /\ WellPlaced(manager_[m].buf)
    BY DEF IInv, TypeOK, VlogNumbers
  <1>2. All(m) \in Chunk /\ WellPlaced(All(m))
    BY <1>1, Append2Facts DEF All, VlogInfo
  <1>3. /\ r.at \in Nat /\ r.entry \in Entries /\ All(m).len \in Nat
        /\ r.at + kVHeaderSize + Size[r.entry] <= All(m).len
    BY <1>2 DEF Chunk, Placed, WellPlaced
  <1>4. Size[r.entry] \in Nat \ {0} /\ kVHeaderSize \in Nat
    BY <1>3, VlogAssumption
  <1>5. r.at + kVHeaderSize < All(m).len + kVHeaderSize
    BY <1>3, <1>4, BeforeEnd
  <1>6. n > m \/ (n = m /\ p + kVHeaderSize > r.at + kVHeaderSize)
    BY <1>1, <1>3, <1>4, <1>5
  <1>7. QED
    BY <1>6 DEF Log!Behind, AddressOf

\* Writing a record adds exactly its address to the contents.
LEMMA WriteRefines ==
  ASSUME IInv, NEW e \in Entries, Write(e) \/ RotateAndWrite(e)
  PROVE  Log!Write
  <1> DEFINE n == cur_vlog_'
             p == IF cur_vlog_' = cur_vlog_ THEN GetWritePos ELSE 0
             a == AddressOf(n, [at |-> p, entry |-> e])
             After(m) == Append2(files'[m], manager_'[m].buf)
  <1>1. /\ cur_vlog_ \in Nat /\ DOMAIN files = 1 .. cur_vlog_
        /\ GetWritePos \in Nat /\ GetWritePos = All(cur_vlog_).len
    BY CurrentFacts DEF IInv, TypeOK
  <1>2. /\ \/ n = cur_vlog_ /\ p = GetWritePos
           \/ n = cur_vlog_ + 1 /\ p = 0
        /\ p \in Nat /\ n \in 1 .. cur_vlog_ + 1 /\ n \in Nat
    BY <1>1, WriteFacts, RotateFacts, CurrentFacts
  <1>3. DOMAIN files' = 1 .. n
    BY WriteFacts, RotateFacts DEF TypeOK
  <1>4. ASSUME NEW m \in 1 .. n
        PROVE  /\ m # n => m \in 1 .. cur_vlog_ /\ After(m) = All(m)
               /\ m = n /\ n = cur_vlog_ =>
                    After(m).recs = All(m).recs \cup {[at |-> p, entry |-> e]}
               /\ m = n /\ n # cur_vlog_ =>
                    After(m).recs = {[at |-> p, entry |-> e]}
    <2>1. CASE Write(e)
      BY <1>1, <1>2, <2>1, WriteFacts DEF All
    <2>2. CASE RotateAndWrite(e)
      BY <1>1, <1>2, <2>2, RotateFacts DEF All
    <2>3. QED
      BY <2>1, <2>2
  <1>5. \A x : x \in Contents <=>
                 \E m \in 1 .. cur_vlog_ : \E r \in All(m).recs : x = AddressOf(m, r)
    BY <1>1 DEF Contents, All, AddressOf
  <1>6. \A x : x \in Contents' <=>
                 \E m \in 1 .. n : \E r \in After(m).recs : x = AddressOf(m, r)
    BY <1>3 DEF Contents, All, AddressOf
  <1>7. n \in 1 .. n /\ [at |-> p, entry |-> e] \in After(n).recs
    <2>1. n \in 1 .. n
      BY <1>2, WriteFacts, RotateFacts DEF TypeOK, VlogNumbers
    <2>2. QED
      BY <1>2, <1>4, <2>1
  <1> HIDE DEF n, p
  <1>8. Contents' = Contents \cup {a}
    <2>1. ASSUME NEW x, x \in Contents' PROVE x \in Contents \cup {a}
      <3>1. PICK m \in 1 .. n : \E r \in After(m).recs : x = AddressOf(m, r)
        BY <1>6, <2>1
      <3>a. PICK r \in After(m).recs : x = AddressOf(m, r)
        BY <3>1
      <3>2. CASE m # n
        BY <1>4, <1>5, <3>1, <3>a, <3>2
      <3>3. CASE m = n /\ n = cur_vlog_
        <4>1. r \in All(m).recs \/ r = [at |-> p, entry |-> e]
          BY <1>4, <3>a, <3>3
        <4>2. QED
          BY <1>5, <3>a, <3>3, <4>1
      <3>4. CASE m = n /\ n # cur_vlog_
        BY <1>4, <3>a, <3>4
      <3>5. QED
        BY <3>2, <3>3, <3>4
    <2>2. ASSUME NEW x, x \in Contents PROVE x \in Contents'
      <3>1. PICK m \in 1 .. cur_vlog_ : \E r \in All(m).recs : x = AddressOf(m, r)
        BY <1>5, <2>2
      <3>a. PICK r \in All(m).recs : x = AddressOf(m, r)
        BY <3>1
      <3>2. m \in 1 .. n /\ (m = n => n = cur_vlog_)
        BY <1>1, <1>2, <3>1
      <3>3. r \in After(m).recs
        BY <1>4, <3>a, <3>2
      <3>4. QED
        BY <1>6, <3>a, <3>2, <3>3
    <2>3. a \in Contents'
      BY <1>6, <1>7
    <2>4. QED
      BY <2>1, <2>2, <2>3
  <1>9. \A b \in Contents : Log!Behind(a, b)
    BY <1>1, <1>2, BehindAll
  <1>10. a.entry \in Entries
    BY DEF AddressOf
  <1>11. QED
    BY <1>8, <1>9, <1>10 DEF Log!Write

(***************************************************************************)
(* VlogManager implements AppendLog: addresses only grow, and nothing that *)
(* was stored at an address changes, moves or disappears.                  *)
(***************************************************************************)
THEOREM Refinement == Spec => ImplementsAppendLog
  <1>1. Init => Log!Init
    <2>1. ASSUME Init PROVE \A n \in DOMAIN files : Append2(files[n], manager_[n].buf).recs = {}
      BY <2>1, NoBytesFacts, Append2Empty DEF Init, NewVlogInfo, NoBytes
    <2>2. QED
      BY <2>1 DEF Log!Init, Contents
  <1>2. IInv /\ [Next]_vars => [Log!Write]_Contents
    <2>1. ASSUME IInv, Next PROVE Log!Write
      BY <2>1, WriteRefines DEF Next
    <2>2. UNCHANGED vars => Contents' = Contents
      BY DEF vars, Contents
    <2>3. QED
      BY <2>1, <2>2
  <1>3. QED
    BY <1>1, <1>2, Invariance, PTL DEF Spec, Log!Spec, ImplementsAppendLog
=============================================================================
