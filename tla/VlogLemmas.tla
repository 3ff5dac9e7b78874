----------------------------- MODULE VlogLemmas -----------------------------
(***************************************************************************)
(* What the operators of Vlog preserve and return, for every set of        *)
(* entries and all sizes: the lemmas that the proofs about VlogManager and *)
(* SlaveRecovery share.                                                    *)
(***************************************************************************)
EXTENDS Vlog, TLAPS

-----------------------------------------------------------------------------
(* Chunks *)

\* What VWriter::AddRecord lays out for one entry: header and body.
LEMMA RecordOfFacts ==
  ASSUME NEW e \in Entries
  PROVE  /\ RecordOf(e) \in Chunk
         /\ WellPlaced(RecordOf(e))
         /\ RecordOf(e).len = kVHeaderSize + Size[e]
  BY VlogAssumption DEF RecordOf, Chunk, Placed, WellPlaced

\* An empty buffer or file is well formed.
LEMMA NoBytesFacts == NoBytes \in Chunk /\ WellPlaced(NoBytes)
  BY DEF NoBytes, Chunk, Placed, WellPlaced

\* Appending keeps the type, the length and the placement right.
LEMMA Append2Facts ==
  ASSUME NEW c \in Chunk, NEW d \in Chunk
  PROVE  /\ Append2(c, d) \in Chunk
         /\ Append2(c, d).len = c.len + d.len
         /\ WellPlaced(c) /\ WellPlaced(d) => WellPlaced(Append2(c, d))
  <1> DEFINE shifted == {[at |-> c.len + r.at, entry |-> r.entry] : r \in d.recs}
  <1>1. /\ c.len \in Nat /\ d.len \in Nat
        /\ c.recs \subseteq Placed /\ d.recs \subseteq Placed
    BY DEF Chunk
  <1>2. shifted \subseteq Placed
    BY <1>1 DEF Placed
  <1>3. Append2(c, d) \in Chunk /\ Append2(c, d).len = c.len + d.len
    BY <1>1, <1>2 DEF Append2, Chunk
  <1>4. ASSUME WellPlaced(c), WellPlaced(d)
        PROVE  WellPlaced(Append2(c, d))
    <2>1. ASSUME NEW r \in Append2(c, d).recs
          PROVE  r.at + kVHeaderSize + Size[r.entry] <= Append2(c, d).len
      BY <1>1, <1>4, VlogAssumption DEF Append2, WellPlaced, Placed
    <2>2. ASSUME NEW r \in Append2(c, d).recs, NEW s \in Append2(c, d).recs,
                 r.at = s.at
          PROVE  r = s
      <3>1. \A x \in c.recs : x.at < c.len
        BY <1>1, <1>4, VlogAssumption DEF WellPlaced, Placed
      <3>2. \A x \in shifted : x.at >= c.len
        BY <1>1 DEF Placed
      <3>3. CASE r \in c.recs
        BY <1>1, <1>2, <1>4, <2>2, <3>1, <3>2, <3>3 DEF Append2, WellPlaced, Placed
      <3>4. CASE r \in shifted
        <4>1. s \in shifted
          BY <1>1, <1>2, <2>2, <3>1, <3>2, <3>4 DEF Append2, Placed
        <4>2. PICK x \in d.recs : r = [at |-> c.len + x.at, entry |-> x.entry]
          BY <3>4
        <4>3. PICK y \in d.recs : s = [at |-> c.len + y.at, entry |-> y.entry]
          BY <4>1
        <4>4. x.at = y.at
          BY <1>1, <2>2, <4>2, <4>3 DEF Placed
        <4>5. QED
          BY <1>4, <4>2, <4>3, <4>4 DEF WellPlaced
      <3>5. QED
        BY <3>3, <3>4 DEF Append2
    <2>3. QED
      BY <2>1, <2>2 DEF WellPlaced
  <1>5. QED
    BY <1>3, <1>4

\* Writing the buffer out before appending to it or to the file is the same
\* as appending at the end.
LEMMA Append2Assoc ==
  ASSUME NEW c \in Chunk, NEW d \in Chunk, NEW g \in Chunk
  PROVE  Append2(Append2(c, d), g) = Append2(c, Append2(d, g))
  <1>1. /\ c.len \in Nat /\ d.len \in Nat /\ g.len \in Nat
        /\ \A r \in g.recs : r.at \in Nat
        /\ \A r \in d.recs : r.at \in Nat
    BY DEF Chunk, Placed
  <1> DEFINE L == Append2(Append2(c, d), g)
             R == Append2(c, Append2(d, g))
  <1>2. L.len = R.len
    BY <1>1 DEF Append2
  <1> DEFINE Far(r) == [at |-> (c.len + d.len) + r.at, entry |-> r.entry]
             Near(r) == [at |-> d.len + r.at, entry |-> r.entry]
             Mid(r) == [at |-> c.len + r.at, entry |-> r.entry]
  <1>a. L.recs = (c.recs \cup {Mid(r) : r \in d.recs}) \cup {Far(r) : r \in g.recs}
    BY DEF Append2
  <1>b. R.recs = c.recs \cup {Mid(r) : r \in d.recs \cup {Near(x) : x \in g.recs}}
    BY DEF Append2
  <1>c. \A r \in g.recs : Mid(Near(r)) = Far(r)
    BY <1>1
  <1> HIDE DEF Far, Near, Mid, L, R
  <1>3. L.recs = R.recs
    BY <1>a, <1>b, <1>c
  <1> USE DEF L, R
  <1>5. L = [len |-> L.len, recs |-> L.recs] /\ R = [len |-> R.len, recs |-> R.recs]
    BY DEF Append2
  <1>6. QED
    BY <1>2, <1>3, <1>5

\* Appending an empty buffer changes nothing.
LEMMA Append2Empty ==
  ASSUME NEW c \in Chunk
  PROVE  Append2(c, NoBytes) = c
  BY DEF Append2, NoBytes, Chunk

\* A record appended behind chunk c starts at c's end; the others stay.
LEMMA AppendOne ==
  ASSUME NEW c \in Chunk, NEW e \in Entries
  PROVE  Append2(c, RecordOf(e)).recs = c.recs \cup {[at |-> c.len, entry |-> e]}
  <1>1. c.len + 0 = c.len
    BY DEF Chunk
  <1>2. QED
    BY <1>1 DEF Append2, RecordOf

\* Parsing a record where one is placed yields it.
LEMMA BodyAtPlaced ==
  ASSUME NEW c \in Chunk, WellPlaced(c), NEW r \in c.recs
  PROVE  BodyAt(c, r.at + kVHeaderSize, Size[r.entry]) = r.entry
  <1> DEFINE Hit(s) == s.at + kVHeaderSize = r.at + kVHeaderSize
                       /\ Size[s.entry] = Size[r.entry]
  <1>1. \A s \in c.recs : Hit(s) => s = r
    BY VlogAssumption DEF Chunk, Placed, WellPlaced
  <1>2. \E s \in c.recs : Hit(s)
    OBVIOUS
  <1>3. (CHOOSE s \in c.recs : Hit(s)) = r
    BY <1>1, <1>2
  <1>4. QED
    BY <1>2, <1>3 DEF BodyAt

-----------------------------------------------------------------------------
(* One VlogInfo and its file *)

\* FlushCurrentBuffer keeps head_ equal to the file length and loses no record.
LEMMA FlushFacts ==
  ASSUME NEW v \in VlogInfo, NEW f \in Chunk, WellPlaced(f), WellPlaced(v.buf)
  PROVE  LET r == FlushBuffer(v, f)
         IN  /\ r.info \in VlogInfo /\ r.info.buf = NoBytes
             /\ r.file \in Chunk /\ r.file = Append2(f, v.buf)
             /\ f.len = v.head => r.info.head = r.file.len
             /\ r.info.head = v.head + v.buf.len
             /\ WellPlaced(r.file)
  BY Append2Facts, NoBytesFacts DEF FlushBuffer, VlogInfo, Chunk

\* AddRecord keeps head_ and the file length equal, stays inside the buffer,
\* and puts the record behind everything written before.
LEMMA AddRecordFacts ==
  ASSUME NEW v \in VlogInfo, NEW f \in Chunk, NEW e \in Entries,
         WellPlaced(f), WellPlaced(v.buf)
  PROVE  LET r == AddRecord(v, f, e)
         IN  /\ r.info \in VlogInfo
             /\ r.file \in Chunk /\ f.recs \subseteq r.file.recs
             /\ f.len = v.head => r.info.head = r.file.len
             /\ r.info.buf.len <= WriteBufferSize
             /\ WellPlaced(r.file) /\ WellPlaced(r.info.buf)
             /\ Append2(r.file, r.info.buf) = Append2(Append2(f, v.buf), RecordOf(e))
  <1> DEFINE need == kVHeaderSize + Size[e]
             flushed == FlushBuffer(v, f)
             r == AddRecord(v, f, e)
  <1>1. /\ RecordOf(e) \in Chunk /\ WellPlaced(RecordOf(e))
        /\ RecordOf(e).len = need /\ need \in Nat
    BY RecordOfFacts, VlogAssumption
  <1>2. v.head \in Nat /\ v.buf \in Chunk /\ v.buf.len \in Nat /\ f.len \in Nat
    BY DEF VlogInfo, Chunk
  <1>3. /\ flushed.info \in VlogInfo /\ flushed.info.buf = NoBytes
        /\ flushed.file \in Chunk /\ flushed.file = Append2(f, v.buf)
        /\ f.len = v.head => flushed.info.head = flushed.file.len
        /\ WellPlaced(flushed.file) /\ f.recs \subseteq flushed.file.recs
    BY FlushFacts DEF Append2
  <1>4. CASE v.buf.len + need <= WriteBufferSize
    <2>1. r = [info |-> [head |-> v.head, buf |-> Append2(v.buf, RecordOf(e))], file |-> f]
      BY <1>4 DEF AddRecord, VlogInfo
    <2>2. /\ Append2(v.buf, RecordOf(e)) \in Chunk
          /\ Append2(v.buf, RecordOf(e)).len = v.buf.len + need
          /\ WellPlaced(Append2(v.buf, RecordOf(e)))
      BY <1>1, <1>2, Append2Facts
    <2>3. Append2(f, Append2(v.buf, RecordOf(e))) = Append2(Append2(f, v.buf), RecordOf(e))
      BY <1>1, <1>2, Append2Assoc
    <2>4. QED
      BY <1>2, <1>4, <2>1, <2>2, <2>3 DEF VlogInfo
  <1>5. CASE ~(v.buf.len + need <= WriteBufferSize) /\ need <= WriteBufferSize
    <2>1. r = [info |-> [head |-> flushed.info.head, buf |-> RecordOf(e)],
               file |-> flushed.file]
      BY <1>3, <1>5 DEF AddRecord, VlogInfo
    <2>2. QED
      BY <1>1, <1>3, <1>5, <2>1 DEF VlogInfo
  <1>6. CASE ~(v.buf.len + need <= WriteBufferSize) /\ ~(need <= WriteBufferSize)
    <2>1. r = [info |-> [head |-> flushed.info.head + need, buf |-> NoBytes],
               file |-> Append2(flushed.file, RecordOf(e))]
      BY <1>3, <1>6 DEF AddRecord, VlogInfo
    <2>2. /\ Append2(flushed.file, RecordOf(e)) \in Chunk
          /\ Append2(flushed.file, RecordOf(e)).len = flushed.file.len + need
          /\ WellPlaced(Append2(flushed.file, RecordOf(e)))
          /\ flushed.file.recs \subseteq Append2(flushed.file, RecordOf(e)).recs
      BY <1>1, <1>3, Append2Facts DEF Append2
    <2>3. Append2(Append2(flushed.file, RecordOf(e)), NoBytes)
            = Append2(flushed.file, RecordOf(e))
      BY <2>2, Append2Empty
    <2>4. flushed.info.head + need \in Nat
      BY <1>1, <1>3 DEF VlogInfo
    <2>5. NoBytes.len <= WriteBufferSize
      BY VlogAssumption DEF NoBytes
    <2>6. QED
      BY <1>3, <2>1, <2>2, <2>3, <2>4, <2>5, NoBytesFacts DEF VlogInfo
  <1>7. QED
    BY <1>4, <1>5, <1>6

\* VlogFetcher::Get takes the right branch for every record of the vlog.
LEMMA GetFindsRecord ==
  ASSUME NEW v \in VlogInfo, NEW f \in Chunk,
         f.len = v.head, WellPlaced(f), WellPlaced(v.buf),
         NEW p \in Nat, NEW e \in Entries,
         [at |-> p, entry |-> e] \in Append2(f, v.buf).recs
  PROVE  Get(v, f, p + kVHeaderSize, Size[e]) = e
  <1>1. /\ v.head \in Nat /\ v.buf \in Chunk /\ v.buf.len \in Nat /\ f.len \in Nat
        /\ f.recs \subseteq Placed /\ v.buf.recs \subseteq Placed
        /\ kVHeaderSize \in Nat \ {0} /\ Size[e] \in Nat \ {0}
    BY VlogAssumption DEF VlogInfo, Chunk
  <1>2. CASE [at |-> p, entry |-> e] \in f.recs
    <2>1. p + kVHeaderSize + Size[e] <= f.len
      BY <1>2 DEF WellPlaced
    <2>2. BodyAt(f, p + kVHeaderSize, Size[e]) = e
      BY <1>2, BodyAtPlaced
    <2>3. QED
      BY <1>1, <2>1, <2>2 DEF Get
  <1>3. CASE \E r \in v.buf.recs : [at |-> p, entry |-> e] = [at |-> f.len + r.at, entry |-> r.entry]
    <2>1. PICK r \in v.buf.recs : p = f.len + r.at /\ e = r.entry
      BY <1>3
    <2>2. BodyAt(v.buf, r.at + kVHeaderSize, Size[r.entry]) = r.entry
      BY <1>1, BodyAtPlaced
    <2>3. r.at \in Nat
      BY <1>1 DEF Placed
    <2>4. p + kVHeaderSize - v.head = r.at + kVHeaderSize /\ p + kVHeaderSize >= v.head
      BY <1>1, <2>1, <2>3
    <2>5. Get(v, f, p + kVHeaderSize, Size[e])
            = BodyAt(v.buf, p + kVHeaderSize - v.head, Size[e])
      BY <1>1, <2>4 DEF Get
    <2>6. QED
      BY <2>1, <2>2, <2>4, <2>5
  <1>4. QED
    BY <1>2, <1>3 DEF Append2
=============================================================================
