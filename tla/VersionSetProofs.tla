-------------------------- MODULE VersionSetProofs --------------------------
(***************************************************************************)
(* What a compaction drops is never missed: proofs about Survivors, the    *)
(* drop rules of DBImpl::DoCompactionWork, for any entries and any version.*)
(***************************************************************************)
EXTENDS VersionSet, TLAPS

EntryType == [key : Int, seq : Nat, type : {"value", "deletion"}]

\* No two entries have the same key and sequence number.
Unique(S) == \A a, b \in S : a.key = b.key /\ a.seq = b.seq => a = b

\* The keys of a file lie between its smallest and its largest.
InRange(f) == \A e \in f.entries : f.smallest.key <= e.key /\ e.key <= f.largest.key

\* The rule that drops a deletion: all snapshots see it, and no level below
\* the output may have the key.
Obsolete(e, v, l, ss) ==
  e.type = "deletion" /\ e.seq <= ss /\ IsBaseLevelForKey(v, l, e.key)

(***************************************************************************)
(* An entry that some snapshot reads is kept, unless it is an obsolete     *)
(* deletion: rule (A) of DoCompactionWork hides only what nobody asks for. *)
(***************************************************************************)
LEMMA ReadEntrySurvives ==
  ASSUME NEW S \in SUBSET EntryType, NEW v, NEW l, NEW ss \in Nat, NEW s \in Nat, ss <= s,
         NEW k \in Int, NEW e \in Seek(S, k, s), ~Obsolete(e, v, l, ss)
  PROVE  e \in Survivors(S, v, l, ss)
<1>1. e \in S /\ e.key = k /\ e.seq <= s /\ e.seq \in Nat
  BY DEF Seek, EntryType
<1>2. ASSUME NEW o \in S, o.key = e.key, e.seq < o.seq, o.seq <= ss PROVE FALSE
  <2>1. o.seq \in Nat
    BY DEF EntryType
  <2>2. o.seq <= e.seq
    BY <1>1, <1>2, <2>1 DEF Seek
  <2> QED BY <1>1, <1>2, <2>1, <2>2
<1> QED BY <1>1, <1>2 DEF Survivors, Obsolete

(***************************************************************************)
(* A read at the smallest snapshot or above finds after a compaction of    *)
(* the entries S what it found before; only if that was an obsolete        *)
(* deletion does it find nothing.  In particular no older entry of the key *)
(* comes back.                                                             *)
(***************************************************************************)
THEOREM CompactionKeepsReads ==
  ASSUME NEW S \in SUBSET EntryType, Unique(S), NEW v, NEW l,
         NEW ss \in Nat, NEW s \in Nat, ss <= s, NEW k \in Int, NEW e \in Seek(S, k, s)
  PROVE  Seek(Survivors(S, v, l, ss), k, s) = IF Obsolete(e, v, l, ss) THEN {} ELSE {e}
<1> DEFINE T == Survivors(S, v, l, ss)
<1>1. e \in S /\ e.key = k /\ e.seq <= s /\ e.seq \in Nat
  BY DEF Seek, EntryType
<1>2. T \subseteq S
  BY DEF Survivors
<1>3. \A x \in S : x.key = k /\ x.seq <= s => x = e \/ x.seq < e.seq
  <2> SUFFICES ASSUME NEW x \in S, x.key = k, x.seq <= s PROVE x = e \/ x.seq < e.seq
    OBVIOUS
  <2>1. x.seq \in Nat /\ x.seq <= e.seq
    BY DEF EntryType, Seek
  <2> QED BY <1>1, <2>1 DEF Unique
<1>4. CASE Obsolete(e, v, l, ss)
  <2>1. e.seq <= ss /\ e \notin T
    BY <1>4 DEF Obsolete, Survivors
  <2>2. ASSUME NEW x \in T, x.key = k, x.seq <= s PROVE FALSE
    <3>1. x \in S /\ x.seq < e.seq
      BY <1>2, <1>3, <2>1, <2>2
    <3> QED BY <1>1, <2>1, <2>2, <3>1 DEF Survivors
  <2> QED BY <1>4, <2>2 DEF Seek
<1>5. CASE ~Obsolete(e, v, l, ss)
  <2>1. e \in T
    BY <1>5, ReadEntrySurvives
  <2>2. e \in Seek(T, k, s)
    <3>1. \A o \in T : o.key = k /\ o.seq <= s => o.seq <= e.seq
      BY <1>1, <1>2, <1>3 DEF EntryType
    <3> HIDE DEF T
    <3> QED BY <1>1, <2>1, <3>1 DEF Seek
  <2>3. ASSUME NEW x \in Seek(T, k, s) PROVE x = e
    <3>1. x \in S /\ x.key = k /\ x.seq <= s /\ e.seq <= x.seq
      <4> HIDE DEF T
      <4> QED BY <1>1, <1>2, <2>1 DEF Seek
    <3>2. x.seq \in Nat
      BY <3>1 DEF EntryType
    <3> QED BY <1>1, <1>3, <3>1, <3>2
  <2> QED BY <1>5, <2>2, <2>3
<1> QED BY <1>4, <1>5

(***************************************************************************)
(* That nothing is found then is right: below the output level no file has *)
(* an entry of the key, so the deletion had nothing left to hide.          *)
(***************************************************************************)
THEOREM ObsoleteHidesNothing ==
  ASSUME NEW v, NEW l \in Levels, NEW ss \in Nat, NEW e \in EntryType, Obsolete(e, v, l, ss),
         NEW m \in l + 2 .. kNumLevels - 1,
         \A f \in v[m] : f.entries \subseteq EntryType /\ InRange(f),
         NEW s \in Nat
  PROVE  GetIn(v, m, e.key, s) = {}
<1>1. ASSUME NEW f \in v[m] PROVE Seek(f.entries, e.key, s) = {}
  <2>1. ~Overlaps(f, e.key, e.key)
    BY <1>1 DEF Obsolete, IsBaseLevelForKey
  <2>2. \A x \in f.entries : x.key # e.key
    BY <2>1 DEF Overlaps, InRange
  <2> QED BY <2>2 DEF Seek
<1>2. FilesToRead(v[m], m, e.key, s) \subseteq v[m]
  BY DEF FilesToRead, FindFile
<1> QED BY <1>1, <1>2 DEF GetIn
=============================================================================
