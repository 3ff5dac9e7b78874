----------------------------- MODULE VersionSet -----------------------------
(***************************************************************************)
(* The sorted tables of the LSM tree as pure operators: how a version (a   *)
(* set of files for every level) is searched, which files a compaction     *)
(* takes, and which entries it drops.                                      *)
(*                                                                         *)
(* An entry is an internal key: user key, sequence number and type; its    *)
(* value is the sequence number.  A file is its number, its entries and    *)
(* its smallest and largest key.                                           *)
(* Byte sizes are left out: where the code compares them with a limit the  *)
(* model may take either branch, which the caller decides.                 *)
(***************************************************************************)
EXTENDS Integers, FiniteSets

CONSTANTS
  kNumLevels, kMaxMemCompactLevel,
  kMaxSequenceNumber  \* larger than all sequence numbers in use

ASSUME LevelsAssumption ==
  /\ kNumLevels \in Nat /\ kMaxMemCompactLevel \in Nat /\ kMaxMemCompactLevel < kNumLevels - 1
  /\ kMaxSequenceNumber \in Nat

Levels == 0 .. kNumLevels - 1

\* InternalKeyComparator: by user key, then by decreasing sequence number.
Before(a, b) == a.key < b.key \/ (a.key = b.key /\ a.seq > b.seq)

First(S) == CHOOSE e \in S : \A o \in S : o = e \/ Before(e, o)
Last(S)  == CHOOSE e \in S : \A o \in S : o = e \/ Before(o, e)

\* FileMetaData, with what is in the file.
Table(number, S) == [number |-> number, entries |-> S, smallest |-> First(S), largest |-> Last(S)]

\* The order of the files of a level: by smallest key, then by number.
BySmallestKey(f, g) ==
  \/ Before(f.smallest, g.smallest)
  \/ f.smallest = g.smallest /\ f.number < g.number

FirstFile(F) == CHOOSE f \in F : \A g \in F : g = f \/ BySmallestKey(f, g)
LastFile(F)  == CHOOSE f \in F : \A g \in F : g = f \/ BySmallestKey(g, f)

-----------------------------------------------------------------------------
(* Reading.  What is searched for is a set with at most one element. *)

\* Seek to (k, s) in a memtable or table, and compare the user key.
Seek(S, k, s) ==
  {e \in S : /\ e.key = k /\ e.seq <= s
             /\ \A o \in S : o.key = k /\ o.seq <= s => o.seq <= e.seq}

\* The first file whose largest key is not before the target.
FindFile(F, k, s) ==
  {f \in F : /\ ~Before(f.largest, [key |-> k, seq |-> s])
             /\ \A g \in F : \/ g = f \/ BySmallestKey(f, g)
                             \/ Before(g.largest, [key |-> k, seq |-> s])}

\* The newest file of level 0 that has the key; of other levels the one file
\* whose range may have it.
FilesToRead(F, l, k, s) ==
  IF l = 0
  THEN {f \in F : /\ Seek(f.entries, k, s) # {}
                  /\ \A g \in F : g.number > f.number => Seek(g.entries, k, s) = {}}
  ELSE FindFile(F, k, s)

GetIn(v, l, k, s) == UNION {Seek(f.entries, k, s) : f \in FilesToRead(v[l], l, k, s)}

\* The first level that has an entry for the key, a deletion included, decides.
VersionGet(v, k, s) ==
  UNION {GetIn(v, l, k, s) : l \in {l \in Levels : \A m \in 0 .. l - 1 : GetIn(v, m, k, s) = {}}}

-----------------------------------------------------------------------------
(* Overlaps *)

Overlaps(f, lo, hi) == f.smallest.key <= hi /\ lo <= f.largest.key

OverlapInLevel(v, l, lo, hi) ==
  IF l = 0 THEN \E f \in v[0] : Overlaps(f, lo, hi)
  ELSE \E f \in FindFile(v[l], lo, kMaxSequenceNumber) : f.smallest.key <= hi

\* What n rounds of a loop with the body "step" make of a.
Rounds(step, a, n) ==
  LET after[i \in Nat] == IF i = 0 THEN a ELSE step[after[i - 1]] IN after[n]

\* On level 0 a file taken in may widen the range, and the search restarts.
GetOverlappingInputs(v, l, lo, hi) ==
  LET in == {f \in v[l] : Overlaps(f, lo, hi)}
      widen == [F \in SUBSET v[l] |->
                  {f \in v[l] : \/ Overlaps(f, lo, hi)
                                \/ \E g \in F : Overlaps(f, g.smallest.key, g.largest.key)}]
  IN IF l = 0 THEN Rounds(widen, in, Cardinality(v[0])) ELSE in

PickLevelForMemTableOutputDeepest(v, lo, hi) == {kMaxMemCompactLevel}

\* The levels a memtable with keys lo .. hi may be pushed to; a file on the
\* grandparent level may or may not exceed the limit on overlapping bytes.
PickLevelForMemTableOutput(v, lo, hi) ==
  {l \in 0 .. kMaxMemCompactLevel :
     /\ l > 0 => \A m \in 0 .. l : ~OverlapInLevel(v, m, lo, hi)
     /\ \/ l = kMaxMemCompactLevel
        \/ OverlapInLevel(v, 0, lo, hi)
        \/ OverlapInLevel(v, l + 1, lo, hi)
        \/ l + 2 < kNumLevels /\ GetOverlappingInputs(v, l + 2, lo, hi) # {}}

-----------------------------------------------------------------------------
(* The inputs of a compaction *)

LowKey(F)  == First({f.smallest : f \in F}).key
HighKey(F) == Last({f.largest : f \in F}).key

\* Files that go on with the user key at which the chosen files end.
AddBoundaryInputs(level_files, in) ==
  LET boundary(p) == {f \in level_files : /\ Before(p.end, f.smallest)
                                          /\ f.smallest.key = p.end.key}
      add == [p \in [files : SUBSET level_files, end : {f.largest : f \in level_files}] |->
                IF boundary(p) = {} THEN p
                ELSE [files |-> p.files \cup {FirstFile(boundary(p))},
                      end   |-> FirstFile(boundary(p)).largest]]
      start == [files |-> in, end |-> Last({f.largest : f \in in})]
  IN IF in = {} THEN {} ELSE Rounds(add, start, Cardinality(level_files)).files

WithNextLevel(v, l, in0) == <<in0, GetOverlappingInputs(v, l + 1, LowKey(in0), HighKey(in0))>>

\* The files of levels l and l + 1 that are merged when "in" is to be compacted.
\* Level l is extended if that draws in no file of level l + 1 and, which may
\* or may not be so, the inputs stay below the limit on their bytes.
SetupOtherInputs(v, l, in) ==
  LET least == WithNextLevel(v, l, AddBoundaryInputs(v[l], in))
      all   == least[1] \cup least[2]
      more  == GetOverlappingInputs(v, l, LowKey(all), HighKey(all))
  IN {least} \cup
     {p \in {WithNextLevel(v, l, AddBoundaryInputs(v[l], more))} :
        /\ least[2] # {}
        /\ Cardinality(p[1]) > Cardinality(least[1])
        /\ Cardinality(p[2]) = Cardinality(least[2])}

Grandparents(v, l, F) ==
  IF l + 2 < kNumLevels THEN GetOverlappingInputs(v, l + 2, LowKey(F), HighKey(F)) ELSE {}

\* No level below the output level has the key.
IsBaseLevelForKey(v, l, k) ==
  \A m \in l + 2 .. kNumLevels - 1 : \A f \in v[m] : ~Overlaps(f, k, k)

Entries(F) == UNION {f.entries : f \in F}

SurvivorsNewest(S, v, l, smallest_snapshot) ==
  {e \in S :
     /\ ~\E o \in S : o.key = e.key /\ e.seq < o.seq
     /\ ~(e.type = "deletion" /\ e.seq <= smallest_snapshot /\ IsBaseLevelForKey(v, l, e.key))}

\* What remains of the entries S merged from level l: entries hidden by one
\* that all snapshots see are dropped (A), and so are deletions below which
\* there is nothing.
Survivors(S, v, l, smallest_snapshot) ==
  {e \in S :
     /\ ~\E o \in S : o.key = e.key /\ e.seq < o.seq /\ o.seq <= smallest_snapshot
     /\ ~(e.type = "deletion" /\ e.seq <= smallest_snapshot /\ IsBaseLevelForKey(v, l, e.key))}

\* VersionSet::Builder: the version after an edit.
Applied(v, l, removed0, removed1, to, added) ==
  [m \in Levels |-> ((v[m] \ (IF m = l THEN removed0 ELSE {}))
                           \ (IF m = l + 1 THEN removed1 ELSE {}))
                      \cup (IF m = to THEN added ELSE {})]
=============================================================================
