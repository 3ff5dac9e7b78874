---------------------------- MODULE ClientProofs ----------------------------
(***************************************************************************)
(* Proofs about the client, for any number of workers, commands, writes of *)
(* other clients, crashes and errors: requests go to the owner of the key, *)
(* replies answer the command being run, and a SCAN is complete.           *)
(***************************************************************************)
EXTENDS Client, FiniteSetTheorems, WellFoundedInduction, TLAPS

Vals      == Values \cup {NoValue}
Command   == [op : {"none", "PUT", "GET", "DELETE", "GC", "SCAN"}, n : Nat, lo : Nat, hi : Nat,
              val : Vals]
ReplyLine == [n : Nat, kind : {"LINE", "ERROR", "KVPAIR", "KVPAIR_ADDR", "END"}, key : Nat,
              val : Vals]

TypeInv ==
  /\ route_table \in Tables
  /\ slave_fds \in [Workers -> {"none", "up", "fin", "reset"}]
  /\ request \in [Workers -> Seq(Command)]
  /\ reply \in [Workers -> Seq(ReplyLine)]
  /\ pc \in {"prompt", "read", "scan", "scanread", "exit"}
  /\ cmd \in Command /\ response \in Seq(ReplyLine)
  /\ all_results \in Seq(Nat \X Vals) /\ cut \in BOOLEAN
  /\ stored \in [Chars -> Vals] /\ commands \in Nat

\* Requests are for keys of the worker they are sent to, and a SCAN goes from
\* the worker of its first key to that of its last.
RouteInv ==
  /\ \A w \in Workers : \A i \in DOMAIN request[w] :
       request[w][i].op \in {"PUT", "GET", "DELETE"} =>
         request[w][i].lo \in Chars /\ InRange(request[w][i].lo, WORKER_RANGES[w])
  /\ pc = "read" => cmd.op # "SCAN" /\ idx \in Workers
  /\ pc \in {"scan", "scanread"} =>
       /\ cmd.op = "SCAN" /\ idx \in Workers
       /\ find_worker_for_key(cmd.hi) \in Workers /\ idx <= find_worker_for_key(cmd.hi)

\* What is stored was seen by the SCAN, and has an owner.
DataInv ==
  /\ steady \subseteq Present(stored)
  /\ \A k \in Present(stored) :
       <<k, stored[k]>> \in seen /\ \E w \in Workers : InRange(k, WORKER_RANGES[w])

\* A key that contains ERROR was seen in the range of SCAN c.
ErrorSeen(c, se) == \E p \in se : p[1] \in ErrorKeys \cap (c.lo .. c.hi)

\* The keys of SCAN c that worker w has to report, of those in st.
Wanted(c, w, st) == {k \in st \cap (c.lo .. c.hi) : InRange(k, WORKER_RANGES[w])}

\* q is what has arrived of the reply of worker w to SCAN c; complete with END.
ScanLines(q, c, w, st, se) ==
  /\ \A i \in DOMAIN q : q[i].kind = "END" => i = Len(q)
  /\ \A i \in DOMAIN q : q[i].kind = "KVPAIR" =>
       InRange(q[i].key, WORKER_RANGES[w]) /\ <<q[i].key, q[i].val>> \in se
  /\ \A i, j \in DOMAIN q : i < j /\ q[i].kind = "KVPAIR" /\ q[j].kind = "KVPAIR" =>
       q[i].key < q[j].key
  /\ (\E i \in DOMAIN q : q[i].kind = "END") =>
       \A k \in Wanted(c, w, st) :
         (\E i \in DOMAIN q : q[i].kind = "KVPAIR" /\ q[i].key = k) \/ ErrorSeen(c, se)

Busy(w) == pc \in {"read", "scanread"} /\ idx = w

\* There is at most one request under way, that of the command being run, and
\* what arrives is the reply to it.
ExchangeInv ==
  /\ \A w \in Workers : slave_fds[w] # "up" => request[w] = <<>>
  /\ ~cut =>
       /\ \A w \in Workers : ~Busy(w) => request[w] = <<>> /\ reply[w] = <<>>
       /\ \A w \in Workers : request[w] # <<>> => request[w] = <<cmd>> /\ reply[w] = <<>>
       /\ \A w \in Workers : \A i \in DOMAIN reply[w] : reply[w][i].n = cmd.n
       /\ pc = "read" => Len(reply[idx]) <= 1
       /\ pc = "scan" => response = <<>>
       /\ pc = "scanread" =>
            /\ request[idx] # <<>> => response = <<>>
            /\ ScanLines(response \o reply[idx], cmd, idx, steady, seen)

\* all, collected for SCAN c from the workers before n, is in order and seen.
InOrder(all, n, se) ==
  /\ \A i, j \in DOMAIN all : i < j => all[i][1] < all[j][1]
  /\ \A i \in DOMAIN all : all[i] \in se
  /\ \A i \in DOMAIN all : \A w \in Workers : n <= w => all[i][1] < WORKER_RANGES[w][1]

\* ... and has all that these workers had to report.
HasAll(all, c, n, st, se) ==
  \A w \in Workers : w < n => \A k \in Wanted(c, w, st) :
    (\E i \in DOMAIN all : all[i][1] = k) \/ ErrorSeen(c, se)

CollectInv ==
  ~cut /\ pc \in {"scan", "scanread"} =>
    /\ InOrder(all_results, idx, seen)
    /\ printed # "partly" => HasAll(all_results, cmd, idx, steady, seen)

IInv == TypeInv /\ RouteInv /\ DataInv /\ ExchangeInv /\ CollectInv /\ ScanComplete

-----------------------------------------------------------------------------
(* Sets of numbers in order *)

(* A set of numbers that is not empty has a least element. *)
LEMMA LeastElement ==
  ASSUME NEW S \in SUBSET Nat, S # {}
  PROVE  \E m \in S : \A x \in S : m <= x
<1>1. PICK m \in S : \A x \in S : ~(<<x, m>> \in OpToRel(<, Nat))
  BY WFMin, NatLessThanWellFounded
<1>2. ASSUME NEW x \in S, x < m PROVE FALSE
  <2>1. <<x, m>> \in Nat \X Nat
    OBVIOUS
  <2>2. <<x, m>> \in OpToRel(<, Nat)
    BY <1>2, <2>1 DEF OpToRel
  <2> QED BY <1>1, <2>2
<1>3. \A x \in S : m <= x
  BY <1>2
<1> QED BY <1>3

(* Every finite set of numbers can be written down in order; a smallest    *)
(* set that could not would still have its least element to begin with.    *)
LEMMA CanBeOrdered ==
  ASSUME NEW S \in SUBSET Nat, IsFiniteSet(S)
  PROVE  \E q \in [1 .. Cardinality(S) -> S] :
           \A i, j \in 1 .. Cardinality(S) : i < j => q[i] < q[j]
<1> DEFINE Bad == {n \in Nat : \E U \in SUBSET Nat :
                     /\ IsFiniteSet(U) /\ Cardinality(U) = n
                     /\ ~\E q \in [1 .. n -> U] : \A i, j \in 1 .. n : i < j => q[i] < q[j]}
<1>1. ASSUME Bad # {} PROVE FALSE
  <2>1. PICK n \in Bad : \A x \in Bad : n <= x
    <3>1. Bad \in SUBSET Nat
      OBVIOUS
    <3> HIDE DEF Bad
    <3> QED BY <1>1, <3>1, LeastElement
  <2>2. PICK U \in SUBSET Nat :
          /\ n \in Nat /\ IsFiniteSet(U) /\ Cardinality(U) = n
          /\ ~\E q \in [1 .. n -> U] : \A i, j \in 1 .. n : i < j => q[i] < q[j]
    BY <2>1
  <2>3. CASE n = 0
    <3>1. U = {}
      BY <2>2, <2>3, FS_EmptySet
    <3>2. [i \in 1 .. n |-> 0] \in [1 .. n -> U] /\ 1 .. n = {}
      BY <2>3, <3>1
    <3> QED BY <2>2, <3>2
  <2>4. CASE n # 0
    <3>1. U # {}
      BY <2>2, <2>4, FS_EmptySet
    <3>2. PICK m \in U : \A x \in U : m <= x
      BY <3>1, LeastElement
    <3>3. IsFiniteSet(U \ {m}) /\ Cardinality(U \ {m}) = n - 1
      BY <2>2, FS_RemoveElement
    <3>4. n - 1 \in Nat /\ n - 1 \notin Bad
      BY <2>1, <2>2, <2>4
    <3>5. PICK q \in [1 .. n - 1 -> U \ {m}] : \A i, j \in 1 .. n - 1 : i < j => q[i] < q[j]
      BY <3>3, <3>4
    <3> DEFINE r == [i \in 1 .. n |-> IF i = 1 THEN m ELSE q[i - 1]]
    <3>6. \A i \in 1 .. n : i # 1 => i - 1 \in 1 .. n - 1
      BY <2>2
    <3>7. r \in [1 .. n -> U]
      BY <3>6
    <3>8. \A x \in U \ {m} : m < x
      BY <3>2
    <3>9. ASSUME NEW i \in 1 .. n, NEW j \in 1 .. n, i < j PROVE r[i] < r[j]
      <4>1. j # 1 /\ j - 1 \in 1 .. n - 1 /\ r[j] = q[j - 1]
        BY <3>6, <3>9
      <4>2. CASE i = 1
        BY <3>8, <4>1, <4>2
      <4>3. CASE i # 1
        <5>1. i - 1 \in 1 .. n - 1 /\ i - 1 < j - 1 /\ r[i] = q[i - 1]
          BY <3>6, <3>9, <4>3
        <5> QED BY <3>5, <4>1, <5>1
      <4> QED BY <4>2, <4>3
    <3> QED BY <2>2, <3>7, <3>9
  <2> QED BY <2>3, <2>4
<1>2. Cardinality(S) \in Nat
  BY FS_CardinalityType
<1> QED BY <1>1, <1>2

(* What Ascending returns. *)
LEMMA AscendingFacts ==
  ASSUME NEW S \in SUBSET Nat, IsFiniteSet(S)
  PROVE  /\ Cardinality(S) \in Nat
         /\ Ascending(S) \in [1 .. Cardinality(S) -> S]
         /\ \A i, j \in 1 .. Cardinality(S) : i < j => Ascending(S)[i] < Ascending(S)[j]
         /\ \A x \in S : \E i \in 1 .. Cardinality(S) : Ascending(S)[i] = x
<1>1. PICK n \in Nat : n = Cardinality(S)
  BY FS_CardinalityType
<1>2. PICK q \in [1 .. n -> S] : \A i, j \in 1 .. n : i < j => q[i] < q[j]
  BY <1>1, CanBeOrdered
<1>4. PICK a : a = Ascending(S)
  OBVIOUS
<1>5. a \in [1 .. n -> S] /\ \A i, j \in 1 .. n : i < j => a[i] < a[j]
  BY <1>1, <1>2, <1>4 DEF Ascending
<1>6. ASSUME NEW i \in 1 .. n, NEW j \in 1 .. n, i # j PROVE a[i] # a[j]
  <2>1. i < j \/ j < i
    BY <1>6
  <2>2. a[i] \in Nat /\ a[j] \in Nat
    BY <1>5
  <2> QED BY <1>5, <2>1, <2>2
<1>7. ASSUME NEW x \in S PROVE \E i \in 1 .. n : a[i] = x
  <2>1. a \in Injection(1 .. n, S)
    BY <1>5, <1>6 DEF Injection, IsInjective
  <2>2. Cardinality(1 .. n) = n
    BY FS_Interval
  <2>3. a \in Surjection(1 .. n, S)
    BY <1>1, <2>1, <2>2, FS_Injection
  <2> QED BY <2>3 DEF Surjection
<1> QED BY <1>1, <1>4, <1>5, <1>7

(* The pairs of a reply: its KVPAIR lines, in their order. *)
LEMMA PairsFacts ==
  ASSUME NEW q \in Seq(ReplyLine)
  PROVE  /\ Pairs(q) \in Seq(Nat \X Vals)
         /\ \A i \in DOMAIN Pairs(q) : \E a \in DOMAIN q :
              q[a].kind = "KVPAIR" /\ Pairs(q)[i] = <<q[a].key, q[a].val>>
         /\ \A i, j \in DOMAIN Pairs(q) : i < j => \E a, b \in DOMAIN q :
              /\ a < b /\ q[a].kind = "KVPAIR" /\ q[b].kind = "KVPAIR"
              /\ Pairs(q)[i] = <<q[a].key, q[a].val>> /\ Pairs(q)[j] = <<q[b].key, q[b].val>>
         /\ \A a \in DOMAIN q : q[a].kind = "KVPAIR" =>
              \E i \in DOMAIN Pairs(q) : Pairs(q)[i] = <<q[a].key, q[a].val>>
<1> DEFINE A  == {a \in DOMAIN q : q[a].kind = "KVPAIR"}
<1>1. DOMAIN q = 1 .. Len(q) /\ Len(q) \in Nat
  OBVIOUS
<1>2. A \in SUBSET Nat /\ IsFiniteSet(A)
  <2>1. IsFiniteSet(1 .. Len(q)) /\ A \in SUBSET (1 .. Len(q))
    BY <1>1, FS_Interval
  <2>2. IsFiniteSet(A)
    BY <2>1, FS_Subset
  <2> QED BY <2>1, <2>2
<1>3. PICK n \in Nat : n = Cardinality(A)
  BY <1>2, FS_CardinalityType
<1>4. PICK kv : kv = Ascending(A)
  OBVIOUS
<1>5. /\ kv \in [1 .. n -> A] /\ \A i, j \in 1 .. n : i < j => kv[i] < kv[j]
      /\ \A x \in A : \E i \in 1 .. n : kv[i] = x
  <2> HIDE DEF A
  <2> QED BY <1>2, <1>3, <1>4, AscendingFacts
<1>6. Pairs(q) = [i \in 1 .. n |-> <<q[kv[i]].key, q[kv[i]].val>>]
  BY <1>4, <1>5 DEF Pairs
<1>7. \A a \in DOMAIN q : q[a].key \in Nat /\ q[a].val \in Vals
  <2>1. \A a \in DOMAIN q : q[a] \in ReplyLine
    OBVIOUS
  <2> QED BY <2>1 DEF ReplyLine
<1>8. Pairs(q) \in Seq(Nat \X Vals) /\ DOMAIN Pairs(q) = 1 .. n
  <2>1. \A i \in 1 .. n : <<q[kv[i]].key, q[kv[i]].val>> \in Nat \X Vals
    BY <1>5, <1>7
  <2> QED BY <1>6, <2>1
<1>9. ASSUME NEW i \in 1 .. n
      PROVE  /\ kv[i] \in DOMAIN q /\ q[kv[i]].kind = "KVPAIR"
             /\ Pairs(q)[i] = <<q[kv[i]].key, q[kv[i]].val>>
  BY <1>5, <1>6
<1>10. ASSUME NEW a \in DOMAIN q, q[a].kind = "KVPAIR"
       PROVE  \E i \in 1 .. n : Pairs(q)[i] = <<q[a].key, q[a].val>>
  <2>1. PICK i \in 1 .. n : kv[i] = a
    BY <1>5, <1>10
  <2> QED BY <1>9, <2>1
<1>11. ASSUME NEW i \in 1 .. n, NEW j \in 1 .. n, i < j
       PROVE  \E a, b \in DOMAIN q :
                /\ a < b /\ q[a].kind = "KVPAIR" /\ q[b].kind = "KVPAIR"
                /\ Pairs(q)[i] = <<q[a].key, q[a].val>> /\ Pairs(q)[j] = <<q[b].key, q[b].val>>
  <2>1. kv[i] < kv[j]
    BY <1>5, <1>11
  <2> QED BY <1>9, <2>1
<1> HIDE DEF A
<1>12. \A i \in DOMAIN Pairs(q) : \E a \in DOMAIN q :
         q[a].kind = "KVPAIR" /\ Pairs(q)[i] = <<q[a].key, q[a].val>>
  BY <1>8, <1>9
<1>13. \A i, j \in DOMAIN Pairs(q) : i < j => \E a, b \in DOMAIN q :
         /\ a < b /\ q[a].kind = "KVPAIR" /\ q[b].kind = "KVPAIR"
         /\ Pairs(q)[i] = <<q[a].key, q[a].val>> /\ Pairs(q)[j] = <<q[b].key, q[b].val>>
  <2> SUFFICES ASSUME NEW i \in DOMAIN Pairs(q), NEW j \in DOMAIN Pairs(q), i < j
               PROVE  \E a, b \in DOMAIN q :
                        /\ a < b /\ q[a].kind = "KVPAIR" /\ q[b].kind = "KVPAIR"
                        /\ Pairs(q)[i] = <<q[a].key, q[a].val>>
                        /\ Pairs(q)[j] = <<q[b].key, q[b].val>>
    OBVIOUS
  <2>1. i \in 1 .. n /\ j \in 1 .. n
    BY <1>8
  <2> QED BY <1>11, <2>1
<1>14.
 \A a \in DOMAIN q : q[a].kind = "KVPAIR" =>
         \E i \in DOMAIN Pairs(q) : Pairs(q)[i] = <<q[a].key, q[a].val>>
  BY <1>8, <1>10
<1> QED BY <1>8, <1>12, <1>13, <1>14


-----------------------------------------------------------------------------
(* Routing *)

(* A route table, complete or not, has its entries in the order of the     *)
(* workers, and no entry covers more than the worker's range.              *)
LEMMA TableFacts ==
  ASSUME NEW t \in Tables
  PROVE  /\ Len(t) \in 0 .. WORKER_COUNT /\ DOMAIN t = 1 .. Len(t)
         /\ \A i \in 1 .. Len(t) :
              /\ i - 1 \in Workers /\ t[i].index = i - 1
              /\ t[i].first = WORKER_RANGES[i - 1][1]
              /\ t[i].last \in Nat /\ t[i].last <= WORKER_RANGES[i - 1][2]
<1>1. /\ WORKER_COUNT \in Nat /\ \A i \in 1 .. WORKER_COUNT : i - 1 \in Workers
      /\ \A w \in Workers : WORKER_RANGES[w][1] \in Nat /\ WORKER_RANGES[w][2] \in Nat
  BY ClientAssumption DEF Workers
<1> DEFINE E == [index : Workers, first : Nat, last : Nat]
<1>2. /\ FullTable \in [1 .. WORKER_COUNT -> E]
      /\ \A i \in 1 .. WORKER_COUNT :
           /\ FullTable[i].index = i - 1 /\ FullTable[i].first = WORKER_RANGES[i - 1][1]
           /\ FullTable[i].last = WORKER_RANGES[i - 1][2]
  BY <1>1 DEF FullTable
<1>3. FullTable \in Seq(E) /\ Len(FullTable) = WORKER_COUNT
  <2> HIDE DEF E
  <2> QED BY <1>1, <1>2
<1>4. CASE t = FullTable
  BY <1>1, <1>2, <1>3, <1>4
<1>5. CASE t = <<>>
  BY <1>1, <1>5
<1>6. ASSUME NEW n \in 1 .. WORKER_COUNT, NEW l \in 0 .. FullTable[n].last,
             t = [SubSeq(FullTable, 1, n) EXCEPT ![n].last = l]
      PROVE  /\ Len(t) \in 0 .. WORKER_COUNT /\ DOMAIN t = 1 .. Len(t)
             /\ \A i \in 1 .. Len(t) :
                  /\ i - 1 \in Workers /\ t[i].index = i - 1
                  /\ t[i].first = WORKER_RANGES[i - 1][1]
                  /\ t[i].last \in Nat /\ t[i].last <= WORKER_RANGES[i - 1][2]
  <2>1. PICK u : u = SubSeq(FullTable, 1, n)
    OBVIOUS
  <2>2. u \in Seq(E) /\ Len(u) = n /\ \A i \in 1 .. n : u[i] = FullTable[i]
    <3> HIDE DEF E
    <3> QED BY <1>1, <1>3, <2>1
  <2>3. l \in Nat /\ l <= FullTable[n].last /\ FullTable[n].last \in Nat
    BY <1>2
  <2>4. PICK e : e = [u[n] EXCEPT !.last = l]
    OBVIOUS
  <2>5. u[n] \in E /\ u \in [1 .. n -> E]
    <3> HIDE DEF E
    <3> QED BY <2>2
  <2>6. e \in E /\ e.index = u[n].index /\ e.first = u[n].first /\ e.last = l
    BY <2>3, <2>4, <2>5
  <2>7. t = [u EXCEPT ![n] = e]
    BY <1>6, <2>1, <2>4
  <2>8. t \in [1 .. n -> E] /\ \A i \in 1 .. n : t[i] = IF i = n THEN e ELSE u[i]
    <3> HIDE DEF E
    <3> QED BY <2>5, <2>6, <2>7
  <2>9. Len(t) = n /\ DOMAIN t = 1 .. n
    BY <2>8
  <2>10. ASSUME NEW i \in 1 .. n
         PROVE  /\ i - 1 \in Workers /\ t[i].index = i - 1
                /\ t[i].first = WORKER_RANGES[i - 1][1]
                /\ t[i].last \in Nat /\ t[i].last <= WORKER_RANGES[i - 1][2]
    <3>1. i \in 1 .. WORKER_COUNT
      BY <1>1
    <3>2. /\ u[i].index = i - 1 /\ u[i].first = WORKER_RANGES[i - 1][1]
          /\ u[i].last = WORKER_RANGES[i - 1][2] /\ i - 1 \in Workers
      BY <1>1, <1>2, <2>2, <3>1
    <3>3. WORKER_RANGES[i - 1][2] \in Nat
      BY <1>1, <3>2
    <3>4. CASE i = n
      BY <1>2, <2>3, <2>6, <2>8, <3>1, <3>2, <3>4
    <3>5. CASE i # n
      BY <2>8, <3>2, <3>3, <3>5
    <3> QED BY <3>4, <3>5
  <2> QED BY <1>1, <2>9, <2>10
<1> HIDE DEF E
<1> QED BY <1>4, <1>5, <1>6 DEF Tables

(* A key is routed to the worker whose range it is in, if to any. *)
LEMMA FindFacts ==
  ASSUME route_table \in Tables, NEW key \in Nat
  PROVE  \/ find_worker_for_key(key) = -1
         \/ /\ find_worker_for_key(key) \in Workers
            /\ find_worker_for_key(key) < Len(route_table)
            /\ InRange(key, WORKER_RANGES[find_worker_for_key(key)])
<1> DEFINE In(i) == InRange(key, <<route_table[i].first, route_table[i].last>>)
           T == {i \in DOMAIN route_table : In(i)}
<1>1. CASE T = {}
  BY <1>1 DEF find_worker_for_key
<1>2. CASE T # {}
  <2>1. DOMAIN route_table = 1 .. Len(route_table) /\ Len(route_table) \in Nat
    BY TableFacts, ClientAssumption
  <2>2. PICK m \in T : \A x \in T : m <= x
    <3>1. T \in SUBSET Nat
      BY <2>1
    <3> HIDE DEF T
    <3> QED BY <1>2, <3>1, LeastElement
  <2>3. ASSUME NEW j \in 1 .. m - 1, In(j) PROVE FALSE
    <3> HIDE DEF In
    <3>1. j \in T /\ j < m
      BY <2>1, <2>2, <2>3
    <3> QED BY <2>1, <2>2, <3>1
  <2>4. PICK i \in DOMAIN route_table : In(i) /\ find_worker_for_key(key) = route_table[i].index
    <3> HIDE DEF In
    <3>1. \E i \in DOMAIN route_table : In(i)
      BY <2>2
    <3>2. PICK c : c = CHOOSE i \in DOMAIN route_table : In(i) /\ \A j \in 1 .. i - 1 : ~In(j)
      OBVIOUS
    <3>3. c \in DOMAIN route_table /\ In(c)
      BY <2>2, <2>3, <3>2
    <3>4. find_worker_for_key(key) = route_table[c].index
      BY <3>1, <3>2 DEF find_worker_for_key, In
    <3> QED BY <3>3, <3>4
  <2>5. /\ i \in 1 .. Len(route_table) /\ i - 1 \in Workers /\ route_table[i].index = i - 1
        /\ route_table[i].first = WORKER_RANGES[i - 1][1]
        /\ route_table[i].last \in Nat /\ route_table[i].last <= WORKER_RANGES[i - 1][2]
    BY <2>1, TableFacts
  <2>6. WORKER_RANGES[i - 1][1] \in Nat /\ WORKER_RANGES[i - 1][2] \in Nat
    BY <2>5, ClientAssumption
  <2>7. InRange(key, WORKER_RANGES[i - 1])
    BY <2>4, <2>5, <2>6 DEF InRange
  <2> QED BY <2>1, <2>4, <2>5, <2>7
<1> QED BY <1>1, <1>2

(* The range of a key is that of one worker, and ranges are in order. *)
LEMMA RangesOrdered ==
  ASSUME NEW a \in Nat, NEW b \in Nat, NEW v \in Workers, NEW w \in Workers, a <= b,
         InRange(a, WORKER_RANGES[v]), InRange(b, WORKER_RANGES[w])
  PROVE  v <= w
<1>1. v \in Int /\ w \in Int
  BY ClientAssumption DEF Workers
<1>2. ASSUME w < v PROVE FALSE
  <2>1. /\ WORKER_RANGES[v][1] \in Nat /\ WORKER_RANGES[w][2] \in Nat
        /\ WORKER_RANGES[w][2] < WORKER_RANGES[v][1]
    BY <1>2, ClientAssumption
  <2> QED BY <2>1 DEF InRange
<1> QED BY <1>1, <1>2

-----------------------------------------------------------------------------
(* Replies to a SCAN *)

(* Nothing has arrived yet. *)
LEMMA NoLines ==
  ASSUME NEW c, NEW w, NEW st, NEW se
  PROVE  ScanLines(<<>>, c, w, st, se)
BY DEF ScanLines

(* A reply that breaks off is one that is not complete. *)
LEMMA LinesCutOff ==
  ASSUME NEW q \in Seq(ReplyLine), NEW r \in Seq(ReplyLine), NEW c, NEW w, NEW st, NEW se,
         Len(r) <= Len(q), \A i \in 1 .. Len(r) : r[i] = q[i], ScanLines(q, c, w, st, se)
  PROVE  ScanLines(r, c, w, st, se)
<1>1. /\ DOMAIN q = 1 .. Len(q) /\ DOMAIN r = 1 .. Len(r) /\ Len(q) \in Nat /\ Len(r) \in Nat
      /\ \A i \in DOMAIN r : i \in DOMAIN q
  OBVIOUS
<1>2. ASSUME NEW i \in DOMAIN r, r[i].kind = "END" PROVE i = Len(r) /\ Len(r) = Len(q)
  <2>1. q[i].kind = "END" /\ i \in DOMAIN q
    BY <1>1, <1>2
  <2>2. i = Len(q)
    BY <2>1 DEF ScanLines
  <2>3. PICK a \in Nat, b \in Nat : a = Len(q) /\ b = Len(r)
    BY <1>1
  <2>4. i \in Nat /\ i <= b /\ i = a /\ b <= a
    BY <1>1, <2>2, <2>3
  <2>5. i = b /\ b = a
    BY <2>4
  <2> QED BY <2>3, <2>5
<1>3. ASSUME NEW e \in DOMAIN r, r[e].kind = "END", NEW k \in Wanted(c, w, st), ~ErrorSeen(c, se)
      PROVE  \E i \in DOMAIN r : r[i].kind = "KVPAIR" /\ r[i].key = k
  <2>1. e \in DOMAIN q /\ q[e].kind = "END" /\ DOMAIN q = DOMAIN r
    BY <1>1, <1>2, <1>3
  <2>2. PICK i \in DOMAIN q : q[i].kind = "KVPAIR" /\ q[i].key = k
    BY <1>3, <2>1 DEF ScanLines
  <2> QED BY <1>1, <2>1, <2>2
<1>4. \A i \in DOMAIN r : r[i].kind = "KVPAIR" =>
        InRange(r[i].key, WORKER_RANGES[w]) /\ <<r[i].key, r[i].val>> \in se
  BY <1>1 DEF ScanLines
<1>5. \A i, j \in DOMAIN r : i < j /\ r[i].kind = "KVPAIR" /\ r[j].kind = "KVPAIR" =>
        r[i].key < r[j].key
  BY <1>1 DEF ScanLines
<1> QED BY <1>2, <1>3, <1>4, <1>5 DEF ScanLines

(* Later writes leave fewer steady keys and more that was seen. *)
LEMMA LinesLater ==
  ASSUME NEW q, NEW c, NEW w, NEW st, NEW se, NEW st2 \in SUBSET st, NEW se2, se \subseteq se2
  PROVE  /\ ScanLines(q, c, w, st, se) => ScanLines(q, c, w, st2, se2)
         /\ ErrorSeen(c, se) => ErrorSeen(c, se2)
         /\ Wanted(c, w, st2) \subseteq Wanted(c, w, st)
<1>1. Wanted(c, w, st2) \subseteq Wanted(c, w, st) /\ (ErrorSeen(c, se) => ErrorSeen(c, se2))
  BY DEF Wanted, ErrorSeen
<1>2. ASSUME ScanLines(q, c, w, st, se) PROVE ScanLines(q, c, w, st2, se2)
  <2>1. \A i \in DOMAIN q : q[i].kind = "KVPAIR" =>
          InRange(q[i].key, WORKER_RANGES[w]) /\ <<q[i].key, q[i].val>> \in se2
    BY <1>2 DEF ScanLines
  <2>2. (\E i \in DOMAIN q : q[i].kind = "END") =>
          \A k \in Wanted(c, w, st2) :
            (\E i \in DOMAIN q : q[i].kind = "KVPAIR" /\ q[i].key = k) \/ ErrorSeen(c, se2)
    BY <1>1, <1>2 DEF ScanLines
  <2> QED BY <1>2, <2>1, <2>2 DEF ScanLines
<1> QED BY <1>1, <1>2

(* The reply of a slave to a SCAN: the pairs stored in its range that it   *)
(* can read, in order of their keys, and END.                              *)
LEMMA ReplyLines ==
  ASSUME TypeInv, DataInv, NEW w \in Workers, NEW c \in Command, NEW unread
  PROVE  /\ ScanReply(c, w, unread) \in Seq(ReplyLine)
         /\ \A i \in DOMAIN ScanReply(c, w, unread) : ScanReply(c, w, unread)[i].n = c.n
         /\ ScanLines(ScanReply(c, w, unread), c, w, steady \ unread, seen)
<1> DEFINE K == Found(c, w) \ unread
<1>1. K \in SUBSET Chars /\ Chars \in SUBSET Nat /\ IsFiniteSet(K)
  <2>1. K \in SUBSET Chars
    BY DEF Found, Present
  <2> QED BY <2>1, ClientAssumption, FS_Subset
<1>2. PICK m \in Nat : m = Cardinality(K)
  BY <1>1, FS_CardinalityType
<1>3. PICK keys : keys = Ascending(K)
  OBVIOUS
<1>4. /\ keys \in [1 .. m -> K] /\ \A i, j \in 1 .. m : i < j => keys[i] < keys[j]
      /\ \A x \in K : \E i \in 1 .. m : keys[i] = x
  <2>1. K \in SUBSET Nat
    BY <1>1
  <2> HIDE DEF K
  <2> QED BY <1>1, <1>2, <1>3, <2>1, AscendingFacts
<1>5. PICK kind \in {"KVPAIR", "KVPAIR_ADDR"} :
        kind = IF Found(c, w) \cap ErrorKeys # {} THEN "KVPAIR_ADDR" ELSE "KVPAIR"
  OBVIOUS
<1>6. PICK body : body = [i \in 1 .. m |-> Line(c, kind, keys[i], stored[keys[i]])]
  OBVIOUS
<1>7. PICK end : end = Line(c, "END", 0, NoValue)
  OBVIOUS
<1>8. ScanReply(c, w, unread) = Append(body, end)
  BY <1>3, <1>4, <1>5, <1>6, <1>7 DEF ScanReply
<1>9. \A i \in 1 .. m : keys[i] \in K /\ keys[i] \in Chars /\ keys[i] \in Nat /\ stored[keys[i]] \in Vals
  BY <1>1, <1>4 DEF TypeInv
<1>10. c.n \in Nat /\ NoValue \in Vals /\ c.lo \in Nat /\ c.hi \in Nat
  BY DEF Command, Vals
<1>11. /\ \A i \in 1 .. m : /\ body[i] \in ReplyLine /\ body[i].n = c.n /\ body[i].kind = kind
                            /\ body[i].key = keys[i] /\ body[i].val = stored[keys[i]]
       /\ end \in ReplyLine /\ end.n = c.n /\ end.kind = "END"
  <2>1. ASSUME NEW i \in 1 .. m
        PROVE  /\ body[i] \in ReplyLine /\ body[i].n = c.n /\ body[i].kind = kind
               /\ body[i].key = keys[i] /\ body[i].val = stored[keys[i]]
    BY <1>6, <1>9, <1>10 DEF Line, ReplyLine
  <2>2. end \in ReplyLine /\ end.n = c.n /\ end.kind = "END"
    BY <1>7, <1>10 DEF Line, ReplyLine
  <2> QED BY <2>1, <2>2
<1>12. body \in Seq(ReplyLine) /\ Len(body) = m
  BY <1>6, <1>11
<1>13. PICK q \in Seq(ReplyLine) : q = ScanReply(c, w, unread)
  BY <1>8, <1>11, <1>12
<1>14. /\ Len(q) = m + 1 /\ DOMAIN q = 1 .. m + 1 /\ q[m + 1] = end
       /\ \A i \in 1 .. m : q[i] = body[i]
  BY <1>8, <1>12, <1>13
<1>15. \A i \in DOMAIN q : q[i].kind = "KVPAIR" => i \in 1 .. m /\ kind = "KVPAIR"
  BY <1>11, <1>14
<1>16. \A i \in DOMAIN q : q[i].n = c.n
  BY <1>11, <1>14
<1>17. \A i \in DOMAIN q : q[i].kind = "END" => i = Len(q)
  BY <1>5, <1>11, <1>14
<1>18. \A i \in DOMAIN q : q[i].kind = "KVPAIR" =>
         InRange(q[i].key, WORKER_RANGES[w]) /\ <<q[i].key, q[i].val>> \in seen
  <2>1. \A k \in K : InRange(k, WORKER_RANGES[w]) /\ <<k, stored[k]>> \in seen
    BY DEF DataInv, Found
  <2> HIDE DEF K
  <2> QED BY <1>9, <1>11, <1>14, <1>15, <2>1
<1>19. \A i, j \in DOMAIN q : i < j /\ q[i].kind = "KVPAIR" /\ q[j].kind = "KVPAIR" =>
         q[i].key < q[j].key
  BY <1>4, <1>11, <1>14, <1>15
<1>20. ASSUME NEW k \in Wanted(c, w, steady \ unread), ~ErrorSeen(c, seen)
       PROVE  \E i \in DOMAIN q : q[i].kind = "KVPAIR" /\ q[i].key = k
  <2>1. k \in K
    BY <1>10 DEF Wanted, DataInv, Present, Found
  <2>2. PICK i \in 1 .. m : keys[i] = k
    BY <1>4, <2>1
  <2>3. \A x \in Found(c, w) : x \notin ErrorKeys
    <3> SUFFICES ASSUME NEW x \in Found(c, w), x \in ErrorKeys PROVE FALSE
      OBVIOUS
    <3>0. x \in Nat /\ x \in Present(stored) /\ c.lo <= x /\ x <= c.hi
      BY ClientAssumption DEF Found, Present
    <3>1. <<x, stored[x]>> \in seen /\ x \in c.lo .. c.hi
      BY <1>10, <3>0 DEF DataInv
    <3> QED BY <1>20, <3>1 DEF ErrorSeen
  <2>4. kind = "KVPAIR"
    BY <1>5, <2>3
  <2>5. i \in DOMAIN q /\ q[i].kind = "KVPAIR" /\ q[i].key = k
    BY <1>11, <1>14, <2>2, <2>4
  <2> QED BY <2>5
<1>21. ScanLines(q, c, w, steady \ unread, seen)
  BY <1>17, <1>18, <1>19, <1>20 DEF ScanLines
<1> QED BY <1>13, <1>16, <1>21

(* Writes during the SCAN do not change what it has collected. *)
LEMMA CollectedLater ==
  ASSUME NEW all, NEW c, NEW n, NEW st, NEW se, NEW st2 \in SUBSET st, NEW se2, se \subseteq se2
  PROVE  /\ InOrder(all, n, se) => InOrder(all, n, se2)
         /\ HasAll(all, c, n, st, se) => HasAll(all, c, n, st2, se2)
<1>1. ErrorSeen(c, se) => ErrorSeen(c, se2)
  BY LinesLater
<1>2. \A w \in Workers : Wanted(c, w, st2) \subseteq Wanted(c, w, st)
  BY LinesLater
<1>3. ASSUME InOrder(all, n, se) PROVE InOrder(all, n, se2)
  <2>1. \A i \in DOMAIN all : all[i] \in se2
    BY <1>3 DEF InOrder
  <2> QED BY <1>3, <2>1 DEF InOrder
<1>4. ASSUME HasAll(all, c, n, st, se) PROVE HasAll(all, c, n, st2, se2)
  BY <1>1, <1>2, <1>4 DEF HasAll
<1> QED BY <1>3, <1>4

(* A SCAN begins with nothing, and nothing is wanted from the workers      *)
(* before that of its first key.                                           *)
LEMMA NothingCollected ==
  ASSUME NEW c \in Command, NEW n \in Workers, InRange(c.lo, WORKER_RANGES[n]),
         NEW st \in SUBSET Nat, NEW se
  PROVE  InOrder(<<>>, n, se) /\ HasAll(<<>>, c, n, st, se)
<1>1. InOrder(<<>>, n, se)
  BY DEF InOrder
<1>2. ASSUME NEW w \in Workers, w < n, NEW k \in Wanted(c, w, st) PROVE FALSE
  <2>1. k \in Nat /\ c.lo \in Nat /\ c.lo <= k /\ InRange(k, WORKER_RANGES[w])
    BY DEF Wanted, Command
  <2>2. n <= w
    BY <2>1, RangesOrdered
  <2>3. n \in Int /\ w \in Int
    BY ClientAssumption DEF Workers
  <2> QED BY <1>2, <2>2, <2>3
<1> QED BY <1>1, <1>2 DEF HasAll

(* One sequence after another. *)
LEMMA Concatenated ==
  ASSUME NEW S, NEW a \in Seq(S), NEW b \in Seq(S)
  PROVE  LET r == a \o b
         IN  /\ r \in Seq(S) /\ Len(r) = Len(a) + Len(b)
             /\ DOMAIN a = 1 .. Len(a) /\ DOMAIN b = 1 .. Len(b) /\ DOMAIN r = 1 .. Len(r)
             /\ Len(a) \in Nat /\ Len(b) \in Nat
             /\ \A i \in DOMAIN a : i \in DOMAIN r /\ r[i] = a[i]
             /\ \A i \in DOMAIN b : i + Len(a) \in DOMAIN r /\ r[i + Len(a)] = b[i]
             /\ \A i \in DOMAIN r : i \notin DOMAIN a =>
                  i - Len(a) \in DOMAIN b /\ r[i] = b[i - Len(a)]
OBVIOUS

(* The reply of worker n is added to what the workers before it reported. *)
LEMMA Collected ==
  ASSUME NEW all \in Seq(Nat \X Vals), NEW q \in Seq(ReplyLine), NEW c, NEW n \in Workers,
         NEW st, NEW se, InOrder(all, n, se), ScanLines(q, c, n, st, se)
  PROVE  /\ all \o Pairs(q) \in Seq(Nat \X Vals)
         /\ InOrder(all \o Pairs(q), n + 1, se)
         /\ HasAll(all, c, n, st, se) /\ (\E i \in DOMAIN q : q[i].kind = "END") =>
              HasAll(all \o Pairs(q), c, n + 1, st, se)
<1> DEFINE V == Nat \X Vals
<1>1. PICK p \in Seq(V) : p = Pairs(q)
  BY PairsFacts
<1>2. PICK r \in Seq(V) : r = all \o p
  BY <1>1, Concatenated
<1>3. /\ DOMAIN all = 1 .. Len(all) /\ DOMAIN p = 1 .. Len(p) /\ DOMAIN r = 1 .. Len(r)
      /\ Len(all) \in Nat /\ Len(p) \in Nat /\ Len(r) = Len(all) + Len(p)
      /\ \A i \in DOMAIN all : i \in DOMAIN r /\ r[i] = all[i]
      /\ \A i \in DOMAIN p : i + Len(all) \in DOMAIN r /\ r[i + Len(all)] = p[i]
      /\ \A i \in DOMAIN r : i \notin DOMAIN all => i - Len(all) \in DOMAIN p /\ r[i] = p[i - Len(all)]
  BY <1>1, <1>2, Concatenated
<1>4. \A i \in DOMAIN r : r[i][1] \in Nat
  BY <1>2
<1>5. \A w \in Workers : WORKER_RANGES[w][1] \in Nat /\ WORKER_RANGES[w][2] \in Nat /\ w \in Int
  BY ClientAssumption DEF Workers
<1>6. ASSUME NEW i \in DOMAIN p
      PROVE  /\ p[i] \in se /\ p[i][1] \in Nat /\ WORKER_RANGES[n][1] <= p[i][1]
             /\ p[i][1] <= WORKER_RANGES[n][2]
  <2>1. PICK a \in DOMAIN q : q[a].kind = "KVPAIR" /\ p[i] = <<q[a].key, q[a].val>>
    BY <1>1, PairsFacts
  <2>2. InRange(q[a].key, WORKER_RANGES[n]) /\ <<q[a].key, q[a].val>> \in se
    BY <2>1 DEF ScanLines
  <2> QED BY <2>1, <2>2 DEF InRange
<1>7. ASSUME NEW i \in DOMAIN p, NEW j \in DOMAIN p, i < j PROVE p[i][1] < p[j][1]
  <2>1. PICK a, b \in DOMAIN q :
          /\ a < b /\ q[a].kind = "KVPAIR" /\ q[b].kind = "KVPAIR"
          /\ p[i] = <<q[a].key, q[a].val>> /\ p[j] = <<q[b].key, q[b].val>>
    BY <1>1, <1>7, PairsFacts
  <2>2. q[a].key < q[b].key
    BY <2>1 DEF ScanLines
  <2> QED BY <2>1, <2>2
<1>8. ASSUME NEW i \in DOMAIN r, NEW j \in DOMAIN r, i < j PROVE r[i][1] < r[j][1]
  <2>1. CASE j \in DOMAIN all
    <3>1. i \in DOMAIN all
      BY <1>3, <1>8, <2>1
    <3> QED BY <1>3, <1>8, <2>1, <3>1 DEF InOrder
  <2>2. CASE i \in DOMAIN all /\ j \notin DOMAIN all
    <3>0. n <= n
      BY <1>5
    <3>1. r[i][1] < WORKER_RANGES[n][1]
      BY <1>3, <2>2, <3>0 DEF InOrder
    <3>2. WORKER_RANGES[n][1] <= r[j][1]
      BY <1>3, <1>6, <2>2
    <3> QED BY <1>4, <1>5, <3>1, <3>2
  <2>3. CASE i \notin DOMAIN all /\ j \notin DOMAIN all
    <3>1. /\ i - Len(all) \in DOMAIN p /\ j - Len(all) \in DOMAIN p /\ i - Len(all) < j - Len(all)
          /\ r[i] = p[i - Len(all)] /\ r[j] = p[j - Len(all)]
      BY <1>3, <1>8, <2>3
    <3> QED BY <1>7, <3>1
  <2> QED BY <2>1, <2>2, <2>3
<1>9. ASSUME NEW i \in DOMAIN r, NEW w \in Workers, n + 1 <= w
      PROVE  r[i] \in se /\ r[i][1] < WORKER_RANGES[w][1]
  <2>1. n < w /\ n <= w
    BY <1>5, <1>9
  <2>2. CASE i \in DOMAIN all
    BY <1>3, <2>1, <2>2 DEF InOrder
  <2>3. CASE i \notin DOMAIN all
    <3>1. r[i] \in se /\ r[i][1] <= WORKER_RANGES[n][2]
      BY <1>3, <1>6, <2>3
    <3>2. WORKER_RANGES[n][2] < WORKER_RANGES[w][1]
      BY <2>1, ClientAssumption
    <3> QED BY <1>4, <1>5, <3>1, <3>2
  <2> QED BY <2>2, <2>3
<1>10. \A i \in DOMAIN r : r[i] \in se
  BY <1>3, <1>6 DEF InOrder
<1>11. InOrder(r, n + 1, se)
  BY <1>8, <1>9, <1>10 DEF InOrder
<1>12. ASSUME HasAll(all, c, n, st, se), NEW e \in DOMAIN q, q[e].kind = "END",
              NEW w \in Workers, w < n + 1, NEW k \in Wanted(c, w, st), ~ErrorSeen(c, se)
       PROVE  \E i \in DOMAIN r : r[i][1] = k
  <2>1. CASE w < n
    <3>1. PICK i \in DOMAIN all : all[i][1] = k
      BY <1>12, <2>1 DEF HasAll
    <3> QED BY <1>3, <3>1
  <2>2. CASE w = n
    <3>1. PICK a \in DOMAIN q : q[a].kind = "KVPAIR" /\ q[a].key = k
      BY <1>12, <2>2 DEF ScanLines
    <3>2. PICK i \in DOMAIN p : p[i] = <<q[a].key, q[a].val>>
      BY <1>1, <3>1, PairsFacts
    <3> QED BY <1>3, <3>1, <3>2
  <2> QED BY <1>5, <1>12, <2>1, <2>2
<1>13. HasAll(all, c, n, st, se) /\ (\E i \in DOMAIN q : q[i].kind = "END") =>
         HasAll(r, c, n + 1, st, se)
  BY <1>12 DEF HasAll
<1> HIDE DEF V
<1> QED BY <1>1, <1>2, <1>11, <1>13 DEF V

(* When the worker of the last key has reported, the SCAN has everything:  *)
(* a key in its range belongs to no later worker.                          *)
LEMMA AllReported ==
  ASSUME NEW all, NEW c \in Command, NEW n \in Workers, InRange(c.hi, WORKER_RANGES[n]),
         NEW st \in SUBSET Nat, NEW se,
         \A k \in st : \E w \in Workers : InRange(k, WORKER_RANGES[w]),
         HasAll(all, c, n + 1, st, se),
         NEW k \in st \cap (c.lo .. c.hi)
  PROVE  (\E i \in DOMAIN all : all[i][1] = k) \/ ErrorSeen(c, se)
<1>1. PICK w \in Workers : InRange(k, WORKER_RANGES[w])
  OBVIOUS
<1>2. k \in Nat /\ c.hi \in Nat /\ k <= c.hi
  BY DEF Command
<1>3. w <= n
  BY <1>1, <1>2, RangesOrdered
<1>4. w < n + 1
  BY <1>3, ClientAssumption DEF Workers
<1>5. k \in Wanted(c, w, st)
  BY <1>1 DEF Wanted
<1> QED BY <1>4, <1>5 DEF HasAll

-----------------------------------------------------------------------------
(* Steps *)

(* Nothing changes, or what is not part of the invariant. *)
LEMMA SameState ==
  ASSUME IInv, UNCHANGED <<client, net, data, commands>>
  PROVE  IInv'
<1> USE DEF client, net, data
<1>1. TypeInv' /\ DataInv'
  BY DEF IInv, TypeInv, DataInv
<1>2. RouteInv'
  BY DEF IInv, RouteInv, find_worker_for_key
<1>3. ExchangeInv'
  BY DEF IInv, ExchangeInv, Busy
<1>4. CollectInv' /\ ScanComplete'
  BY DEF IInv, CollectInv, ScanComplete
<1> QED BY <1>1, <1>2, <1>3, <1>4 DEF IInv

(* Between commands nothing is under way. *)
LEMMA AtPrompt ==
  ASSUME IInv, pc \in {"prompt", "scan"}, ~cut, NEW w \in Workers
  PROVE  request[w] = <<>> /\ reply[w] = <<>>
BY DEF IInv, ExchangeInv, Busy

(* The route table is fetched, or the client ends. *)
LEMMA IdleSteps ==
  ASSUME IInv, Hello \/ Quit
  PROVE  IInv'
<1>1. /\ pc = "prompt" /\ pc' \in {"prompt", "exit"} /\ route_table' \in Tables
      /\ commands' \in Nat /\ (printed' = "hello" \/ pc' = "exit")
      /\ UNCHANGED <<cmd, idx, response, all_results, cut, slave_fds, request, reply, stored,
                     steady, seen>>
  <2>1. CASE Hello
    <3>1. <<>> \in Tables
      BY DEF Tables
    <3> QED BY <2>1, <3>1 DEF Hello, net, data, IInv, TypeInv
  <2>2. CASE Quit
    BY <2>2 DEF Quit, net, data, counts, IInv, TypeInv
  <2> QED BY <2>1, <2>2
<1>2. TypeInv' /\ DataInv'
  BY <1>1 DEF IInv, TypeInv, DataInv
<1>3. RouteInv'
  BY <1>1 DEF IInv, RouteInv
<1>4. ExchangeInv'
  <2>1. \A w \in Workers : slave_fds'[w] # "up" => request'[w] = <<>>
    BY <1>1 DEF IInv, ExchangeInv
  <2>2. ~cut' => \A w \in Workers : request'[w] = <<>> /\ reply'[w] = <<>>
    BY <1>1, AtPrompt
  <2> QED BY <1>1, <2>1, <2>2 DEF ExchangeInv
<1>5. CollectInv' /\ ScanComplete'
  BY <1>1 DEF CollectInv, ScanComplete
<1> QED BY <1>2, <1>3, <1>4, <1>5 DEF IInv

(* A request is written, or the connection turns out to be broken. *)
LEMMA WrittenFacts ==
  ASSUME IInv, NEW w \in Workers, NEW c \in Command, Written(w, c)
  PROVE  /\ slave_fds' \in [Workers -> {"none", "up", "fin", "reset"}]
         /\ request' \in [Workers -> Seq(Command)] /\ reply' = reply
         /\ \A v \in Workers : v # w => slave_fds'[v] = slave_fds[v] /\ request'[v] = request[v]
         /\ \/ /\ slave_fds[w] # "reset" /\ slave_fds'[w] = "up"
               /\ request'[w] = Append(request[w], c)
            \/ slave_fds'[w] # "up" /\ request'[w] = request[w] /\ request[w] = <<>>
         /\ slave_fds[w] = "reset" => slave_fds'[w] # "up"
         /\ \A v \in Workers : slave_fds'[v] # "up" => request'[v] = <<>>
<1>1. slave_fds[w] \in {"none", "up", "fin", "reset"} /\ request[w] \in Seq(Command)
  BY DEF IInv, TypeInv
<1>2. PICK s \in {"none", "up", "reset"} :
        /\ s = CASE slave_fds[w] \in {"none", "up"} -> "up" [] slave_fds[w] = "fin" -> "reset"
                 [] slave_fds[w] = "reset" -> "none"
        /\ slave_fds' = [slave_fds EXCEPT ![w] = s]
  BY <1>1 DEF Written
<1>3. /\ s = "up" => slave_fds[w] \in {"none", "up"}
      /\ s # "up" => slave_fds[w] \in {"fin", "reset"}
  BY <1>1, <1>2
<1>4. /\ slave_fds' \in [Workers -> {"none", "up", "fin", "reset"}] /\ slave_fds'[w] = s
      /\ \A v \in Workers : v # w => slave_fds'[v] = slave_fds[v]
  BY <1>2 DEF IInv, TypeInv
<1>5. CASE s = "up"
  <2>1. request' = [request EXCEPT ![w] = Append(@, c)] /\ reply' = reply
    BY <1>4, <1>5 DEF Written
  <2>2. Append(request[w], c) \in Seq(Command)
    BY <1>1
  <2>3. /\ request' \in [Workers -> Seq(Command)] /\ request'[w] = Append(request[w], c)
        /\ \A v \in Workers : v # w => request'[v] = request[v]
    BY <2>1, <2>2 DEF IInv, TypeInv
  <2> QED BY <1>3, <1>4, <1>5, <2>1, <2>3 DEF IInv, ExchangeInv
<1>6. CASE s # "up"
  <2>1. request' = request /\ reply' = reply
    BY <1>4, <1>6 DEF Written
  <2>2. request[w] = <<>>
    BY <1>3, <1>6 DEF IInv, ExchangeInv
  <2> QED BY <1>3, <1>4, <1>6, <2>1, <2>2 DEF IInv, TypeInv, ExchangeInv
<1> QED BY <1>5, <1>6

(* PUT, GET, DELETE or GC for worker w. *)
LEMMA SingleStep ==
  ASSUME IInv, NEW c \in Command, NEW w \in Workers \cup {-1}, Single(c, w), c.op # "SCAN",
         c.op \in {"PUT", "GET", "DELETE"} /\ w # -1 =>
           c.lo \in Chars /\ InRange(c.lo, WORKER_RANGES[w])
  PROVE  IInv'
<1>1. /\ pc = "prompt" /\ commands' = commands + 1 /\ cmd' = c /\ response' = <<>> /\ idx' = w
      /\ UNCHANGED <<route_table, all_results, cut, stored, steady, seen>>
  BY DEF Single, Begin, data
<1>2. PICK sent \in BOOLEAN : sent = ~(w < 0 \/ ~Connected(w))
  OBVIOUS
<1>3. /\ ~sent => pc' = "prompt" /\ UNCHANGED <<slave_fds, request, reply>>
      /\ sent => /\ w \in Workers /\ Written(w, c)
                 /\ IF slave_fds[w] = "reset" THEN pc' = "prompt" ELSE pc' = "read"
  <2>1. ~sent => pc' = "prompt" /\ UNCHANGED <<slave_fds, request, reply>>
    BY <1>1, <1>2 DEF Single, net
  <2>2. sent => w \in Workers
    <3>1. w = -1 => w < 0
      OBVIOUS
    <3>2. sent => ~(w < 0)
      BY <1>2, Zenon
    <3> QED BY <3>1, <3>2, Zenon
  <2>3. sent => /\ Written(w, c)
                /\ IF slave_fds[w] = "reset" THEN pc' = "prompt" ELSE pc' = "read"
    BY <1>1, <1>2 DEF Single
  <2> QED BY <2>1, <2>2, <2>3
<1>4. /\ slave_fds' \in [Workers -> {"none", "up", "fin", "reset"}]
      /\ request' \in [Workers -> Seq(Command)] /\ reply' = reply
      /\ \A v \in Workers : slave_fds'[v] # "up" => request'[v] = <<>>
      /\ \A v \in Workers :
           \/ request'[v] = request[v]
           \/ pc' = "read" /\ v = w /\ request'[v] = Append(request[v], c)
      /\ pc' \in {"prompt", "read"} /\ (pc' = "read" => w \in Workers)
  <2>1. CASE sent
    BY <1>3, <2>1, WrittenFacts
  <2>2. CASE ~sent
    BY <1>3, <2>2 DEF IInv, TypeInv, ExchangeInv
  <2> QED BY <2>1, <2>2
<1>5. TypeInv'
  <2>1. commands' \in Nat
    BY <1>1 DEF IInv, TypeInv
  <2> QED BY <1>1, <1>4, <2>1 DEF IInv, TypeInv
<1>6. DataInv'
  BY <1>1 DEF IInv, DataInv
<1>7. RouteInv'
  <2>1. ASSUME NEW v \in Workers, NEW i \in DOMAIN request'[v],
               request'[v][i].op \in {"PUT", "GET", "DELETE"}
        PROVE  request'[v][i].lo \in Chars /\ InRange(request'[v][i].lo, WORKER_RANGES[v])
    <3>1. CASE request'[v] = request[v]
      BY <2>1, <3>1 DEF IInv, RouteInv
    <3>2. CASE v = w /\ request'[v] = Append(request[v], c)
      <4>1. request[v] \in Seq(Command)
        BY DEF IInv, TypeInv
      <4>2. CASE i \in DOMAIN request[v]
        <5>1. request'[v][i] = request[v][i]
          BY <3>2, <4>1, <4>2
        <5> QED BY <2>1, <4>2, <5>1 DEF IInv, RouteInv
      <4>3. CASE i \notin DOMAIN request[v]
        <5>1. request'[v][i] = c
          BY <3>2, <4>1, <4>3
        <5>2. w # -1
          BY <3>2 DEF Workers
        <5> QED BY <2>1, <3>2, <5>1, <5>2
      <4> QED BY <4>2, <4>3
    <3> QED BY <1>4, <3>1, <3>2
  <2> QED BY <1>1, <1>4, <2>1 DEF RouteInv
<1>8. ExchangeInv'
  <2> SUFFICES ASSUME ~cut'
               PROVE  /\ \A v \in Workers : ~Busy(v)' => request'[v] = <<>> /\ reply'[v] = <<>>
                      /\ \A v \in Workers : request'[v] # <<>> => request'[v] = <<cmd'>> /\ reply'[v] = <<>>
                      /\ \A v \in Workers : \A i \in DOMAIN reply'[v] : reply'[v][i].n = cmd'.n
                      /\ pc' = "read" => Len(reply'[idx']) <= 1
    BY <1>4 DEF ExchangeInv
  <2>1. \A v \in Workers : request[v] = <<>> /\ reply'[v] = <<>>
    BY <1>1, <1>4, AtPrompt
  <2>2. \A v \in Workers : request'[v] = <<>> \/ (pc' = "read" /\ v = w /\ request'[v] = <<c>>)
    BY <1>4, <2>1
  <2> QED BY <1>1, <1>4, <2>1, <2>2 DEF Busy
<1>9. CollectInv' /\ ScanComplete'
  BY <1>1, <1>4 DEF CollectInv, ScanComplete
<1> QED BY <1>5, <1>6, <1>7, <1>8, <1>9 DEF IInv

(* The commands that take one request. *)
LEMMA CommandSteps ==
  ASSUME IInv,
         \/ \E k \in Chars : \/ \E v \in Values : KeyCommand("PUT", k, v)
                             \/ \E op \in {"GET", "DELETE"} : KeyCommand(op, k, NoValue)
         \/ \E w \in Workers : GcCommand(w)
  PROVE  IInv'
<1>0. commands + 1 \in Nat
  BY DEF IInv, TypeInv
<1>1. ASSUME NEW op \in {"PUT", "GET", "DELETE"}, NEW k \in Chars, NEW v \in Vals,
             KeyCommand(op, k, v)
      PROVE  IInv'
  <2>0. k \in Nat
    BY ClientAssumption
  <2>1. PICK c : c = [op |-> op, n |-> commands + 1, lo |-> k, hi |-> k, val |-> v]
    OBVIOUS
  <2>2. c \in Command /\ c.op = op /\ c.lo = k
    BY <1>0, <2>0, <2>1 DEF Command
  <2>3. PICK w : w = find_worker_for_key(k) /\ Single(c, w)
    BY <1>1, <2>1 DEF KeyCommand
  <2>4. w = -1 \/ (w \in Workers /\ InRange(k, WORKER_RANGES[w]))
    BY <2>0, <2>3, FindFacts DEF IInv, TypeInv
  <2> QED BY <2>2, <2>3, <2>4, SingleStep
<1>2. ASSUME NEW w \in Workers, GcCommand(w) PROVE IInv'
  <2>1. PICK c : c = [op |-> "GC", n |-> commands + 1, lo |-> 0, hi |-> 0, val |-> NoValue]
    OBVIOUS
  <2>2. c \in Command /\ c.op = "GC" /\ Single(c, w)
    BY <1>0, <1>2, <2>1 DEF Command, GcCommand, Vals
  <2> QED BY <2>2, SingleStep
<1> QED BY <1>1, <1>2 DEF Vals

(* A SCAN begins. *)
LEMMA ScanStep ==
  ASSUME IInv, NEW lo \in Chars, NEW hi \in Chars, Scan(lo, hi)
  PROVE  IInv'
<1>1. PICK c : c = [op |-> "SCAN", n |-> commands + 1, lo |-> lo, hi |-> hi, val |-> NoValue]
  OBVIOUS
<1>2. lo \in Nat /\ hi \in Nat /\ Chars \subseteq Nat /\ commands \in Nat
  BY ClientAssumption DEF IInv, TypeInv
<1>3. c \in Command /\ c.op = "SCAN" /\ c.lo = lo /\ c.hi = hi
  BY <1>1, <1>2 DEF Command, Vals
<1>4. PICK first, last : first = find_worker_for_key(lo) /\ last = find_worker_for_key(hi)
  OBVIOUS
<1>5. /\ lo <= hi /\ pc = "prompt" /\ commands' = commands + 1 /\ cmd' = c /\ response' = <<>>
      /\ idx' = first /\ all_results' = <<>>
      /\ IF first < 0 \/ last < 0 THEN pc' = "prompt" /\ printed' = "no slave"
         ELSE pc' = "scan" /\ printed' = "nothing"
      /\ steady' = Present(stored) /\ seen' = {<<k, stored[k]>> : k \in Present(stored)}
      /\ UNCHANGED <<route_table, cut, slave_fds, request, reply, stored>>
  BY <1>1, <1>4 DEF Scan, Begin, net
<1>6. pc' = "scan" => /\ first \in Workers /\ last \in Workers /\ first <= last
                      /\ InRange(lo, WORKER_RANGES[first])
  <2>1. first = -1 \/ (first \in Workers /\ InRange(lo, WORKER_RANGES[first]))
    BY <1>2, <1>4, FindFacts DEF IInv, TypeInv
  <2>2. last = -1 \/ (last \in Workers /\ InRange(hi, WORKER_RANGES[last]))
    BY <1>2, <1>4, FindFacts DEF IInv, TypeInv
  <2>3. pc' = "scan" => first # -1 /\ last # -1
    BY <1>5
  <2> QED BY <1>2, <1>5, <2>1, <2>2, <2>3, RangesOrdered
<1>7. TypeInv'
  <2>1. pc' \in {"prompt", "scan"}
    BY <1>5
  <2>2. response' \in Seq(ReplyLine) /\ all_results' \in Seq(Nat \X Vals)
    <3>1. <<>> \in Seq(ReplyLine) /\ <<>> \in Seq(Nat \X Vals)
      OBVIOUS
    <3> QED BY <1>5, <3>1, Zenon
  <2>3. commands' \in Nat
    <3>1. commands' = commands + 1
      BY <1>5
    <3> QED BY <1>2, <3>1
  <2> QED BY <1>3, <1>5, <2>1, <2>2, <2>3 DEF IInv, TypeInv
<1>8. DataInv'
  BY <1>5 DEF IInv, DataInv, Present
<1>9. RouteInv'
  <2>1. find_worker_for_key(cmd.hi)' = last
    <3>1. cmd'.hi = hi /\ route_table' = route_table
      BY <1>3, <1>5
    <3>2. find_worker_for_key(cmd.hi)' = find_worker_for_key(hi)
      BY <3>1 DEF find_worker_for_key
    <3> QED BY <1>4, <3>2
  <2> QED BY <1>3, <1>5, <1>6, <2>1 DEF IInv, RouteInv
<1>10. ExchangeInv'
  <2>1. \A w \in Workers : slave_fds'[w] # "up" => request'[w] = <<>>
    BY <1>5 DEF IInv, ExchangeInv
  <2>2. ~cut' => \A w \in Workers : request'[w] = <<>> /\ reply'[w] = <<>>
    BY <1>5, AtPrompt
  <2>3. pc' \in {"prompt", "scan"} /\ response' = <<>>
    BY <1>5
  <2> QED BY <2>1, <2>2, <2>3 DEF ExchangeInv
<1>11. CollectInv'
  <2>1. steady' \in SUBSET Nat
    BY <1>2, <1>5 DEF Present
  <2> QED BY <1>3, <1>5, <1>6, <2>1, NothingCollected DEF CollectInv
<1>12. ScanComplete'
  BY <1>5 DEF ScanComplete
<1> QED BY <1>7, <1>8, <1>9, <1>10, <1>11, <1>12 DEF IInv

(* The SCAN goes on with the next worker or ends, with what worker idx has *)
(* reported, or without it.                                                *)
LEMMA ScanMovesOn ==
  ASSUME IInv, pc \in {"scan", "scanread"}, NEW how \in {"all", "partly"}, NextWorker(how),
         UNCHANGED <<route_table, cmd, request, stored, steady, seen, commands>>,
         slave_fds' \in [Workers -> {"none", "up", "fin", "reset"}],
         reply' \in [Workers -> Seq(ReplyLine)],
         all_results' \in Seq(Nat \X Vals), cut' \in BOOLEAN,
         \A w \in Workers : slave_fds'[w] # "up" => request[w] = <<>>,
         ~cut' =>
           /\ \A w \in Workers : request[w] = <<>> /\ reply'[w] = <<>>
           /\ InOrder(all_results', idx + 1, seen)
           /\ how = "all" /\ printed # "partly" => HasAll(all_results', cmd, idx + 1, steady, seen)
  PROVE  IInv'
<1>1. PICK last : last = find_worker_for_key(cmd.hi)
  OBVIOUS
<1>2. /\ cmd \in Command /\ cmd.op = "SCAN" /\ idx \in Workers /\ last \in Workers /\ idx <= last
      /\ InRange(cmd.hi, WORKER_RANGES[last])
  <2>1. /\ cmd \in Command /\ cmd.op = "SCAN" /\ idx \in Workers /\ last \in Workers /\ idx <= last
    BY <1>1 DEF IInv, TypeInv, RouteInv
  <2>2. cmd.hi \in Nat /\ last # -1
    BY <2>1 DEF Command, Workers
  <2> QED BY <1>1, <2>1, <2>2, FindFacts DEF IInv, TypeInv
<1>3. /\ response' = <<>> /\ printed' = IF printed = "partly" THEN printed ELSE how
      /\ IF idx = last THEN pc' = "prompt" /\ idx' = idx ELSE pc' = "scan" /\ idx' = idx + 1
  BY <1>1 DEF NextWorker
<1>4. idx # last => idx + 1 \in Workers /\ idx + 1 <= last
  <2>1. WORKER_COUNT \in Nat
    BY ClientAssumption
  <2>2. idx \in 0 .. WORKER_COUNT - 1 /\ last \in 0 .. WORKER_COUNT - 1 /\ idx <= last
    BY <1>2 DEF Workers
  <2>3. idx # last => idx + 1 \in 0 .. WORKER_COUNT - 1 /\ idx + 1 <= last
    BY <2>1, <2>2
  <2> QED BY <2>3 DEF Workers
<1>5. find_worker_for_key(cmd.hi)' = last
  <2>1. cmd' = cmd /\ route_table' = route_table
    OBVIOUS
  <2> QED BY <1>1, <2>1 DEF find_worker_for_key
<1>6. pc' \in {"prompt", "scan"}
  BY <1>3
<1>7. TypeInv'
  <2>1. response' \in Seq(ReplyLine)
    <3>1. <<>> \in Seq(ReplyLine)
      OBVIOUS
    <3> QED BY <1>3, <3>1, Zenon
  <2> QED BY <1>6, <2>1 DEF IInv, TypeInv
<1>8. DataInv'
  BY DEF IInv, DataInv
<1>9. RouteInv'
  BY <1>2, <1>3, <1>4, <1>5, <1>6 DEF IInv, RouteInv
<1>10. ExchangeInv'
  BY <1>3, <1>6 DEF ExchangeInv
<1>11. CollectInv'
  <2> SUFFICES ASSUME ~cut', pc' = "scan"
               PROVE  /\ InOrder(all_results', idx', seen')
                      /\ printed' # "partly" => HasAll(all_results', cmd', idx', steady', seen')
    BY <1>6 DEF CollectInv
  <2>1. idx' = idx + 1
    BY <1>3
  <2>2. printed' # "partly" => how = "all" /\ printed # "partly"
    BY <1>3
  <2> QED BY <2>1, <2>2
<1>12. ScanComplete'
  <2> SUFFICES ASSUME pc' = "prompt", printed' = "all", ~cut'
               PROVE  /\ \A i, j \in DOMAIN all_results' :
                           i < j => all_results'[i][1] < all_results'[j][1]
                      /\ \A i \in DOMAIN all_results' : all_results'[i] \in seen'
                      /\ \A k \in steady' \cap (cmd'.lo .. cmd'.hi) :
                           (\E i \in DOMAIN all_results' : all_results'[i][1] = k)
                             \/ ErrorSeen(cmd', seen')
    BY DEF ScanComplete, ErrorSeen
  <2>1. how = "all" /\ printed # "partly" /\ idx = last
    BY <1>3
  <2>2. HasAll(all_results', cmd, idx + 1, steady, seen) /\ InOrder(all_results', idx + 1, seen)
    BY <2>1
  <2>3. steady \in SUBSET Nat /\ \A k \in steady : \E w \in Workers : InRange(k, WORKER_RANGES[w])
    BY ClientAssumption DEF IInv, DataInv, Present
  <2>4. \A k \in steady \cap (cmd.lo .. cmd.hi) :
          (\E i \in DOMAIN all_results' : all_results'[i][1] = k) \/ ErrorSeen(cmd, seen)
    BY <1>2, <2>1, <2>2, <2>3, AllReported
  <2>5. /\ \A i, j \in DOMAIN all_results' : i < j => all_results'[i][1] < all_results'[j][1]
        /\ \A i \in DOMAIN all_results' : all_results'[i] \in seen
    BY <2>2 DEF InOrder
  <2> QED BY <2>4, <2>5
<1> QED BY <1>7, <1>8, <1>9, <1>10, <1>11, <1>12 DEF IInv

(* Without the report of worker n, what was collected stays in order. *)
LEMMA WithoutIt ==
  ASSUME NEW all, NEW n \in Workers, NEW se, InOrder(all, n, se)
  PROVE  InOrder(all, n + 1, se)
<1>1. \A w \in Workers : n + 1 <= w => n <= w
  BY ClientAssumption DEF Workers
<1> QED BY <1>1 DEF InOrder

(* The SCAN asks a worker, or skips one that it cannot reach. *)
LEMMA ScanRequestStep ==
  ASSUME IInv, ScanRequest
  PROVE  IInv'
<1>1. /\ pc = "scan" /\ UNCHANGED <<route_table, cmd, all_results, cut, stored, steady, seen, commands>>
      /\ cmd \in Command /\ cmd.op = "SCAN" /\ idx \in Workers
  BY DEF ScanRequest, data, counts, IInv, TypeInv, RouteInv
<1>2. ~cut => /\ \A w \in Workers : request[w] = <<>> /\ reply[w] = <<>>
              /\ response = <<>>
              /\ InOrder(all_results, idx, seen) /\ InOrder(all_results, idx + 1, seen)
              /\ printed # "partly" => HasAll(all_results, cmd, idx, steady, seen)
  <2>1. ~cut => \A w \in Workers : request[w] = <<>> /\ reply[w] = <<>>
    BY <1>1, AtPrompt
  <2>2. ~cut => response = <<>>
    BY <1>1 DEF IInv, ExchangeInv
  <2>3. ~cut => /\ InOrder(all_results, idx, seen)
                /\ printed # "partly" => HasAll(all_results, cmd, idx, steady, seen)
    BY <1>1 DEF IInv, CollectInv
  <2> QED BY <1>1, <2>1, <2>2, <2>3, WithoutIt
<1>3. CASE ~Connected(idx)
  <2>1. NextWorker("partly") /\ UNCHANGED <<slave_fds, request, reply>>
    BY <1>3 DEF ScanRequest, net
  <2>2. /\ slave_fds' \in [Workers -> {"none", "up", "fin", "reset"}]
        /\ reply' \in [Workers -> Seq(ReplyLine)]
        /\ all_results' \in Seq(Nat \X Vals) /\ cut' \in BOOLEAN
        /\ \A w \in Workers : slave_fds'[w] # "up" => request[w] = <<>>
    BY <1>1, <2>1 DEF IInv, TypeInv, ExchangeInv
  <2> QED BY <1>1, <1>2, <2>1, <2>2, ScanMovesOn
<1>4. CASE Connected(idx)
  <2>1. /\ Written(idx, cmd)
        /\ IF slave_fds[idx] = "reset" THEN NextWorker("partly")
           ELSE pc' = "scanread" /\ UNCHANGED <<idx, response, printed>>
    BY <1>4 DEF ScanRequest
  <2>2. /\ slave_fds' \in [Workers -> {"none", "up", "fin", "reset"}]
        /\ request' \in [Workers -> Seq(Command)] /\ reply' = reply
        /\ \A v \in Workers : v # idx => slave_fds'[v] = slave_fds[v] /\ request'[v] = request[v]
        /\ request'[idx] \in {request[idx], Append(request[idx], cmd)}
        /\ slave_fds[idx] = "reset" => slave_fds'[idx] # "up" /\ request'[idx] = request[idx]
        /\ \A v \in Workers : slave_fds'[v] # "up" => request'[v] = <<>>
    BY <1>1, <2>1, WrittenFacts
  <2>3. CASE slave_fds[idx] = "reset"
    <3>1. request' = request
      <4>1. \A v \in Workers : request'[v] = request[v]
        BY <2>2, <2>3
      <4> QED BY <2>2, <4>1 DEF IInv, TypeInv
    <3>2. /\ reply' \in [Workers -> Seq(ReplyLine)]
          /\ all_results' \in Seq(Nat \X Vals) /\ cut' \in BOOLEAN
          /\ \A w \in Workers : slave_fds'[w] # "up" => request[w] = <<>>
      BY <1>1, <2>2, <3>1 DEF IInv, TypeInv
    <3> QED BY <1>1, <1>2, <2>1, <2>2, <2>3, <3>1, <3>2, ScanMovesOn
  <2>4. CASE slave_fds[idx] # "reset"
    <3>1. pc' = "scanread" /\ UNCHANGED <<idx, response, printed>>
      BY <2>1, <2>4
    <3>2. TypeInv'
      BY <1>1, <2>2, <3>1 DEF IInv, TypeInv
    <3>3. DataInv'
      BY <1>1 DEF IInv, DataInv
    <3>4. RouteInv'
      <4>1. ASSUME NEW v \in Workers, NEW i \in DOMAIN request'[v],
                   request'[v][i].op \in {"PUT", "GET", "DELETE"}
            PROVE  i \in DOMAIN request[v] /\ request'[v][i] = request[v][i]
        <5>1. request[v] \in Seq(Command)
          BY DEF IInv, TypeInv
        <5>2. CASE request'[v] = request[v]
          BY <5>2
        <5>3. CASE request'[v] = Append(request[v], cmd)
          BY <1>1, <4>1, <5>1, <5>3
        <5> QED BY <2>2, <5>2, <5>3
      <4>2. find_worker_for_key(cmd.hi)' = find_worker_for_key(cmd.hi)
        BY <1>1 DEF find_worker_for_key
      <4> QED BY <1>1, <3>1, <4>1, <4>2 DEF IInv, RouteInv
    <3>5. ExchangeInv'
      <4> SUFFICES ASSUME ~cut'
            PROVE  /\ \A v \in Workers : ~Busy(v)' => request'[v] = <<>> /\ reply'[v] = <<>>
                   /\ \A v \in Workers : request'[v] # <<>> => request'[v] = <<cmd'>> /\ reply'[v] = <<>>
                   /\ \A v \in Workers : \A i \in DOMAIN reply'[v] : reply'[v][i].n = cmd'.n
                   /\ response' = <<>>
                   /\ ScanLines(response' \o reply'[idx'], cmd', idx', steady', seen')
        BY <2>2, <3>1 DEF ExchangeInv
      <4>1. \A v \in Workers : request[v] = <<>> /\ reply'[v] = <<>>
        BY <1>1, <1>2, <2>2
      <4>2. \A v \in Workers : request'[v] = <<>> \/ (v = idx' /\ request'[v] = <<cmd>>)
        BY <2>2, <3>1, <4>1
      <4>3. response' = <<>> /\ response' \o reply'[idx'] = <<>>
        BY <1>1, <1>2, <3>1, <4>1
      <4>4. ScanLines(response' \o reply'[idx'], cmd', idx', steady', seen')
        BY <4>3, NoLines
      <4> QED BY <1>1, <3>1, <4>1, <4>2, <4>3, <4>4 DEF Busy
    <3>6. CollectInv'
      BY <1>1, <1>2, <3>1 DEF CollectInv
    <3>7. ScanComplete'
      BY <3>1 DEF ScanComplete
    <3> QED BY <3>2, <3>3, <3>4, <3>5, <3>6, <3>7 DEF IInv
  <2> QED BY <2>3, <2>4
<1> QED BY <1>3, <1>4

(* What the data may do while the client waits: keys stop being steady, and *)
(* more is seen.                                                            *)
LEMMA StoreFacts ==
  ASSUME TypeInv, DataInv, NEW k \in Chars, NEW v \in Vals, Store(k, v),
         \E w \in Workers : InRange(k, WORKER_RANGES[w])
  PROVE  /\ stored' \in [Chars -> Vals] /\ DataInv'
         /\ steady' \in SUBSET steady /\ seen \subseteq seen'
<1>1. stored \in [Chars -> Vals]
  BY DEF TypeInv
<1>2. /\ stored' \in [Chars -> Vals] /\ stored'[k] = v
      /\ \A j \in Chars : j # k => stored'[j] = stored[j]
  BY <1>1 DEF Store
<1>3. steady' \in SUBSET steady /\ seen \subseteq seen'
  BY DEF Store
<1>4. steady' \subseteq Present(stored')
  <2>1. ASSUME NEW j \in steady' PROVE j \in Present(stored')
    <3>1. j \in Chars /\ stored[j] # NoValue
      BY <1>3, <2>1 DEF DataInv, Present
    <3>2. CASE j = k
      BY <1>2, <2>1, <3>1, <3>2 DEF Store, Present
    <3>3. CASE j # k
      BY <1>2, <3>1, <3>3 DEF Present
    <3> QED BY <3>2, <3>3
  <2> QED BY <2>1
<1>5. ASSUME NEW j \in Present(stored')
      PROVE  <<j, stored'[j]>> \in seen' /\ \E w \in Workers : InRange(j, WORKER_RANGES[w])
  <2>1. j \in Chars /\ stored'[j] # NoValue
    BY DEF Present
  <2>2. CASE j = k
    <3>1. v # NoValue
      BY <1>2, <2>1, <2>2
    <3>2. <<k, v>> \in seen'
      BY <3>1 DEF Store
    <3> QED BY <1>2, <2>2, <3>2
  <2>3. CASE j # k
    <3>1. j \in Present(stored) /\ stored'[j] = stored[j]
      BY <1>2, <2>1, <2>3 DEF Present
    <3> QED BY <1>3, <3>1 DEF DataInv
  <2> QED BY <2>2, <2>3
<1> QED BY <1>2, <1>3, <1>4, <1>5 DEF DataInv, Present

(* A write of another client leaves all that was read and collected valid. *)
LEMMA OtherWriteStep ==
  ASSUME IInv, up \subseteq Workers, NEW k \in Chars, NEW v \in Vals, OtherWrite(k, v)
  PROVE  IInv'
<1>1. UNCHANGED <<client, net, commands>>
  BY DEF OtherWrite
<1>2. /\ stored' \in [Chars -> Vals] /\ DataInv'
      /\ steady' \in SUBSET steady /\ seen \subseteq seen'
  <2>1. Store(k, v) /\ \E w \in Workers : InRange(k, WORKER_RANGES[w])
    BY DEF OtherWrite
  <2> QED BY <2>1, StoreFacts DEF IInv
<1>3. TypeInv'
  BY <1>1, <1>2 DEF IInv, TypeInv, client, net
<1>4. RouteInv'
  BY <1>1 DEF IInv, RouteInv, client, net, find_worker_for_key
<1>5. ExchangeInv'
  <2>1. /\ slave_fds' = slave_fds /\ request' = request /\ reply' = reply /\ pc' = pc /\ idx' = idx
        /\ response' = response /\ cmd' = cmd /\ cut' = cut
    BY <1>1 DEF client, net
  <2>2. ScanLines(response \o reply[idx], cmd, idx, steady, seen) =>
          ScanLines(response \o reply[idx], cmd, idx, steady', seen')
    BY <1>2, LinesLater
  <2> QED BY <2>1, <2>2 DEF IInv, ExchangeInv, Busy
<1>6. CollectInv'
  <2>1. /\ InOrder(all_results, idx, seen) => InOrder(all_results, idx, seen')
        /\ HasAll(all_results, cmd, idx, steady, seen) => HasAll(all_results, cmd, idx, steady', seen')
    BY <1>2, CollectedLater
  <2> QED BY <1>1, <2>1 DEF IInv, CollectInv, client
<1>7. ScanComplete'
  BY <1>1, <1>2 DEF IInv, ScanComplete, client
<1> QED BY <1>2, <1>3, <1>4, <1>5, <1>6, <1>7 DEF IInv

-----------------------------------------------------------------------------
(* Steps: replies *)

(* A sequence that is split and put together again. *)
LEMMA SplitSeq ==
  ASSUME NEW S, NEW p \in Seq(S), NEW a \in Seq(S), NEW r \in Seq(S), NEW q \in Seq(S),
         Len(q) = Len(a) + Len(r), \A i \in 1 .. Len(a) : a[i] = q[i],
         \A i \in 1 .. Len(r) : r[i] = q[Len(a) + i]
  PROVE  (p \o a) \o r = p \o q
<1>1. PICK x \in Nat, y \in Nat, z \in Nat : x = Len(p) /\ y = Len(a) /\ z = Len(r)
  OBVIOUS
<1>0. \A s, t \in Seq(S) : s \o t \in Seq(S)
  OBVIOUS
<1>2. PICK u \in Seq(S) : u = p \o a
  BY <1>0
<1>3. /\ Len(u) = x + y
      /\ \A i \in 1 .. x : u[i] = p[i]
      /\ \A i \in x + 1 .. x + y : u[i] = a[i - x]
  BY <1>1, <1>2
<1>4. PICK v \in Seq(S) : v = u \o r
  BY <1>0
<1>5. /\ Len(v) = x + y + z
      /\ \A i \in 1 .. x + y : v[i] = u[i]
      /\ \A i \in x + y + 1 .. x + y + z : v[i] = r[i - (x + y)]
  <2>1. ASSUME NEW d \in Seq(S), NEW b \in Nat, b = Len(d)
        PROVE  /\ Len(d \o r) = b + z
               /\ \A i \in 1 .. b : (d \o r)[i] = d[i]
               /\ \A i \in b + 1 .. b + z : (d \o r)[i] = r[i - b]
    BY <1>1, <2>1
  <2>2. PICK b \in Nat : b = x + y
    OBVIOUS
  <2>3. /\ Len(v) = b + z
        /\ \A i \in 1 .. b : v[i] = u[i]
        /\ \A i \in b + 1 .. b + z : v[i] = r[i - b]
    BY <1>3, <1>4, <2>1, <2>2, Zenon
  <2> QED BY <2>2, <2>3
<1>6. PICK t \in Seq(S) : t = p \o q
  BY <1>0
<1>7. /\ Len(t) = x + y + z
      /\ \A i \in 1 .. x : t[i] = p[i]
      /\ \A i \in x + 1 .. x + y + z : t[i] = q[i - x]
  <2>1. ASSUME NEW d \in Seq(S), NEW b \in Nat, b = Len(d)
        PROVE  /\ Len(p \o d) = x + b
               /\ \A i \in 1 .. x : (p \o d)[i] = p[i]
               /\ \A i \in x + 1 .. x + b : (p \o d)[i] = d[i - x]
    BY <1>1, <2>1
  <2>2. PICK b \in Nat : b = Len(q)
    OBVIOUS
  <2>3. /\ Len(t) = x + b
        /\ \A i \in 1 .. x : t[i] = p[i]
        /\ \A i \in x + 1 .. x + b : t[i] = q[i - x]
    BY <1>6, <2>1, <2>2, Zenon
  <2>4. x + b = x + y + z
    BY <1>1, <2>2
  <2> QED BY <2>3, <2>4
<1>8. ASSUME NEW i \in 1 .. x + y + z PROVE v[i] = t[i]
  <2>1. CASE i <= x
    <3>1. i \in 1 .. x /\ i \in 1 .. x + y
      BY <2>1
    <3> QED BY <1>3, <1>5, <1>7, <3>1
  <2>2. CASE i > x /\ i <= x + y
    <3>1. i \in x + 1 .. x + y /\ i \in 1 .. x + y /\ i \in x + 1 .. x + y + z /\ i - x \in 1 .. y
      BY <2>2
    <3>2. a[i - x] = q[i - x]
      BY <1>1, <3>1
    <3> QED BY <1>3, <1>5, <1>7, <3>1, <3>2
  <2>3. CASE i > x + y
    <3>1. PICK j \in Nat : j = i - (x + y)
      BY <2>3
    <3>2. /\ i \in x + y + 1 .. x + y + z /\ i \in x + 1 .. x + y + z
          /\ j \in 1 .. z /\ i - x = y + j
      BY <2>3, <3>1
    <3>3. r[j] = q[y + j]
      BY <1>1, <3>2
    <3>4. v[i] = r[j] /\ t[i] = q[y + j]
      BY <1>5, <1>7, <3>1, <3>2
    <3> QED BY <3>3, <3>4
  <2> QED BY <2>1, <2>2, <2>3
<1>9. v = t
  BY <1>5, <1>7, <1>8
<1> QED BY <1>2, <1>4, <1>6, <1>9

(* A sequence is empty just when its length is zero. *)
LEMMA EmptySeq ==
  ASSUME NEW S, NEW s \in Seq(S)
  PROVE  s = <<>> <=> Len(s) = 0
OBVIOUS

(* One read(): the lines that are taken leave the connection. *)
LEMMA TakenFacts ==
  ASSUME IInv, idx \in Workers, NEW n, Taken(n)
  PROVE  /\ n \in 1 .. Len(reply[idx]) /\ Got(n) \in Seq(ReplyLine)
         /\ reply' \in [Workers -> Seq(ReplyLine)]
         /\ \A w \in Workers : w # idx => reply'[w] = reply[w]
         /\ Len(reply'[idx]) = Len(reply[idx]) - n
         /\ Got(n) \o reply'[idx] = response \o reply[idx]
         /\ \A i \in DOMAIN reply'[idx] : \E j \in DOMAIN reply[idx] : reply'[idx][i] = reply[idx][j]
         /\ UNCHANGED <<slave_fds, request>>
<1>1. PICK p, q : p = response /\ q = reply[idx]
  OBVIOUS
<1>2. p \in Seq(ReplyLine) /\ q \in Seq(ReplyLine) /\ reply \in [Workers -> Seq(ReplyLine)]
  BY <1>1 DEF IInv, TypeInv
<1>3. /\ n \in 1 .. Len(q) /\ UNCHANGED <<slave_fds, request>>
      /\ reply' = [reply EXCEPT ![idx] = SubSeq(q, n + 1, Len(q))]
  BY <1>1 DEF Taken
<1>4. PICK a, r : a = SubSeq(q, 1, n) /\ r = SubSeq(q, n + 1, Len(q))
  OBVIOUS
<1>5. /\ a \in Seq(ReplyLine) /\ r \in Seq(ReplyLine) /\ Len(a) = n /\ Len(r) = Len(q) - n
      /\ \A i \in 1 .. n : a[i] = q[i]
      /\ \A i \in 1 .. Len(q) - n : r[i] = q[n + i]
  <2> HIDE DEF ReplyLine
  <2> QED BY <1>2, <1>3, <1>4
<1>6. Got(n) = p \o a
  BY <1>1, <1>4 DEF Got
<1>7. (p \o a) \o r = p \o q
  <2>1. Len(q) \in Nat /\ n \in Nat /\ n <= Len(q)
    BY <1>2, <1>3
  <2>2. Len(q) = Len(a) + Len(r)
    BY <1>5, <2>1
  <2>3. /\ \A i \in 1 .. Len(a) : a[i] = q[i]
        /\ \A i \in 1 .. Len(r) : r[i] = q[Len(a) + i]
    BY <1>5
  <2> QED BY ZenonT(30), <1>2, <1>5, <2>2, <2>3, SplitSeq
<1>8. \A i \in DOMAIN r : \E j \in DOMAIN q : r[i] = q[j]
  <2>1. PICK m \in Nat : m = Len(q)
    BY <1>2
  <2>2. DOMAIN q = 1 .. m /\ DOMAIN r = 1 .. m - n /\ n \in 1 .. m
    BY <1>2, <1>3, <1>5, <2>1
  <2>3. ASSUME NEW i \in DOMAIN r PROVE n + i \in DOMAIN q /\ r[i] = q[n + i]
    <3>1. i \in 1 .. m - n
      BY <2>2
    <3>2. n + i \in 1 .. m
      BY <2>2, <3>1
    <3> QED BY <1>5, <2>1, <2>2, <3>1, <3>2
  <2> QED BY <2>3
<1>9. reply'[idx] = r /\ (\A w \in Workers : w # idx => reply'[w] = reply[w])
      /\ reply' \in [Workers -> Seq(ReplyLine)]
  BY <1>2, <1>3, <1>4, <1>5
<1>10. p \o a \in Seq(ReplyLine)
  <2> HIDE DEF ReplyLine
  <2> QED BY <1>2, <1>5
<1>11. Got(n) \o reply'[idx] = response \o reply[idx]
  BY <1>1, <1>6, <1>7, <1>9, Zenon
<1>12. \A i \in DOMAIN reply'[idx] : \E j \in DOMAIN reply[idx] : reply'[idx][i] = reply[idx][j]
  BY <1>1, <1>8, <1>9, Zenon
<1>13. n \in 1 .. Len(reply[idx]) /\ Len(reply'[idx]) = Len(reply[idx]) - n
  BY <1>1, <1>3, <1>5, <1>9, Zenon
<1> QED BY <1>3, <1>6, <1>9, <1>10, <1>11, <1>12, <1>13

(* The reply to a single request is one line. *)
LEMMA ReadReplyStep ==
  ASSUME IInv, NEW n, ReadReply(n)
  PROVE  IInv'
<1>1. /\ pc = "read" /\ pc' = "prompt" /\ Taken(n) /\ response' = Got(n) /\ printed' = "reply"
      /\ UNCHANGED <<route_table, cmd, idx, all_results, cut, stored, steady, seen, commands>>
  BY DEF ReadReply, data, counts
<1>2. idx \in Workers
  BY <1>1 DEF IInv, RouteInv
<1>3. /\ n \in 1 .. Len(reply[idx]) /\ Got(n) \in Seq(ReplyLine)
      /\ reply' \in [Workers -> Seq(ReplyLine)]
      /\ \A w \in Workers : w # idx => reply'[w] = reply[w]
      /\ Len(reply'[idx]) = Len(reply[idx]) - n
      /\ UNCHANGED <<slave_fds, request>>
  BY <1>1, <1>2, TakenFacts
<1>4. ~cut => \A w \in Workers : request'[w] = <<>> /\ reply'[w] = <<>>
  <2> SUFFICES ASSUME ~cut, NEW w \in Workers PROVE request'[w] = <<>> /\ reply'[w] = <<>>
    OBVIOUS
  <2>1. CASE w # idx
    BY <1>1, <1>3, <2>1 DEF IInv, ExchangeInv, Busy
  <2>2. CASE w = idx
    <3>1. reply[idx] \in Seq(ReplyLine) /\ Len(reply[idx]) <= 1 /\ reply'[idx] \in Seq(ReplyLine)
      BY <1>1, <1>2, <1>3 DEF IInv, TypeInv, ExchangeInv
    <3>2. PICK a \in Nat : a = Len(reply[idx])
      BY <3>1
    <3>3. n \in 1 .. a /\ a <= 1 /\ Len(reply'[idx]) = a - n
      BY <1>3, <3>1, <3>2
    <3>4. a = 1 /\ Len(reply'[idx]) = 0
      BY <3>3
    <3>5. reply[idx] # <<>> /\ reply'[idx] = <<>>
      <4>1. Len(reply[idx]) # 0 /\ Len(reply'[idx]) = 0
        BY <3>2, <3>4
      <4> QED BY <3>1, <4>1, EmptySeq
    <3>6. request[idx] = <<>>
      BY <1>2, <3>5 DEF IInv, ExchangeInv
    <3> QED BY <1>3, <2>2, <3>5, <3>6
  <2> QED BY <2>1, <2>2
<1>5. TypeInv'
  BY <1>1, <1>3 DEF IInv, TypeInv
<1>6. RouteInv'
  BY <1>1, <1>3 DEF IInv, RouteInv
<1>7. DataInv'
  BY <1>1 DEF IInv, DataInv
<1>8. ExchangeInv'
  BY <1>1, <1>3, <1>4 DEF IInv, ExchangeInv
<1>9. CollectInv' /\ ScanComplete'
  BY <1>1 DEF CollectInv, ScanComplete
<1> QED BY <1>5, <1>6, <1>7, <1>8, <1>9 DEF IInv

(* A reply to a SCAN is read until END; what was read and what is to come *)
(* stay the reply of one worker.                                          *)
LEMMA ScanReadStep ==
  ASSUME IInv, NEW n, ScanRead(n)
  PROVE  IInv'
<1>1. /\ pc = "scanread" /\ Taken(n)
      /\ UNCHANGED <<route_table, cmd, stored, steady, seen, commands>>
  BY DEF ScanRead, data, counts
<1>2. idx \in Workers /\ cmd.op = "SCAN"
  BY <1>1 DEF IInv, RouteInv
<1>3. /\ n \in 1 .. Len(reply[idx]) /\ Got(n) \in Seq(ReplyLine)
      /\ reply' \in [Workers -> Seq(ReplyLine)]
      /\ \A w \in Workers : w # idx => reply'[w] = reply[w]
      /\ Got(n) \o reply'[idx] = response \o reply[idx]
      /\ \A i \in DOMAIN reply'[idx] : \E j \in DOMAIN reply[idx] : reply'[idx][i] = reply[idx][j]
      /\ UNCHANGED <<slave_fds, request>>
  BY <1>1, <1>2, TakenFacts
<1>4. PICK g, r : g = Got(n) /\ r = reply'[idx]
  OBVIOUS
<1>5. g \in Seq(ReplyLine) /\ r \in Seq(ReplyLine)
  BY <1>2, <1>3, <1>4
<1>6. ~cut => /\ ScanLines(g \o r, cmd, idx, steady, seen) /\ ScanLines(g, cmd, idx, steady, seen)
              /\ request[idx] = <<>>
              /\ \A w \in Workers : w # idx => request[w] = <<>> /\ reply[w] = <<>>
  <2> SUFFICES ASSUME ~cut
               PROVE  /\ ScanLines(g \o r, cmd, idx, steady, seen)
                      /\ ScanLines(g, cmd, idx, steady, seen)
                      /\ request[idx] = <<>>
                      /\ \A w \in Workers : w # idx => request[w] = <<>> /\ reply[w] = <<>>
    OBVIOUS
  <2>1. ScanLines(g \o r, cmd, idx, steady, seen)
    <3>1. ScanLines(response \o reply[idx], cmd, idx, steady, seen)
      BY <1>1 DEF IInv, ExchangeInv
    <3> QED BY <1>3, <1>4, <3>1
  <2>2. PICK t \in Seq(ReplyLine) : t = g \o r
    <3>1. g \o r \in Seq(ReplyLine)
      BY <1>5
    <3> QED BY <3>1
  <2>3. Len(g) <= Len(t) /\ \A i \in 1 .. Len(g) : g[i] = t[i]
    BY <1>5, <2>2
  <2>4. ScanLines(g, cmd, idx, steady, seen)
    BY <1>5, <2>1, <2>2, <2>3, LinesCutOff
  <2>5. reply[idx] # <<>>
    <3>1. reply[idx] \in Seq(ReplyLine)
      BY <1>2 DEF IInv, TypeInv
    <3>2. Len(reply[idx]) # 0
      BY <1>3
    <3> QED BY <3>1, <3>2, EmptySeq
  <2>6. request[idx] = <<>>
    BY <1>2, <2>5 DEF IInv, ExchangeInv
  <2>7. \A w \in Workers : w # idx => request[w] = <<>> /\ reply[w] = <<>>
    BY DEF IInv, ExchangeInv, Busy
  <2> QED BY <2>1, <2>4, <2>6, <2>7
<1>7. CASE \E i \in DOMAIN g : EndsInEnd(g[i])
  <2>1. /\ all_results' = all_results \o Pairs(g) /\ NextWorker("all")
        /\ cut' = (cut \/ \A i \in DOMAIN g : g[i].kind # "END")
    BY <1>4, <1>7 DEF ScanRead
  <2>2. all_results \in Seq(Nat \X Vals) /\ cut \in BOOLEAN
    BY DEF IInv, TypeInv
  <2>3. all_results' \in Seq(Nat \X Vals)
    <3> DEFINE V == Nat \X Vals
    <3>1. PICK a, b : a = all_results /\ b = Pairs(g)
      OBVIOUS
    <3>2. a \in Seq(V) /\ b \in Seq(V)
      BY <1>5, <2>2, <3>1, PairsFacts
    <3>3. all_results' = a \o b
      BY <2>1, <3>1
    <3> HIDE DEF V
    <3>4. a \o b \in Seq(V)
      BY <3>2
    <3> QED BY <3>3, <3>4 DEF V
  <2>4. cut' \in BOOLEAN
    BY <2>1, <2>2, Zenon
  <2>5. \A w \in Workers : slave_fds'[w] # "up" => request[w] = <<>>
    BY <1>3 DEF IInv, ExchangeInv
  <2>6. ASSUME ~cut'
        PROVE  /\ \A w \in Workers : request[w] = <<>> /\ reply'[w] = <<>>
               /\ InOrder(all_results', idx + 1, seen)
               /\ printed # "partly" => HasAll(all_results', cmd, idx + 1, steady, seen)
    <3>1. ~cut /\ \E i \in DOMAIN g : g[i].kind = "END"
      BY <2>1, <2>6
    <3>2. PICK i \in DOMAIN g : g[i].kind = "END"
      BY <3>1
    <3>3. r = <<>>
      <4>1. PICK x \in Nat, y \in Nat, t \in Seq(ReplyLine) : x = Len(g) /\ y = Len(r) /\ t = g \o r
        <5>1. g \o r \in Seq(ReplyLine) /\ Len(g) \in Nat /\ Len(r) \in Nat
          BY <1>5
        <5> QED BY <5>1
      <4>2. /\ i \in 1 .. x /\ DOMAIN t = 1 .. x + y /\ Len(t) = x + y /\ t[i] = g[i]
        BY <1>5, <3>2, <4>1
      <4>3. i \in DOMAIN t /\ t[i].kind = "END"
        BY <3>2, <4>2
      <4>4. i = Len(t)
        BY <1>6, <3>1, <4>1, <4>3 DEF ScanLines
      <4>5. y = 0
        BY <4>2, <4>4
      <4> QED BY <1>5, <4>1, <4>5, EmptySeq
    <3>4. \A w \in Workers : request[w] = <<>> /\ reply'[w] = <<>>
      BY <1>3, <1>4, <1>6, <3>1, <3>3
    <3>5. /\ InOrder(all_results, idx, seen)
          /\ printed # "partly" => HasAll(all_results, cmd, idx, steady, seen)
      BY <1>1, <3>1 DEF IInv, CollectInv
    <3>6. /\ InOrder(all_results', idx + 1, seen)
          /\ printed # "partly" => HasAll(all_results', cmd, idx + 1, steady, seen)
      <4>1. ScanLines(g, cmd, idx, steady, seen)
        BY <1>6, <3>1
      <4> HIDE DEF Pairs
      <4>2. /\ InOrder(all_results \o Pairs(g), idx + 1, seen)
            /\ HasAll(all_results, cmd, idx, steady, seen) /\ (\E j \in DOMAIN g : g[j].kind = "END") =>
                 HasAll(all_results \o Pairs(g), cmd, idx + 1, steady, seen)
        BY <1>2, <1>5, <2>2, <3>5, <4>1, Collected
      <4> QED BY <2>1, <3>1, <3>5, <4>2
    <3> QED BY <3>4, <3>6
  <2>7. slave_fds' \in [Workers -> {"none", "up", "fin", "reset"}]
    BY <1>3 DEF IInv, TypeInv
  <2> QED BY <1>1, <1>3, <2>1, <2>3, <2>4, <2>5, <2>6, <2>7, ScanMovesOn
<1>8. CASE ~\E i \in DOMAIN g : EndsInEnd(g[i])
  <2>1. response' = g /\ UNCHANGED <<pc, idx, all_results, printed, cut>>
    BY <1>4, <1>8 DEF ScanRead
  <2>2. TypeInv'
    BY <1>1, <1>3, <1>5, <2>1 DEF IInv, TypeInv
  <2>3. RouteInv'
    BY <1>1, <1>3, <2>1 DEF IInv, RouteInv, find_worker_for_key
  <2>4. DataInv'
    BY <1>1 DEF IInv, DataInv
  <2>5. ExchangeInv'
    <3>1. \A w \in Workers : slave_fds'[w] # "up" => request'[w] = <<>>
      BY <1>3 DEF IInv, ExchangeInv
    <3> SUFFICES ASSUME ~cut'
          PROVE  /\ \A w \in Workers : request'[w] = <<>>
                 /\ \A w \in Workers : ~Busy(w)' => reply'[w] = <<>>
                 /\ \A w \in Workers : \A i \in DOMAIN reply'[w] : reply'[w][i].n = cmd'.n
                 /\ ScanLines(response' \o reply'[idx'], cmd', idx', steady', seen')
      <4>1. pc' = "scanread" /\ idx' \in Workers
        BY <1>1, <1>2, <2>1
      <4> QED BY <3>1, <4>1 DEF ExchangeInv
    <3>0. ~cut
      BY <2>1
    <3>2. \A w \in Workers : request'[w] = <<>>
      BY <1>3, <1>6, <3>0
    <3>3. \A w \in Workers : ~Busy(w)' => reply'[w] = <<>>
      BY <1>1, <1>3, <1>6, <2>1, <3>0 DEF Busy
    <3>4. \A w \in Workers : \A i \in DOMAIN reply[w] : reply[w][i].n = cmd.n
      BY <3>0 DEF IInv, ExchangeInv
    <3>5. ASSUME NEW w \in Workers, NEW i \in DOMAIN reply'[w] PROVE reply'[w][i].n = cmd.n
      <4>1. CASE w = idx
        <5>1. PICK j \in DOMAIN reply[idx] : reply'[idx][i] = reply[idx][j]
          BY <1>3, <3>5, <4>1
        <5> QED BY <1>2, <3>4, <4>1, <5>1
      <4>2. CASE w # idx
        <5>1. reply'[w] = reply[w]
          BY <1>3, <4>2
        <5> QED BY <3>4, <3>5, <5>1
      <4> QED BY <4>1, <4>2
    <3>6. ScanLines(response' \o reply'[idx'], cmd', idx', steady', seen')
      <4>1. ScanLines(g \o r, cmd, idx, steady, seen)
        BY <1>6, <3>0
      <4> QED BY <1>1, <1>4, <2>1, <4>1
    <3>7. cmd' = cmd
      BY <1>1
    <3> QED BY <3>2, <3>3, <3>5, <3>6, <3>7
  <2>6. CollectInv'
    BY <1>1, <2>1 DEF IInv, CollectInv
  <2>7. ScanComplete'
    BY <1>1, <2>1 DEF ScanComplete
  <2> QED BY <2>2, <2>3, <2>4, <2>5, <2>6, <2>7 DEF IInv
<1> QED BY <1>7, <1>8

(* The connection is dropped after the end of the stream or an error. *)
LEMMA ReadFailsStep ==
  ASSUME IInv, ReadFails
  PROVE  IInv'
<1>1. /\ pc \in {"read", "scanread"} /\ slave_fds[idx] # "up" /\ reply[idx] = <<>>
      /\ slave_fds' = [slave_fds EXCEPT ![idx] = "none"]
      /\ UNCHANGED <<route_table, cmd, all_results, cut, request, reply, stored, steady, seen, commands>>
  BY DEF ReadFails, data, counts
<1>2. idx \in Workers
  BY <1>1 DEF IInv, RouteInv
<1>3. request[idx] = <<>>
  BY <1>1, <1>2 DEF IInv, ExchangeInv
<1>4. /\ slave_fds' \in [Workers -> {"none", "up", "fin", "reset"}]
      /\ \A w \in Workers : w # idx => slave_fds'[w] = slave_fds[w]
  BY <1>1, <1>2 DEF IInv, TypeInv
<1>5. \A w \in Workers : slave_fds'[w] # "up" => request[w] = <<>>
  BY <1>3, <1>4 DEF IInv, ExchangeInv
<1>6. ~cut => \A w \in Workers : request[w] = <<>> /\ reply[w] = <<>>
  BY <1>1, <1>3 DEF IInv, ExchangeInv, Busy
<1>7. CASE pc = "read"
  <2>1. pc' = "prompt" /\ printed' = "failed" /\ UNCHANGED <<idx, response>>
    BY <1>7 DEF ReadFails
  <2>2. TypeInv'
    BY <1>1, <1>4, <2>1 DEF IInv, TypeInv
  <2>3. RouteInv'
    BY <1>1, <2>1 DEF IInv, RouteInv
  <2>4. DataInv'
    BY <1>1 DEF IInv, DataInv
  <2>5. ExchangeInv'
    BY <1>1, <1>5, <1>6, <2>1 DEF ExchangeInv
  <2>6. CollectInv' /\ ScanComplete'
    BY <2>1 DEF CollectInv, ScanComplete
  <2> QED BY <2>2, <2>3, <2>4, <2>5, <2>6 DEF IInv
<1>8. CASE pc = "scanread"
  <2>1. NextWorker("partly")
    BY <1>8 DEF ReadFails
  <2>2. /\ reply' \in [Workers -> Seq(ReplyLine)]
        /\ all_results' \in Seq(Nat \X Vals) /\ cut' \in BOOLEAN
    BY <1>1 DEF IInv, TypeInv
  <2>3. ~cut' => InOrder(all_results', idx + 1, seen)
    <3>1. ~cut => InOrder(all_results, idx, seen)
      BY <1>8 DEF IInv, CollectInv
    <3> QED BY <1>1, <1>2, <3>1, WithoutIt
  <2>4. ~cut' => \A w \in Workers : request[w] = <<>> /\ reply'[w] = <<>>
    BY <1>1, <1>6
  <2> QED BY <1>1, <1>4, <1>5, <1>8, <2>1, <2>2, <2>3, <2>4, ScanMovesOn
<1> QED BY <1>1, <1>7, <1>8

-----------------------------------------------------------------------------
(* Steps: the slaves *)

(* A request is answered, in full or with an error. *)
LEMMA ServeStep ==
  ASSUME IInv, NEW w \in Workers, Serve(w)
  PROVE  IInv'
<1>1. /\ slave_fds[w] = "up" /\ request[w] # <<>> /\ request' = [request EXCEPT ![w] = Tail(@)]
      /\ UNCHANGED <<client, slave_fds, commands>>
  BY DEF Serve
<1>2. PICK c : c = Head(request[w])
  OBVIOUS
<1>3. PICK a, unread :
        /\ reply' = [reply EXCEPT ![w] = @ \o a]
        /\ \/ /\ c.op = "SCAN" /\ a = ScanReply(c, w, unread)
              /\ steady' = steady \ unread /\ UNCHANGED <<stored, seen>>
           \/ /\ c.op # "SCAN" /\ a = <<Line(c, "LINE", c.lo, NoValue)>>
              /\ CASE c.op = "PUT" -> Store(c.lo, c.val)
                   [] c.op = "DELETE" -> Store(c.lo, NoValue)
                   [] OTHER -> UNCHANGED data
           \/ a = <<Line(c, "ERROR", 0, NoValue)>> /\ UNCHANGED data
  <2> HIDE DEF Store, ScanReply, Line, data
  <2>0. \A l : Append(reply[w], l) = reply[w] \o <<l>>
    <3>1. reply[w] \in Seq(ReplyLine)
      BY DEF IInv, TypeInv
    <3> QED BY <3>1
  <2>1. CASE ServeScan(c, w)
    <3>1. PICK unread :
            /\ c.op = "SCAN" /\ reply' = [reply EXCEPT ![w] = @ \o ScanReply(c, w, unread)]
            /\ steady' = steady \ unread /\ UNCHANGED <<stored, seen>>
      BY <2>1, Zenon DEF ServeScan
    <3> QED BY <3>1
  <2>2. CASE /\ c.op # "SCAN"
             /\ CASE c.op = "PUT" -> Store(c.lo, c.val)
                  [] c.op = "DELETE" -> Store(c.lo, NoValue)
                  [] OTHER -> UNCHANGED data
             /\ reply' = [reply EXCEPT ![w] = Append(@, Line(c, "LINE", c.lo, NoValue))]
    <3>1. reply' = [reply EXCEPT ![w] = @ \o <<Line(c, "LINE", c.lo, NoValue)>>]
      BY <2>0, <2>2
    <3> QED BY <2>2, <3>1
  <2>3. CASE reply' = [reply EXCEPT ![w] = Append(@, Line(c, "ERROR", 0, NoValue))] /\ UNCHANGED data
    <3>1. reply' = [reply EXCEPT ![w] = @ \o <<Line(c, "ERROR", 0, NoValue)>>]
      BY <2>0, <2>3
    <3> QED BY <2>3, <3>1
  <2> QED BY <1>2, <2>1, <2>2, <2>3 DEF Serve
<1>4. /\ request[w] \in Seq(Command) /\ c \in Command
      /\ request' \in [Workers -> Seq(Command)] /\ request'[w] = Tail(request[w])
      /\ \A v \in Workers : v # w => request'[v] = request[v]
  <2>1. request \in [Workers -> Seq(Command)]
    BY DEF IInv, TypeInv
  <2>2. PICK q : q = request[w]
    OBVIOUS
  <2>3. q \in Seq(Command) /\ q # <<>>
    BY <1>1, <2>1, <2>2
  <2>4. Head(q) \in Command /\ Tail(q) \in Seq(Command)
    BY <2>3
  <2> QED BY <1>1, <1>2, <2>1, <2>2, <2>3, <2>4
<1>5. c.op \in {"PUT", "DELETE"} => c.lo \in Chars /\ InRange(c.lo, WORKER_RANGES[w])
  <2>1. 1 \in DOMAIN request[w] /\ c = request[w][1]
    <3>1. PICK q \in Seq(Command) : q = request[w]
      BY <1>4
    <3> QED BY <1>1, <1>2, <3>1
  <2> QED BY <2>1 DEF IInv, RouteInv
<1>6. /\ stored' \in [Chars -> Vals] /\ DataInv'
      /\ steady' \in SUBSET steady /\ seen \subseteq seen'
  <2>1. \/ c.op = "PUT" /\ Store(c.lo, c.val)
        \/ c.op = "DELETE" /\ Store(c.lo, NoValue)
        \/ steady' \in SUBSET steady /\ UNCHANGED <<stored, seen>>
    BY <1>3 DEF data
  <2>2. TypeInv /\ DataInv
    BY DEF IInv
  <2>3. c.val \in Vals /\ NoValue \in Vals
    BY <1>4 DEF Command, Vals
  <2>4. CASE c.op = "PUT" /\ Store(c.lo, c.val)
    BY <1>5, <2>2, <2>3, <2>4, StoreFacts
  <2>5. CASE c.op = "DELETE" /\ Store(c.lo, NoValue)
    BY <1>5, <2>2, <2>3, <2>5, StoreFacts
  <2>6. CASE steady' \in SUBSET steady /\ UNCHANGED <<stored, seen>>
    BY <2>2, <2>6 DEF TypeInv, DataInv, Present
  <2> QED BY <2>1, <2>4, <2>5, <2>6
<1>7. /\ a \in Seq(ReplyLine) /\ \A i \in DOMAIN a : a[i].n = c.n
      /\ c.op # "SCAN" => Len(a) = 1
      /\ c.op = "SCAN" => ScanLines(a, c, w, steady', seen')
  <2>1. \A kind \in {"LINE", "ERROR"}, k \in Nat :
          Line(c, kind, k, NoValue) \in ReplyLine /\ Line(c, kind, k, NoValue).n = c.n
          /\ Line(c, kind, k, NoValue).kind = kind
    BY <1>4 DEF Line, ReplyLine, Command, Vals
  <2>2. \/ c.op = "SCAN" /\ a = ScanReply(c, w, unread) /\ steady' = steady \ unread /\ seen' = seen
        \/ c.op # "SCAN" /\ a = <<Line(c, "LINE", c.lo, NoValue)>>
        \/ a = <<Line(c, "ERROR", 0, NoValue)>>
    BY <1>3
  <2>3. c.lo \in Nat /\ 0 \in Nat
    BY <1>4 DEF Command
  <2>4. CASE c.op = "SCAN" /\ a = ScanReply(c, w, unread) /\ steady' = steady \ unread /\ seen' = seen
    <3>1. /\ a \in Seq(ReplyLine) /\ \A i \in DOMAIN a : a[i].n = c.n
          /\ ScanLines(a, c, w, steady \ unread, seen)
      <4>1. TypeInv /\ DataInv /\ c \in Command
        BY <1>4 DEF IInv
      <4>2. /\ ScanReply(c, w, unread) \in Seq(ReplyLine)
            /\ \A i \in DOMAIN ScanReply(c, w, unread) : ScanReply(c, w, unread)[i].n = c.n
            /\ ScanLines(ScanReply(c, w, unread), c, w, steady \ unread, seen)
        BY <4>1, ReplyLines, Zenon
      <4> QED BY <2>4, <4>2, Zenon
    <3> QED BY <2>4, <3>1
  <2>5. ASSUME NEW l \in ReplyLine, l.n = c.n, l.kind \in {"LINE", "ERROR"}, a = <<l>>
        PROVE  /\ a \in Seq(ReplyLine) /\ \A i \in DOMAIN a : a[i].n = c.n
               /\ Len(a) = 1 /\ ScanLines(a, c, w, steady', seen')
    <3>1. a \in Seq(ReplyLine) /\ Len(a) = 1 /\ DOMAIN a = {1} /\ a[1] = l
      BY <2>5
    <3>2. ScanLines(a, c, w, steady', seen')
      BY <2>5, <3>1 DEF ScanLines
    <3> QED BY <2>5, <3>1, <3>2
  <2>6. CASE c.op # "SCAN" /\ a = <<Line(c, "LINE", c.lo, NoValue)>>
    BY <2>1, <2>3, <2>5, <2>6
  <2>7. CASE a = <<Line(c, "ERROR", 0, NoValue)>>
    BY <2>1, <2>3, <2>5, <2>7
  <2> QED BY <2>2, <2>4, <2>6, <2>7
<1>8. /\ reply' \in [Workers -> Seq(ReplyLine)] /\ reply'[w] = reply[w] \o a
      /\ \A v \in Workers : v # w => reply'[v] = reply[v]
  <2>1. reply \in [Workers -> Seq(ReplyLine)]
    BY DEF IInv, TypeInv
  <2>2. reply[w] \o a \in Seq(ReplyLine)
    <3>1. reply[w] \in Seq(ReplyLine) /\ a \in Seq(ReplyLine)
      BY <1>7, <2>1
    <3>2. \A s, t \in Seq(ReplyLine) : s \o t \in Seq(ReplyLine)
      OBVIOUS
    <3> QED BY <3>1, <3>2, Zenon
  <2> QED BY <1>3, <2>1, <2>2
<1>0. <<>> \o a = a
  <2>1. a \in Seq(ReplyLine)
    BY <1>7
  <2> QED BY <2>1
<1>9. TypeInv'
  BY <1>1, <1>4, <1>6, <1>8 DEF IInv, TypeInv, client
<1>10. RouteInv'
  <2>1. ASSUME NEW v \in Workers, NEW i \in DOMAIN request'[v]
        PROVE  \E j \in DOMAIN request[v] : request'[v][i] = request[v][j]
    <3>1. CASE v = w
      <4>1. PICK q \in Seq(Command) : q = request[w]
        BY <1>4
      <4>2. request'[w] = Tail(q) /\ q # <<>>
        BY <1>1, <1>4, <4>1
      <4>3. i \in DOMAIN Tail(q)
        BY <2>1, <3>1, <4>2
      <4>4. i + 1 \in DOMAIN q /\ Tail(q)[i] = q[i + 1]
        BY <4>2, <4>3
      <4> QED BY <3>1, <4>1, <4>2, <4>4
    <3>2. CASE v # w
      <4>1. request'[v] = request[v]
        BY <1>4, <3>2
      <4> QED BY <2>1, <4>1
    <3> QED BY <3>1, <3>2
  <2> QED BY <1>1, <2>1 DEF IInv, RouteInv, client, find_worker_for_key
<1>11. ExchangeInv'
  <2>1. /\ slave_fds' = slave_fds /\ pc' = pc /\ idx' = idx /\ response' = response /\ cmd' = cmd
        /\ cut' = cut
    BY <1>1 DEF client
  <2>2. \A v \in Workers : slave_fds'[v] # "up" => request'[v] = <<>>
    BY <1>1, <1>4, <2>1 DEF IInv, ExchangeInv
  <2>3. ASSUME ~cut
        PROVE  /\ Busy(w) /\ c = cmd /\ reply'[w] = a
               /\ \A v \in Workers : request'[v] = <<>> /\ (v # w => reply'[v] = <<>>)
               /\ pc = "scanread" => response = <<>>
    <3>1. Busy(w) /\ request[w] = <<cmd>> /\ reply[w] = <<>>
      BY <1>1, <2>3 DEF IInv, ExchangeInv
    <3>2. c = cmd /\ Tail(request[w]) = <<>>
      BY <1>2, <3>1
    <3>3. reply'[w] = a
      BY <1>0, <1>8, <3>1
    <3>4. \A v \in Workers : v # w => request[v] = <<>> /\ reply[v] = <<>>
      BY <2>3, <3>1 DEF IInv, ExchangeInv, Busy
    <3>5. pc = "scanread" => response = <<>>
      BY <1>1, <2>3, <3>1 DEF IInv, ExchangeInv, Busy
    <3> QED BY <1>4, <1>8, <3>1, <3>2, <3>3, <3>4, <3>5
  <2>4. ASSUME ~cut
        PROVE  /\ pc = "read" => Len(reply'[idx]) <= 1
               /\ pc = "scanread" => ScanLines(response \o reply'[idx], cmd, idx, steady', seen')
               /\ \A v \in Workers : \A i \in DOMAIN reply'[v] : reply'[v][i].n = cmd.n
    <3>1. Busy(w) /\ c = cmd /\ reply'[w] = a /\ idx = w /\ pc \in {"read", "scanread"}
      BY <2>3, <2>4 DEF Busy
    <3>2. pc = "read" => Len(reply'[idx]) <= 1
      <4>1. pc = "read" => cmd.op # "SCAN"
        BY DEF IInv, RouteInv
      <4>2. pc = "read" => Len(a) = 1
        BY <1>7, <3>1, <4>1
      <4>3. pc = "read" => Len(reply'[idx]) = 1
        BY <3>1, <4>2
      <4>4. 1 <= 1
        OBVIOUS
      <4> QED BY <4>3, <4>4, Zenon
    <3>3. pc = "scanread" => ScanLines(response \o reply'[idx], cmd, idx, steady', seen')
      <4> SUFFICES ASSUME pc = "scanread"
                   PROVE  ScanLines(response \o reply'[idx], cmd, idx, steady', seen')
        OBVIOUS
      <4>1. cmd.op = "SCAN"
        BY DEF IInv, RouteInv
      <4>2. ScanLines(a, cmd, idx, steady', seen')
        BY <1>7, <3>1, <4>1
      <4>4. response \o reply'[idx] = a
        BY <1>0, <2>3, <2>4, <3>1
      <4> QED BY <4>2, <4>4
    <3>4. \A v \in Workers : \A i \in DOMAIN reply'[v] : reply'[v][i].n = cmd.n
      <4>1. \A v \in Workers : v # w => DOMAIN reply'[v] = {}
        BY <2>3, <2>4
      <4> QED BY <1>7, <3>1, <4>1
    <3> QED BY <3>2, <3>3, <3>4
  <2> QED BY <2>1, <2>2, <2>3, <2>4 DEF ExchangeInv, Busy
<1>12. CollectInv'
  <2>1. /\ InOrder(all_results, idx, seen) => InOrder(all_results, idx, seen')
        /\ HasAll(all_results, cmd, idx, steady, seen) => HasAll(all_results, cmd, idx, steady', seen')
    BY <1>6, CollectedLater
  <2> QED BY <1>1, <2>1 DEF IInv, CollectInv, client
<1>13. ScanComplete'
  BY <1>1, <1>6 DEF IInv, ScanComplete, client
<1> QED BY <1>6, <1>9, <1>10, <1>11, <1>12, <1>13 DEF IInv

(* A slave crashes: its requests are lost, and its reply may break off. *)
LEMMA SlaveCrashStep ==
  ASSUME IInv, NEW w \in Workers, SlaveCrash(w)
  PROVE  IInv'
<1>1. /\ request' = [request EXCEPT ![w] = <<>>] /\ UNCHANGED <<client, data, commands>>
  BY DEF SlaveCrash
<1>2. PICK a, q : a = slave_fds'[w] /\ q = reply'[w]
  OBVIOUS
<1>3. /\ slave_fds \in [Workers -> {"none", "up", "fin", "reset"}]
      /\ request \in [Workers -> Seq(Command)] /\ reply \in [Workers -> Seq(ReplyLine)]
      /\ reply[w] \in Seq(ReplyLine)
  BY DEF IInv, TypeInv
<1>4. /\ slave_fds' \in [Workers -> {"none", "up", "fin", "reset"}]
      /\ \A v \in Workers : v # w => slave_fds'[v] = slave_fds[v]
  BY <1>3 DEF SlaveCrash
<1>5. \E n \in 0 .. Len(reply[w]) : reply' = [reply EXCEPT ![w] = SubSeq(reply[w], 1, n)]
  <2>1. 0 \in 0 .. Len(reply[w]) /\ Len(reply[w]) \in 0 .. Len(reply[w])
    BY <1>3
  <2>2. CASE UNCHANGED reply
    <3>1. reply[w] = SubSeq(reply[w], 1, Len(reply[w]))
      BY <1>3
    <3>2. reply' = [reply EXCEPT ![w] = SubSeq(reply[w], 1, Len(reply[w]))]
      BY <1>3, <2>2, <3>1
    <3> QED BY <2>1, <3>2
  <2>3. CASE \E n \in 0 .. Len(reply[w]) : reply' = [reply EXCEPT ![w] = SubSeq(@, 1, n)]
    BY <2>3
  <2>4. CASE reply' = [reply EXCEPT ![w] = <<>>]
    <3>1. SubSeq(reply[w], 1, 0) = <<>>
      BY <1>3
    <3> QED BY <2>1, <2>4, <3>1
  <2> QED BY <2>2, <2>3, <2>4 DEF SlaveCrash
<1>6. PICK p : p = reply[w]
  OBVIOUS
<1>7. PICK n \in 0 .. Len(p) : reply' = [reply EXCEPT ![w] = SubSeq(p, 1, n)]
  BY <1>5, <1>6
<1>8. /\ p \in Seq(ReplyLine) /\ q = SubSeq(p, 1, n) /\ reply' \in [Workers -> Seq(ReplyLine)]
      /\ q \in Seq(ReplyLine) /\ Len(q) = n /\ \A i \in 1 .. n : q[i] = p[i]
      /\ \A v \in Workers : v # w => reply'[v] = reply[v]
  <2>1. p \in Seq(ReplyLine)
    BY <1>3, <1>6
  <2>2. PICK s : s = SubSeq(p, 1, n)
    OBVIOUS
  <2>3. s \in Seq(ReplyLine) /\ Len(s) = n /\ \A i \in 1 .. n : s[i] = p[i]
    BY <1>7, <2>1, <2>2
  <2>4. reply'[w] = s /\ reply' \in [Workers -> Seq(ReplyLine)]
        /\ \A v \in Workers : v # w => reply'[v] = reply[v]
    BY <1>3, <1>7, <2>2, <2>3
  <2> QED BY <1>2, <2>1, <2>2, <2>3, <2>4
<1>9. /\ request' \in [Workers -> Seq(Command)] /\ request'[w] = <<>>
      /\ \A v \in Workers : v # w => request'[v] = request[v]
  BY <1>1, <1>3
<1>10. TypeInv'
  BY <1>1, <1>4, <1>8, <1>9 DEF IInv, TypeInv, client, data
<1>11. RouteInv'
  <2>1. \A v \in Workers : \A i \in DOMAIN request'[v] : request'[v] = request[v]
    BY <1>9
  <2> QED BY <1>1, <2>1 DEF IInv, RouteInv, client, find_worker_for_key
<1>12. DataInv'
  BY <1>1 DEF IInv, DataInv, data
<1>13. ExchangeInv'
  <2>1. /\ pc' = pc /\ idx' = idx /\ response' = response /\ cmd' = cmd /\ cut' = cut
        /\ steady' = steady /\ seen' = seen
    BY <1>1 DEF client, data
  <2>2. \A v \in Workers : slave_fds'[v] # "up" => request'[v] = <<>>
    BY <1>4, <1>9 DEF IInv, ExchangeInv
  <2>3. reply[w] = <<>> => reply'[w] = <<>>
    <3>1. p = <<>> => Len(q) = 0
      BY <1>7, <1>8
    <3> QED BY <1>2, <1>6, <1>8, <3>1, EmptySeq
  <2>4. ASSUME ~cut
        PROVE  /\ \A v \in Workers : ~Busy(v) => request'[v] = <<>> /\ reply'[v] = <<>>
               /\ \A v \in Workers : request'[v] # <<>> => request'[v] = <<cmd>> /\ reply'[v] = <<>>
    BY <1>8, <1>9, <2>3, <2>4 DEF IInv, ExchangeInv
  <2>5. ASSUME ~cut, NEW v \in Workers, NEW i \in DOMAIN reply'[v] PROVE reply'[v][i].n = cmd.n
    <3>1. \A j \in DOMAIN reply[v] : reply[v][j].n = cmd.n
      BY <2>5 DEF IInv, ExchangeInv
    <3>2. CASE v # w
      <4>1. reply'[v] = reply[v]
        BY <1>8, <3>2
      <4> QED BY <2>5, <3>1, <4>1
    <3>3. CASE v = w
      <4>1. i \in DOMAIN q /\ reply'[v][i] = q[i]
        BY <1>2, <2>5, <3>3
      <4>2. PICK m \in Nat : m = Len(p)
        BY <1>8
      <4>3. i \in 1 .. n /\ n \in 0 .. m /\ DOMAIN p = 1 .. m
        BY <1>7, <1>8, <4>1, <4>2
      <4>4. i \in DOMAIN p /\ q[i] = p[i]
        BY <1>8, <4>3
      <4> QED BY <1>6, <3>1, <3>3, <4>1, <4>4
    <3> QED BY <3>2, <3>3
  <2>6. ASSUME ~cut, pc = "read" PROVE Len(reply'[idx]) <= 1
    <3>1. Len(reply[idx]) <= 1 /\ idx \in Workers
      BY <2>6 DEF IInv, ExchangeInv, RouteInv
    <3>2. CASE idx # w
      <4>1. reply'[idx] = reply[idx]
        BY <1>8, <3>1, <3>2
      <4> QED BY <3>1, <4>1
    <3>3. CASE idx = w
      <4>1. PICK m \in Nat : m = Len(p)
        BY <1>8
      <4>2. m <= 1 /\ n <= m /\ n \in Nat
        BY <1>6, <1>7, <3>1, <3>3, <4>1
      <4>3. n <= 1
        BY <4>2
      <4>4. Len(reply'[idx]) = n
        BY <1>2, <1>8, <3>3
      <4> QED BY <4>3, <4>4
    <3> QED BY <3>2, <3>3
  <2>7. ASSUME ~cut, pc = "scanread"
        PROVE  /\ request'[idx] # <<>> => response = <<>>
               /\ ScanLines(response \o reply'[idx], cmd, idx, steady, seen)
    <3>1. /\ request[idx] # <<>> => response = <<>>
          /\ ScanLines(response \o reply[idx], cmd, idx, steady, seen)
          /\ idx \in Workers /\ response \in Seq(ReplyLine)
      BY <2>7 DEF IInv, ExchangeInv, RouteInv, TypeInv
    <3>2. CASE idx # w
      <4>1. reply'[idx] = reply[idx] /\ request'[idx] = request[idx]
        BY <1>8, <1>9, <3>1, <3>2
      <4> QED BY <3>1, <4>1
    <3>3. CASE idx = w
      <4>1. PICK r \in Seq(ReplyLine) : r = response
        BY <3>1
      <4>2. r \o p \in Seq(ReplyLine) /\ r \o q \in Seq(ReplyLine)
        BY <1>8
      <4>3. PICK x \in Nat, m \in Nat : x = Len(r) /\ m = Len(p)
        BY <1>8
      <4>4. n \in Nat /\ n <= m
        BY <1>7, <4>3
      <4>5. /\ Len(r \o p) = x + m /\ \A i \in 1 .. x : (r \o p)[i] = r[i]
            /\ \A i \in x + 1 .. x + m : (r \o p)[i] = p[i - x]
        BY <1>8, <4>3
      <4>6. /\ Len(r \o q) = x + n /\ \A i \in 1 .. x : (r \o q)[i] = r[i]
            /\ \A i \in x + 1 .. x + n : (r \o q)[i] = q[i - x]
        BY <1>8, <4>3, <4>4
      <4>7. ASSUME NEW i \in 1 .. x + n PROVE (r \o q)[i] = (r \o p)[i]
        <5>1. CASE i <= x
          <6>1. i \in 1 .. x
            BY <5>1
          <6> QED BY <4>5, <4>6, <6>1
        <5>2. CASE i > x
          <6>1. PICK j \in Nat : j = i - x
            BY <5>2
          <6>2. i \in x + 1 .. x + n /\ i \in x + 1 .. x + m /\ j \in 1 .. n
            BY <4>4, <5>2, <6>1
          <6>3. (r \o q)[i] = q[j] /\ (r \o p)[i] = p[j]
            BY <4>5, <4>6, <6>1, <6>2
          <6> QED BY <1>8, <6>2, <6>3
        <5>3. i <= x \/ i > x
          BY <4>4
        <5> QED BY <5>1, <5>2, <5>3, Zenon
      <4>8. Len(r \o q) <= Len(r \o p) /\ \A i \in 1 .. Len(r \o q) : (r \o q)[i] = (r \o p)[i]
        <5>1. x + n <= x + m
          BY <4>4
        <5> QED BY <4>5, <4>6, <4>7, <5>1
      <4>9. ScanLines(r \o p, cmd, idx, steady, seen)
        BY <1>6, <3>1, <3>3, <4>1
      <4>10. ScanLines(r \o q, cmd, idx, steady, seen)
        BY <4>2, <4>8, <4>9, LinesCutOff
      <4> QED BY <1>2, <1>9, <3>3, <4>1, <4>10
    <3> QED BY <3>2, <3>3
  <2> SUFFICES ASSUME ~cut'
        PROVE  /\ \A v \in Workers : ~Busy(v)' => request'[v] = <<>> /\ reply'[v] = <<>>
               /\ \A v \in Workers : request'[v] # <<>> => request'[v] = <<cmd'>> /\ reply'[v] = <<>>
               /\ \A v \in Workers : \A i \in DOMAIN reply'[v] : reply'[v][i].n = cmd'.n
               /\ pc' = "read" => Len(reply'[idx']) <= 1
               /\ pc' = "scan" => response' = <<>>
               /\ pc' = "scanread" =>
                    /\ request'[idx'] # <<>> => response' = <<>>
                    /\ ScanLines(response' \o reply'[idx'], cmd', idx', steady', seen')
    BY <2>2 DEF ExchangeInv
  <2>8. ~cut
    BY <2>1
  <2>9. \A v \in Workers : Busy(v)' = Busy(v)
    BY <2>1 DEF Busy
  <2>10. pc' = "scan" => response' = <<>>
    BY <2>1, <2>8 DEF IInv, ExchangeInv
  <2>11. pc' = "read" => Len(reply'[idx']) <= 1
    BY <2>1, <2>6, <2>8
  <2>12. pc' = "scanread" =>
           /\ request'[idx'] # <<>> => response' = <<>>
           /\ ScanLines(response' \o reply'[idx'], cmd', idx', steady', seen')
    BY <2>1, <2>7, <2>8
  <2>13. /\ \A v \in Workers : ~Busy(v)' => request'[v] = <<>> /\ reply'[v] = <<>>
         /\ \A v \in Workers : request'[v] # <<>> => request'[v] = <<cmd'>> /\ reply'[v] = <<>>
    BY <2>1, <2>4, <2>8, <2>9
  <2>14. \A v \in Workers : \A i \in DOMAIN reply'[v] : reply'[v][i].n = cmd'.n
    BY <2>1, <2>5, <2>8
  <2> QED BY <2>10, <2>11, <2>12, <2>13, <2>14
<1>14. CollectInv'
  BY <1>1 DEF IInv, CollectInv, client, data
<1>15. ScanComplete'
  BY <1>1 DEF IInv, ScanComplete, client, data
<1> QED BY <1>10, <1>11, <1>12, <1>13, <1>14, <1>15 DEF IInv

-----------------------------------------------------------------------------
(* Every step, and the results *)

(* Only workers run as slaves. *)
UpInv == up \subseteq Workers

(* A client that starts has an empty table, no connections and no data. *)
LEMMA InitIInv == Init => IInv /\ UpInv
<1> SUFFICES ASSUME Init PROVE IInv /\ UpInv
  OBVIOUS
<1>1. <<>> \in Seq(ReplyLine) /\ <<>> \in Seq(Nat \X Vals) /\ <<>> \in Seq(Command)
  OBVIOUS
<1>2. NoCmd \in Command
  BY DEF NoCmd, Command, Vals
<1>3. TypeInv
  <2>1. <<>> \in Tables
    BY DEF Tables
  <2>2. route_table \in Tables /\ cmd \in Command
    BY <1>2, <2>1 DEF Init
  <2>3. response \in Seq(ReplyLine) /\ all_results \in Seq(Nat \X Vals)
    BY <1>1, Zenon DEF Init
  <2>4. request \in [Workers -> Seq(Command)] /\ reply \in [Workers -> Seq(ReplyLine)]
    BY <1>1 DEF Init
  <2>5. stored \in [Chars -> Vals]
    BY DEF Init, Vals
  <2> QED BY <2>2, <2>3, <2>4, <2>5 DEF Init, TypeInv
<1>4. RouteInv
  BY DEF Init, RouteInv
<1>5. DataInv
  BY DEF Init, DataInv, Present
<1>6. ExchangeInv
  BY DEF Init, ExchangeInv
<1>7. CollectInv /\ ScanComplete
  BY DEF Init, CollectInv, ScanComplete
<1>8. UpInv
  BY DEF Init, UpInv
<1> QED BY <1>3, <1>4, <1>5, <1>6, <1>7, <1>8 DEF IInv

(* Every step preserves the invariant. *)
LEMMA NextIInv ==
  ASSUME IInv, UpInv, [Next]_vars
  PROVE  IInv' /\ UpInv'
<1>1. CASE UNCHANGED vars
  BY <1>1, SameState DEF vars, counts, UpInv
<1>2. CASE Hello \/ Quit
  BY <1>2, IdleSteps DEF Hello, Quit, UpInv
<1>3. CASE ScanRequest
  BY <1>3, ScanRequestStep DEF ScanRequest, UpInv
<1>4. CASE ReadFails
  BY <1>4, ReadFailsStep DEF ReadFails, UpInv
<1>5. ASSUME NEW n, ReadReply(n) PROVE IInv' /\ UpInv'
  BY <1>5, ReadReplyStep DEF ReadReply, UpInv
<1>6. ASSUME NEW n, ScanRead(n) PROVE IInv' /\ UpInv'
  BY <1>6, ScanReadStep DEF ScanRead, UpInv
<1>7. ASSUME NEW k \in Chars, NEW hi \in Chars, Scan(k, hi) PROVE IInv' /\ UpInv'
  BY <1>7, ScanStep DEF Scan, UpInv
<1>8. ASSUME NEW k \in Chars, NEW v \in Vals, OtherWrite(k, v) PROVE IInv' /\ UpInv'
  BY <1>8, OtherWriteStep DEF OtherWrite, UpInv
<1>9. ASSUME NEW w \in Workers, Serve(w) PROVE IInv' /\ UpInv'
  BY <1>9, ServeStep DEF Serve, UpInv
<1>10. ASSUME NEW w \in Workers, SlaveCrash(w) PROVE IInv' /\ UpInv'
  BY <1>10, SlaveCrashStep DEF SlaveCrash, UpInv
<1>11. ASSUME NEW w \in Workers, SlaveStart(w) PROVE IInv' /\ UpInv'
  BY <1>11, SameState DEF SlaveStart, UpInv, counts
<1>12. ASSUME NEW c, NEW w, Single(c, w) PROVE UpInv'
  BY <1>12 DEF Single, UpInv
<1>13. CASE \/ \E k \in Chars : \/ \E v \in Values : KeyCommand("PUT", k, v)
                                \/ \E op \in {"GET", "DELETE"} : KeyCommand(op, k, NoValue)
            \/ \E w \in Workers : GcCommand(w)
  <2>1. IInv'
    BY <1>13, CommandSteps
  <2>2. UpInv'
    BY <1>12, <1>13 DEF KeyCommand, GcCommand
  <2> QED BY <2>1, <2>2
<1> QED
  BY <1>1, <1>2, <1>3, <1>4, <1>5, <1>6, <1>7, <1>8, <1>9, <1>10, <1>11, <1>13
  DEF Next, ClientStep, Vals

(* The invariant holds in every reachable state. *)
LEMMA Invariant == Spec => [](IInv /\ UpInv)
<1>1. Init => IInv /\ UpInv
  BY InitIInv
<1>2. IInv /\ UpInv /\ [Next]_vars => (IInv /\ UpInv)'
  BY NextIInv
<1> QED BY <1>1, <1>2, PTL DEF Spec

(* Requests go to the worker whose range has the key, also with a route     *)
(* table that was received incompletely (find_worker_for_key).              *)
THEOREM RoutedToOwner == Spec => []SentToOwner
<1>1. IInv => SentToOwner
  BY DEF IInv, RouteInv, SentToOwner
<1> QED BY <1>1, Invariant, PTL

(* No line is left behind for a later command, except by a value that ends  *)
(* in END (read_slave_response, read_slave_range_response).                 *)
THEOREM RepliesInStep == Spec => []RepliesMatch
<1>1. IInv => RepliesMatch
  <2> SUFFICES ASSUME IInv, ~cut, NEW w \in Workers, NEW i \in DOMAIN reply[w]
               PROVE  pc \in {"read", "scanread"} /\ idx = w /\ reply[w][i].n = cmd.n
    BY DEF RepliesMatch
  <2>1. reply[w] # <<>>
    OBVIOUS
  <2>2. Busy(w)
    BY <2>1 DEF IInv, ExchangeInv
  <2>3. reply[w][i].n = cmd.n
    BY DEF IInv, ExchangeInv
  <2> QED BY <2>2, <2>3 DEF Busy
<1> QED BY <1>1, Invariant, PTL

(* A SCAN that reached all its workers is in order, has only pairs that     *)
(* were stored during the SCAN, and has every key that was there all the    *)
(* time and that its slave could read (handle_scan, process_command),       *)
(* whatever other clients write meanwhile.                                  *)
THEOREM ScansComplete == Spec => []ScanComplete
<1>1. IInv => ScanComplete
  BY DEF IInv
<1> QED BY <1>1, Invariant, PTL
=============================================================================
