------------------------------- MODULE Client -------------------------------
(***************************************************************************)
(* A client (distributed/client.cc) with the routing of master.cc and the  *)
(* client side of process_command in slave.cc.                             *)
(*                                                                         *)
(* The client runs one command at a time.  It keeps the route table of its *)
(* last HELLO and one connection per slave; on a connection it writes a    *)
(* request and reads lines until it believes that the reply is complete.   *)
(* Slaves crash and restart, other clients write, and read() returns any   *)
(* part of what has arrived.  A key is represented by its first character. *)
(* A request is served in one step; SlaveGC has the detail.                *)
(***************************************************************************)
EXTENDS Integers, Sequences, FiniteSets

CONSTANTS
  WORKER_COUNT,
  WORKER_RANGES, \* worker -> <<first, last>> character
  Chars,         \* first characters of keys; those in no range are not ASCII
  ErrorKeys,     \* keys that contain "ERROR"
  Values,
  EndValues,     \* values that end in "END"
  MaxCommands,   \* bound: commands of the client
  MaxWrites,     \* bound: writes of other clients
  MaxCrashes,    \* bound: crashes of slaves
  MaxErrors      \* bound: requests the master fails or cannot be asked, and
                 \* SCANs with values that a slave cannot read

Workers == 0 .. WORKER_COUNT - 1
NoValue == "none"

ASSUME ClientAssumption ==
  /\ WORKER_COUNT \in Nat \ {0} /\ Chars \subseteq Nat /\ IsFiniteSet(Chars)
  /\ WORKER_RANGES \in [Workers -> Nat \X Nat]
  /\ \A v, w \in Workers : v < w => WORKER_RANGES[v][2] < WORKER_RANGES[w][1]
  /\ ErrorKeys \subseteq Chars /\ EndValues \subseteq Values /\ NoValue \notin Values
  /\ MaxCommands \in Nat /\ MaxWrites \in Nat /\ MaxCrashes \in Nat /\ MaxErrors \in Nat

VARIABLES
  route_table, \* sequence of [index, first, last]
  slave_fds,   \* worker -> "none", "up", "fin" (closed by the slave), "reset"
  request,     \* worker -> requests on the connection
  reply,       \* worker -> lines of replies on the connection
  pc,          \* "prompt", "read", "scan", "scanread" or "exit"
  cmd,         \* the command being run
  idx,         \* the worker it talks to
  response,    \* lines read so far
  all_results, \* pairs a SCAN has collected
  printed,     \* what the last command ended with
  up,          \* slaves that run
  stored,      \* key -> value, at the master and the slaves
  steady,      \* history: keys present since the SCAN began, with values that
               \* the slaves could read
  seen,        \* history: pairs that were stored at some time since then
  cut,         \* history: a reply was taken for complete at a value ending in END
  commands, writes, crashes, errors

client == <<route_table, pc, cmd, idx, response, all_results, printed, cut>>
net    == <<slave_fds, request, reply>>
data   == <<stored, steady, seen>>
counts == <<commands, writes, crashes, errors>>
vars   == <<client, net, up, data, counts>>

NoCmd == [op |-> "none", n |-> 0, lo |-> 0, hi |-> 0, val |-> NoValue]
Present(m) == {k \in Chars : m[k] # NoValue}

\* The elements of a finite set of numbers, in order.
Ascending(S) ==
  CHOOSE q \in [1 .. Cardinality(S) -> S] : \A i, j \in DOMAIN q : i < j => q[i] < q[j]

Init ==
  /\ route_table = <<>> /\ pc = "prompt" /\ cmd = NoCmd /\ idx = 0
  /\ response = <<>> /\ all_results = <<>> /\ printed = "nothing" /\ cut = FALSE
  /\ slave_fds = [w \in Workers |-> "none"]
  /\ request = [w \in Workers |-> <<>>] /\ reply = [w \in Workers |-> <<>>]
  /\ up = Workers /\ stored = [k \in Chars |-> NoValue] /\ steady = {} /\ seen = {}
  /\ commands = 0 /\ writes = 0 /\ crashes = 0 /\ errors = 0

-----------------------------------------------------------------------------
(* Routing *)

InRange(ch, range) == range[1] <= ch /\ ch <= range[2]

\* build_route_table
FullTable ==
  [i \in 1 .. WORKER_COUNT |->
     [index |-> i - 1, first |-> WORKER_RANGES[i - 1][1], last |-> WORKER_RANGES[i - 1][2]]]

\* What parse_route_table makes of a reply that ends early: lines are missing,
\* and the last range_end may lack digits.
Tables ==
  {FullTable, <<>>} \cup
  UNION {{[SubSeq(FullTable, 1, n) EXCEPT ![n].last = l] : l \in 0 .. FullTable[n].last} :
           n \in 1 .. WORKER_COUNT}

\* Faulty variant: the last character of a range is left to the next worker.
find_worker_for_key_open(key) ==
  IF \E i \in DOMAIN route_table : InRange(key, <<route_table[i].first, route_table[i].last + 1>>)
  THEN LET i == CHOOSE i \in DOMAIN route_table :
                  /\ InRange(key, <<route_table[i].first, route_table[i].last + 1>>)
                  /\ \A j \in i + 1 .. Len(route_table) :
                       ~InRange(key, <<route_table[j].first, route_table[j].last + 1>>)
       IN  route_table[i].index
  ELSE -1

find_worker_for_key(key) ==
  IF \E i \in DOMAIN route_table : InRange(key, <<route_table[i].first, route_table[i].last>>)
  THEN LET i == CHOOSE i \in DOMAIN route_table :
                  /\ InRange(key, <<route_table[i].first, route_table[i].last>>)
                  /\ \A j \in 1 .. i - 1 :
                       ~InRange(key, <<route_table[j].first, route_table[j].last>>)
       IN  route_table[i].index
  ELSE -1

\* HELLO.  Without a connection to the master nothing changes; a number cut
\* off entirely makes stoi throw, which ends the client.
Hello ==
  /\ pc = "prompt" /\ commands < MaxCommands
  /\ commands' = commands + 1
  /\ \/ route_table' \in Tables /\ pc' = pc
     \/ route_table' = <<>> /\ pc' = "exit"
  /\ printed' = "hello"
  /\ UNCHANGED <<cmd, idx, response, all_results, cut, net, up, data, writes, crashes, errors>>

-----------------------------------------------------------------------------
(* Requests and replies *)

\* get_slave_fd has or makes a connection to worker w.
Connected(w) == slave_fds[w] # "none" \/ (w < Len(route_table) /\ w \in up)

\* get_slave_fd and write().  After a reset the write fails and the entry is
\* erased; after the end of the stream it succeeds and provokes a reset.
Written(w, c) ==
  /\ slave_fds' = [slave_fds EXCEPT ![w] = CASE @ \in {"none", "up"} -> "up"
                                             [] @ = "fin"   -> "reset"
                                             [] @ = "reset" -> "none"]
  /\ request' = IF slave_fds'[w] = "up" THEN [request EXCEPT ![w] = Append(@, c)] ELSE request
  /\ UNCHANGED reply

Begin(c) ==
  /\ pc = "prompt" /\ commands < MaxCommands
  /\ commands' = commands + 1
  /\ cmd' = c
  /\ response' = <<>>

\* PUT, GET, DELETE and GC, with w the worker for the key or of the GC.
Single(c, w) ==
  /\ Begin(c)
  /\ idx' = w
  /\ IF w < 0 \/ ~Connected(w)
     THEN /\ pc' = pc /\ printed' = (IF w < 0 THEN "no slave" ELSE "no connection")
          /\ UNCHANGED net
     ELSE /\ Written(w, c)
          /\ IF slave_fds[w] = "reset" THEN pc' = pc /\ printed' = "failed"
             ELSE pc' = "read" /\ UNCHANGED printed
  /\ UNCHANGED <<route_table, all_results, cut, up, data, writes, crashes, errors>>

KeyCommand(op, k, v) ==
  Single([op |-> op, n |-> commands + 1, lo |-> k, hi |-> k, val |-> v], find_worker_for_key(k))

GcCommand(w) ==
  /\ w < Len(route_table)
  /\ Single([op |-> "GC", n |-> commands + 1, lo |-> 0, hi |-> 0, val |-> NoValue], w)

\* SCAN: the workers from that of the first key to that of the last.
Scan(lo, hi) ==
  /\ lo <= hi
  /\ Begin([op |-> "SCAN", n |-> commands + 1, lo |-> lo, hi |-> hi, val |-> NoValue])
  /\ LET first == find_worker_for_key(lo)
     IN  /\ idx' = first
         /\ IF first < 0 \/ find_worker_for_key(hi) < 0
            THEN pc' = pc /\ printed' = "no slave"
            ELSE pc' = "scan" /\ printed' = "nothing"
  /\ all_results' = <<>>
  /\ steady' = Present(stored) /\ seen' = {<<k, stored[k]>> : k \in Present(stored)}
  /\ UNCHANGED <<route_table, cut, net, up, stored, writes, crashes, errors>>

\* The loop goes on with the next worker, or prints what it has.
NextWorker(how) ==
  /\ response' = <<>>
  /\ printed' = IF printed = "partly" THEN printed ELSE how
  /\ IF idx = find_worker_for_key(cmd.hi)
     THEN pc' = "prompt" /\ UNCHANGED idx
     ELSE pc' = "scan" /\ idx' = idx + 1

\* A worker that cannot be reached is skipped with a warning.
ScanRequest ==
  /\ pc = "scan"
  /\ IF ~Connected(idx)
     THEN NextWorker("partly") /\ UNCHANGED net
     ELSE /\ Written(idx, cmd)
          /\ IF slave_fds[idx] = "reset" THEN NextWorker("partly")
             ELSE pc' = "scanread" /\ UNCHANGED <<idx, response, printed>>
  /\ UNCHANGED <<route_table, cmd, all_results, cut, up, data, counts>>

\* One read(): some of the lines that have arrived.
Got(n) == response \o SubSeq(reply[idx], 1, n)

Taken(n) ==
  /\ n \in 1 .. Len(reply[idx])
  /\ reply' = [reply EXCEPT ![idx] = SubSeq(@, n + 1, Len(@))]
  /\ UNCHANGED <<slave_fds, request>>

\* read_slave_response: any line completes the reply.
ReadReply(n) ==
  /\ pc = "read" /\ Taken(n)
  /\ response' = Got(n)
  /\ pc' = "prompt" /\ printed' = "reply"
  /\ UNCHANGED <<route_table, cmd, idx, all_results, cut, up, data, counts>>

EndsInEnd(line) == line.kind = "END" \/ (line.kind = "KVPAIR" /\ line.val \in EndValues)

Pairs(lines) ==
  LET kv == Ascending({i \in DOMAIN lines : lines[i].kind = "KVPAIR"})
  IN  [i \in DOMAIN kv |-> <<lines[kv[i]].key, lines[kv[i]].val>>]

\* Faulty variant: any line completes the reply.
ScanReadLine(n) ==
  /\ pc = "scanread" /\ Taken(n)
  /\ all_results' = all_results \o Pairs(Got(n)) /\ NextWorker("all")
  /\ UNCHANGED <<route_table, cmd, cut, up, data, counts>>

\* read_slave_range_response: read until END ends some line.
ScanRead(n) ==
  /\ pc = "scanread" /\ Taken(n)
  /\ IF \E i \in DOMAIN Got(n) : EndsInEnd(Got(n)[i])
     THEN /\ all_results' = all_results \o Pairs(Got(n)) /\ NextWorker("all")
          /\ cut' = (cut \/ \A i \in DOMAIN Got(n) : Got(n)[i].kind # "END")
     ELSE response' = Got(n) /\ UNCHANGED <<pc, idx, all_results, printed, cut>>
  /\ UNCHANGED <<route_table, cmd, up, data, counts>>

\* Faulty variant: the end of the stream is not recognised.
ReadFailsOnErrorOnly ==
  /\ pc = "read" /\ slave_fds[idx] = "reset" /\ reply[idx] = <<>>
  /\ pc' = "prompt" /\ printed' = "failed"
  /\ slave_fds' = [slave_fds EXCEPT ![idx] = "none"]
  /\ UNCHANGED <<route_table, cmd, idx, response, all_results, cut, request, reply, up, data, counts>>

\* read() fails or finds the end of the stream: the connection is dropped.
ReadFails ==
  /\ pc \in {"read", "scanread"} /\ slave_fds[idx] # "up" /\ reply[idx] = <<>>
  /\ IF pc = "read"
     THEN pc' = "prompt" /\ printed' = "failed" /\ UNCHANGED <<idx, response>>
     ELSE NextWorker("partly")
  /\ slave_fds' = [slave_fds EXCEPT ![idx] = "none"]
  /\ UNCHANGED <<route_table, cmd, all_results, cut, request, reply, up, data, counts>>

Quit ==
  /\ pc = "prompt"
  /\ pc' = "exit"
  /\ UNCHANGED <<route_table, cmd, idx, response, all_results, printed, cut, net, up, data, counts>>

-----------------------------------------------------------------------------
(* Slaves *)

\* A write reaches the data; a SCAN under way has seen it.
Store(k, v) ==
  /\ stored' = [stored EXCEPT ![k] = v]
  /\ steady' = IF v = NoValue THEN steady \ {k} ELSE steady
  /\ seen' = IF v = NoValue THEN seen ELSE seen \cup {<<k, v>>}

Line(c, kind, k, v) == [n |-> c.n, kind |-> kind, key |-> k, val |-> v]

\* The keys SCAN_ADDR finds at the master, restricted to the range of worker w.
Found(c, w) ==
  {k \in Present(stored) : c.lo <= k /\ k <= c.hi /\ InRange(k, WORKER_RANGES[w])}

\* Faulty variant: the master does not restrict the scan to the worker.
ScanReplyUnfiltered(c, w, unread) ==
  LET keys == Ascending({k \in Present(stored) : c.lo <= k /\ k <= c.hi})
  IN  Append([i \in DOMAIN keys |-> Line(c, "KVPAIR", keys[i], stored[keys[i]])],
             Line(c, "END", 0, NoValue))

\* The values of these keys, but for those in unread, which the slave cannot
\* read and skips.  A reply of the master in which the slave finds the word
\* ERROR is passed on as it is.
ScanReply(c, w, unread) ==
  LET keys == Ascending(Found(c, w) \ unread)
      kind == IF Found(c, w) \cap ErrorKeys # {} THEN "KVPAIR_ADDR" ELSE "KVPAIR"
  IN  Append([i \in DOMAIN keys |-> Line(c, kind, keys[i], stored[keys[i]])],
             Line(c, "END", 0, NoValue))

\* A SCAN: any of the values may be unreadable, as a crash lost its record or
\* its file, or as a read fails.
ServeScan(c, w) ==
  /\ c.op = "SCAN"
  /\ \E unread \in SUBSET Found(c, w) :
       /\ unread # {} => Found(c, w) \cap ErrorKeys = {} /\ errors < MaxErrors
       /\ reply' = [reply EXCEPT ![w] = @ \o ScanReply(c, w, unread)]
       /\ steady' = steady \ unread
       /\ errors' = errors + IF unread = {} THEN 0 ELSE 1
  /\ UNCHANGED <<stored, seen>>

\* process_command: the first request on the connection is answered.
Serve(w) ==
  /\ w \in up /\ slave_fds[w] = "up" /\ request[w] # <<>>
  /\ request' = [request EXCEPT ![w] = Tail(@)]
  /\ LET c == Head(request[w])
     IN  \/ ServeScan(c, w)
         \/ /\ c.op # "SCAN"
            /\ CASE c.op = "PUT" -> Store(c.lo, c.val)
                 [] c.op = "DELETE" -> Store(c.lo, NoValue)
                 [] OTHER -> UNCHANGED data
            /\ reply' = [reply EXCEPT ![w] = Append(@, Line(c, "LINE", c.lo, NoValue))]
            /\ UNCHANGED errors
         \/ /\ errors < MaxErrors /\ errors' = errors + 1
            /\ reply' = [reply EXCEPT ![w] = Append(@, Line(c, "ERROR", 0, NoValue))]
            /\ UNCHANGED data
  /\ UNCHANGED <<client, slave_fds, up, commands, writes, crashes>>

\* Bytes the slave had sent can still be read, unless the connection is reset.
SlaveCrash(w) ==
  /\ w \in up /\ crashes < MaxCrashes
  /\ crashes' = crashes + 1
  /\ up' = up \ {w}
  /\ request' = [request EXCEPT ![w] = <<>>]
  /\ IF slave_fds[w] # "up" THEN UNCHANGED <<slave_fds, reply>>
     ELSE \/ /\ slave_fds' = [slave_fds EXCEPT ![w] = "fin"]
             /\ \E n \in 0 .. Len(reply[w]) : reply' = [reply EXCEPT ![w] = SubSeq(@, 1, n)]
          \/ /\ slave_fds' = [slave_fds EXCEPT ![w] = "reset"]
             /\ reply' = [reply EXCEPT ![w] = <<>>]
  /\ UNCHANGED <<client, data, commands, writes, errors>>

SlaveStart(w) ==
  /\ w \notin up /\ up' = up \cup {w}
  /\ UNCHANGED <<client, net, data, counts>>

\* Another client stores or deletes a key.
OtherWrite(k, v) ==
  /\ writes < MaxWrites /\ writes' = writes + 1
  /\ \E w \in up : InRange(k, WORKER_RANGES[w])
  /\ Store(k, v)
  /\ UNCHANGED <<client, net, up, commands, crashes, errors>>

ClientStep ==
  \/ ScanRequest \/ ReadFails
  \/ /\ pc \in {"read", "scanread"}
     /\ \E n \in 1 .. Len(reply[idx]) : ReadReply(n) \/ ScanRead(n)

Next ==
  \/ Hello \/ Quit \/ ClientStep
  \/ \E k \in Chars : \/ \E v \in Values : KeyCommand("PUT", k, v)
                      \/ \E op \in {"GET", "DELETE"} : KeyCommand(op, k, NoValue)
                      \/ \E hi \in Chars : Scan(k, hi)
                      \/ \E v \in Values \cup {NoValue} : OtherWrite(k, v)
  \/ \E w \in Workers : GcCommand(w) \/ Serve(w) \/ SlaveCrash(w) \/ SlaveStart(w)

Spec == Init /\ [][Next]_vars

\* The client does not stop inside a command, and slaves answer.
Fairness == WF_vars(ClientStep) /\ \A w \in Workers : WF_vars(Serve(w))

FairSpec == Spec /\ Fairness

-----------------------------------------------------------------------------
(***************************************************************************)
(* A line the client reads answers the command it is running: replies that *)
(* arrive in pieces, connections that break in the middle of one and       *)
(* slaves that restart never leave a line behind for a later command.      *)
(* Only a value that ends in END and is the last thing a read() returns    *)
(* breaks this, as the client takes the reply to end there.                *)
(***************************************************************************)
RepliesMatch ==
  ~cut => \A w \in Workers : \A i \in DOMAIN reply[w] :
    pc \in {"read", "scanread"} /\ idx = w /\ reply[w][i].n = cmd.n

(***************************************************************************)
(* Requests go to the worker the master's ranges assign to the key, even   *)
(* when the route table was received incompletely.                         *)
(***************************************************************************)
SentToOwner ==
  \A w \in Workers : \A i \in DOMAIN request[w] :
    request[w][i].op \in {"PUT", "GET", "DELETE"} => InRange(request[w][i].lo, WORKER_RANGES[w])

(***************************************************************************)
(* A SCAN that reached all its workers prints keys in ascending order,     *)
(* each with a value it had during the SCAN, and every key that was there  *)
(* all the time and that its slave could read, although workers are asked  *)
(* one after the other while other clients write.  A key whose value its   *)
(* slave could not read is left out without notice.  Only a key that       *)
(* contains the word ERROR, which the slave takes for an error reply, can  *)
(* make others go missing, and a reply cut at a value that ends in END.    *)
(***************************************************************************)
ScanComplete ==
  pc = "prompt" /\ cmd.op = "SCAN" /\ printed = "all" /\ ~cut =>
    /\ \A i, j \in DOMAIN all_results : i < j => all_results[i][1] < all_results[j][1]
    /\ \A i \in DOMAIN all_results : all_results[i] \in seen
    /\ \A k \in steady \cap (cmd.lo .. cmd.hi) :
         \/ \E i \in DOMAIN all_results : all_results[i][1] = k
         \/ \E p \in seen : p[1] \in ErrorKeys \cap (cmd.lo .. cmd.hi)

\* A SCAN was answered with ERROR and waits for END.
WaitsForEnd == pc = "scanread" /\ \E i \in DOMAIN response : response[i].kind = "ERROR"

(***************************************************************************)
(* Every command comes to an end, whichever slave crashes and whenever,    *)
(* unless a SCAN is answered with ERROR.                                   *)
(***************************************************************************)
CommandsEnd ==
  pc \in {"read", "scan", "scanread"} ~> (pc = "prompt" \/ WaitsForEnd)

=============================================================================
