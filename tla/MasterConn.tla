------------------------------ MODULE MasterConn ------------------------------
(***************************************************************************)
(* The connections of the master: main() of distributed/master.cc.         *)
(*                                                                         *)
(* The event loop takes a batch of events from epoll_wait and handles them *)
(* one after the other, by descriptor.  Descriptors are small numbers that *)
(* the kernel gives out again as soon as they are closed, so an event, an  *)
(* entry of `connections' and an entry of g_worker_fds can outlive the     *)
(* connection they were made for.  Connections are numbered in the order   *)
(* in which they are made.                                                 *)
(***************************************************************************)
EXTENDS Integers, Sequences, FiniteSets

CONSTANTS
  WORKER_COUNT,
  MaxFd,    \* bound: descriptors for connections
  MaxConns, \* bound: connections made
  MaxFaults \* bound: resets, full socket buffers and failing calls of epoll_ctl

ASSUME ConnAssumption ==
  /\ WORKER_COUNT \in Nat \ {0} /\ MaxConns \in Nat /\ MaxFaults \in Nat
  /\ MaxFd \in Nat /\ MaxFd > WORKER_COUNT

Client    == 0                    \* the peer of a client connection
Workers   == 1 .. WORKER_COUNT
Listeners == {Client} \cup Workers
Fds       == 1 .. MaxFd
Conns     == 1 .. MaxConns
None      == 0                    \* no descriptor (-1), no connection

VARIABLES
  phase,        \* "startup", "loop" or "stopped"
  peer,         \* sequence of the peers of all connections made
  status,       \* connection -> "up", "fin" or "reset" by the peer
  io,           \* connection -> its request: "none", "asked", "read", "answered"
  backlog,      \* listener -> connections not yet accepted
  fdtab,        \* descriptor -> connection
  armed,        \* descriptors with an edge epoll_wait has not reported
  wantOut,      \* descriptors registered for EPOLLOUT
  full,         \* descriptors whose socket takes no more bytes
  failed,       \* descriptors that epoll_ctl could not add
  stalls,       \* times that, or a full socket, happened
  connections,  \* descriptor -> Connection
  g_worker_fds, \* worker -> descriptor
  batch         \* events of the last epoll_wait still to be handled

kernel == <<fdtab, armed, wantOut, full, failed, stalls>>
vars   == <<phase, peer, status, io, backlog, kernel, connections, g_worker_fds, batch>>

Made    == 1 .. Len(peer)
Open(c) == \E f \in Fds : fdtab[f] = c
Waits(c) == \E l \in Listeners : \E i \in DOMAIN backlog[l] : backlog[l][i] = c
FdOf(c) == {f \in Fds : fdtab[f] = c}
Resets  == Cardinality({c \in Conns : status[c] = "reset"})

LowestFree == CHOOSE f \in Fds : fdtab[f] = None /\ \A g \in Fds : fdtab[g] = None => f <= g

Init ==
  /\ phase = "startup" /\ peer = <<>>
  /\ status = [c \in Conns |-> "up"] /\ io = [c \in Conns |-> "none"]
  /\ backlog = [l \in Listeners |-> <<>>]
  /\ fdtab = [f \in Fds |-> None] /\ armed = {} /\ wantOut = {}
  /\ full = {} /\ failed = {} /\ stalls = 0
  /\ connections = [f \in {} |-> None]
  /\ g_worker_fds = [k \in Workers |-> None]
  /\ batch = <<>>

-----------------------------------------------------------------------------
(* The peers *)

FaultIf(happens) ==
  /\ happens => Resets + stalls < MaxFaults
  /\ stalls' = stalls + IF happens THEN 1 ELSE 0

\* A client connects; a worker does when its last connection is gone.
Connect(l) ==
  /\ Len(peer) < MaxConns /\ phase # "stopped"
  /\ l \in Workers =>
       \A c \in Made : peer[c] = l /\ (Open(c) \/ Waits(c)) => status[c] # "up"
  /\ peer' = Append(peer, l)
  /\ backlog' = [backlog EXCEPT ![l] = Append(@, Len(peer) + 1)]
  /\ UNCHANGED <<phase, status, io, kernel, connections, g_worker_fds, batch>>

\* One request at a time; a client makes one per connection.
Ask(c) ==
  /\ Open(c) \/ Waits(c)
  /\ status[c] = "up"
  /\ io[c] = "none" \/ (peer[c] \in Workers /\ io[c] = "answered")
  /\ io' = [io EXCEPT ![c] = "asked"]
  /\ armed' = armed \cup FdOf(c)
  /\ UNCHANGED <<phase, peer, status, backlog, fdtab, wantOut, full, failed, stalls,
                 connections, g_worker_fds, batch>>

\* The socket buffer fills up, and is emptied by the peer.
Fill(f) ==
  /\ fdtab[f] # None /\ f \notin full
  /\ full' = full \cup {f} /\ FaultIf(TRUE)
  /\ UNCHANGED <<phase, peer, status, io, backlog, fdtab, armed, wantOut, failed,
                 connections, g_worker_fds, batch>>

Drain(f) ==
  /\ f \in full
  /\ full' = full \ {f}
  /\ armed' = armed \cup {f}
  /\ UNCHANGED <<phase, peer, status, io, backlog, fdtab, wantOut, failed, stalls,
                 connections, g_worker_fds, batch>>

\* The peer closes the connection (FIN) or aborts it (RST).
Leave(c, s) ==
  /\ Open(c) \/ Waits(c)
  /\ \/ s = "fin" /\ status[c] = "up"
     \/ s = "reset" /\ status[c] # "reset" /\ Resets + stalls < MaxFaults
  /\ status' = [status EXCEPT ![c] = s]
  /\ armed' = armed \cup FdOf(c)
  /\ UNCHANGED <<phase, peer, io, backlog, fdtab, wantOut, full, failed, stalls,
                 connections, g_worker_fds, batch>>

-----------------------------------------------------------------------------
(* Startup: one connection of every worker is awaited, in any order. *)

StartupAccept(k) ==
  /\ phase = "startup" /\ g_worker_fds[k] = None /\ backlog[k] # <<>>
  /\ fdtab' = [fdtab EXCEPT ![LowestFree] = Head(backlog[k])]
  /\ g_worker_fds' = [g_worker_fds EXCEPT ![k] = LowestFree]
  /\ backlog' = [backlog EXCEPT ![k] = Tail(@)]
  /\ UNCHANGED <<phase, peer, status, io, armed, wantOut, full, failed, stalls,
                 connections, batch>>

\* Faulty variant: the flag is set before there is a reply.
NewConnectionClosing(l) == [worker |-> l, send_buffer |-> <<>>, close_after_send |-> l = Client]

NewConnection(l) == [worker |-> l, send_buffer |-> <<>>, close_after_send |-> FALSE]

\* A descriptor that epoll_ctl cannot add stays open, without events.
EnterLoop ==
  /\ phase = "startup" /\ \A k \in Workers : g_worker_fds[k] # None
  /\ phase' = "loop"
  /\ LET fds == {g_worker_fds[k] : k \in Workers}
     IN  /\ connections' = [f \in fds |-> NewConnection(CHOOSE k \in Workers : g_worker_fds[k] = f)]
         /\ failed' \in SUBSET fds
         /\ armed' = fds \ failed' /\ wantOut' = fds \ failed'
  /\ FaultIf(failed' # {})
  /\ UNCHANGED <<peer, status, io, backlog, fdtab, full, g_worker_fds, batch>>

-----------------------------------------------------------------------------
(* epoll_wait *)

\* Events of descriptor f: EPOLLERR and EPOLLHUP come unasked, EPOLLRDHUP is
\* registered for clients only.
Events(f) ==
  LET c == fdtab[f]
  IN  (IF io[c] = "asked" \/ status[c] # "up" THEN {"in"} ELSE {})
      \cup (IF f \in wantOut \ full THEN {"out"} ELSE {})
      \cup (IF status[c] # "up" /\ peer[c] = Client THEN {"rdhup"} ELSE {})
      \cup (IF status[c] = "reset" THEN {"err"} ELSE {})

Orders(S) == {q \in [1 .. Cardinality(S) -> S] : \A i, j \in DOMAIN q : i # j => q[i] # q[j]}

\* All events that are due, in any order.
EpollWait ==
  /\ phase = "loop" /\ batch = <<>>
  /\ LET due == {[listen |-> TRUE, fd |-> l, ev |-> {"in"}] :
                    l \in {l \in Listeners : backlog[l] # <<>>}}
                \cup {[listen |-> FALSE, fd |-> f, ev |-> Events(f)] :
                        f \in {f \in armed \ failed : Events(f) # {}}}
     IN  due # {} /\ batch' \in Orders(due)
  /\ armed' = {}
  /\ UNCHANGED <<phase, peer, status, io, backlog, fdtab, wantOut, full, failed, stalls,
                 connections, g_worker_fds>>

-----------------------------------------------------------------------------
(* Handling of one event *)

Without(f, m) == [g \in DOMAIN m \ {f} |-> m[g]]

Due(listen) == phase = "loop" /\ batch # <<>> /\ Head(batch).listen = listen

\* epoll_ctl adds descriptor f, or not.
Adds(f, ok) ==
  /\ failed' = IF ok THEN failed \ {f} ELSE failed \cup {f}
  /\ FaultIf(~ok)

\* A descriptor that cannot be added is closed; its Connection stays.
AcceptClient ==
  /\ Due(TRUE) /\ Head(batch).fd = Client
  /\ \E f \in Fds : fdtab[f] = None
  /\ \E ok \in BOOLEAN :
       LET f     == LowestFree
           added == IF ok THEN {f} ELSE {}
       IN  /\ fdtab' = [fdtab EXCEPT ![f] = IF ok THEN Head(backlog[Client]) ELSE None]
           /\ connections' = [g \in DOMAIN connections \cup {f} |->
                                IF g = f THEN NewConnection(Client) ELSE connections[g]]
           /\ armed' = armed \cup added /\ wantOut' = wantOut \cup added
           /\ Adds(f, ok)
  /\ backlog' = [backlog EXCEPT ![Client] = Tail(@)]
  /\ batch' = Tail(batch)
  /\ UNCHANGED <<phase, peer, status, io, full, g_worker_fds>>

\* accept() fails; the connection stays in the backlog.
AcceptFails ==
  /\ Due(TRUE) /\ \A f \in Fds : fdtab[f] # None
  /\ batch' = Tail(batch)
  /\ UNCHANGED <<phase, peer, status, io, backlog, kernel, connections, g_worker_fds>>

\* A worker connects again: the connection it had, if any, is closed.
AcceptWorker ==
  /\ Due(TRUE) /\ Head(batch).fd \in Workers
  /\ \E f \in Fds : fdtab[f] = None
  /\ \E ok \in BOOLEAN :
       LET k     == Head(batch).fd
           f     == LowestFree
           old   == g_worker_fds[k]
           kept  == Without(old, connections)
           added == IF ok THEN {f} ELSE {}
       IN  /\ fdtab' = [g \in Fds |-> IF g = f THEN IF ok THEN Head(backlog[k]) ELSE None
                                      ELSE IF g = old THEN None ELSE fdtab[g]]
           /\ connections' = [g \in DOMAIN kept \cup {f} |->
                                IF g = f THEN NewConnection(k) ELSE kept[g]]
           /\ g_worker_fds' = [g_worker_fds EXCEPT ![k] = IF ok THEN f ELSE None]
           /\ armed' = (armed \ {old}) \cup added /\ wantOut' = (wantOut \ {old}) \cup added
           /\ full' = full \ {old}
           /\ Adds(f, ok)
           /\ backlog' = [backlog EXCEPT ![k] = Tail(@)]
  /\ batch' = Tail(batch)
  /\ UNCHANGED <<phase, peer, status, io>>

\* Faulty variant: the entry of connections stays.
CloseFdOnly(f) ==
  /\ fdtab' = [fdtab EXCEPT ![f] = None]
  /\ armed' = armed \ {f} /\ wantOut' = wantOut \ {f} /\ full' = full \ {f}
  /\ UNCHANGED connections

\* close(fd), after the descriptor was taken out of epoll and connections.
CloseFd(f) ==
  /\ fdtab' = [fdtab EXCEPT ![f] = None]
  /\ armed' = armed \ {f} /\ wantOut' = wantOut \ {f} /\ full' = full \ {f}
  /\ connections' = Without(f, connections)

\* Faulty variant: the worker stays registered.
UnregisterForgotten(f) == g_worker_fds

\* g_worker_fds[conn.worker_id] = -1, for the connection of a worker.
Unregister(f) ==
  LET k == connections[f].worker
  IN  IF k \in Workers THEN [g_worker_fds EXCEPT ![k] = None] ELSE g_worker_fds

\* No Connection: the descriptor is closed.  EPOLLRDHUP, EPOLLERR, EPOLLHUP:
\* the connection is closed; only the first unregisters a worker.
HandleHangup ==
  /\ Due(FALSE)
  /\ LET f  == Head(batch).fd
         ev == Head(batch).ev
     IN  /\ f \notin DOMAIN connections \/ ev \cap {"rdhup", "err"} # {}
         /\ g_worker_fds' = IF f \in DOMAIN connections /\ "rdhup" \in ev
                            THEN Unregister(f) ELSE g_worker_fds
         /\ CloseFd(f)
  /\ batch' = Tail(batch)
  /\ UNCHANGED <<phase, peer, status, io, backlog, failed, stalls>>

\* A Connection left by AcceptClient or AcceptWorker whose descriptor is
\* closed: there is nothing to send, and read() fails.
HandleStale ==
  /\ Due(FALSE)
  /\ LET f  == Head(batch).fd
         ev == Head(batch).ev
     IN  /\ f \in DOMAIN connections /\ fdtab[f] = None /\ ev \cap {"rdhup", "err"} = {}
         /\ connections' = IF "in" \in ev THEN Without(f, connections) ELSE connections
  /\ batch' = Tail(batch)
  /\ UNCHANGED <<phase, peer, status, io, backlog, kernel, g_worker_fds>>

\* EPOLLOUT: the buffer is sent, unless the socket is full.
Flushed(conn, f) == IF f \in full THEN conn ELSE [conn EXCEPT !.send_buffer = <<>>]

\* EPOLLIN: the request on connection c is read and processed; the reply to a
\* client is the last thing it gets.
Processed(conn, c) ==
  IF io[c] = "asked"
  THEN [conn EXCEPT !.send_buffer = Append(@, c), !.close_after_send = conn.worker = Client]
  ELSE conn

\* Faulty variant: EPOLLOUT is not registered again after a read.
WantsOutOnce(f, sent, reads, conn) == IF sent THEN wantOut \ {f} ELSE wantOut

\* EPOLLOUT is registered while there is something to send.
WantsOut(f, sent, reads, conn) ==
  IF reads /\ conn.send_buffer # <<>> THEN wantOut \cup {f}
  ELSE IF sent THEN wantOut \ {f} ELSE wantOut

\* The write and then the read half of the handler.  read() returns 0 after a
\* FIN and fails after a reset.
HandleReadWrite ==
  /\ Due(FALSE)
  /\ LET f      == Head(batch).fd
         ev     == Head(batch).ev
         c      == fdtab[f]
         before == connections[f]
         out    == IF "out" \in ev THEN Flushed(before, f) ELSE before
         sent   == "out" \in ev /\ out.send_buffer = <<>>
         done   == sent /\ before.close_after_send
         reads  == "in" \in ev /\ ~done
         after  == IF reads THEN Processed(out, c) ELSE out
     IN  /\ f \in DOMAIN connections /\ c # None /\ ev \cap {"rdhup", "err"} = {}
         /\ io' = [io EXCEPT ![c] =
                     IF reads /\ @ = "asked" THEN "read"
                     ELSE IF sent /\ before.send_buffer # <<>> THEN "answered" ELSE @]
         /\ g_worker_fds' = IF reads /\ status[c] = "fin" THEN Unregister(f) ELSE g_worker_fds
         /\ IF done \/ (reads /\ status[c] # "up")
            THEN CloseFd(f)
            ELSE /\ connections' = [connections EXCEPT ![f] = after]
                 /\ wantOut' = WantsOut(f, sent, reads, after)
                 /\ armed' = IF f \in wantOut' /\ after.send_buffer # <<>>
                             THEN armed \cup {f} ELSE armed
                 /\ UNCHANGED <<fdtab, full>>
  /\ batch' = Tail(batch)
  /\ UNCHANGED <<phase, peer, status, backlog, failed, stalls>>

\* SIGINT or SIGTERM: every descriptor is closed once the batch is handled.
Stop ==
  /\ phase # "stopped" /\ batch = <<>>
  /\ phase' = "stopped"
  /\ fdtab' = [f \in Fds |-> None] /\ armed' = {} /\ wantOut' = {} /\ full' = {}
  /\ UNCHANGED <<peer, status, io, backlog, failed, stalls, connections, g_worker_fds, batch>>

Handle ==
  \/ AcceptClient \/ AcceptWorker \/ AcceptFails
  \/ HandleHangup \/ HandleStale \/ HandleReadWrite

Next ==
  \/ \E l \in Listeners : Connect(l)
  \/ \E c \in Made : Ask(c) \/ \E s \in {"fin", "reset"} : Leave(c, s)
  \/ \E k \in Workers : StartupAccept(k)
  \/ \E f \in Fds : Fill(f) \/ Drain(f)
  \/ EnterLoop \/ EpollWait \/ Handle \/ Stop

Spec == Init /\ [][Next]_vars

\* The event loop runs, and peers read what they are sent.
Fairness ==
  /\ \A k \in Workers : WF_vars(StartupAccept(k))
  /\ WF_vars(EnterLoop) /\ WF_vars(EpollWait) /\ WF_vars(Handle)
  /\ \A f \in Fds : WF_vars(Drain(f))

FairSpec == Spec /\ Fairness

-----------------------------------------------------------------------------
(***************************************************************************)
(* `connections' has an entry for each open descriptor, with the peer that *)
(* is really behind it, and a send_buffer only holds replies to that       *)
(* connection: no reply reaches another client or slave, although          *)
(* descriptors are reused and events of a batch may be stale.  Entries of  *)
(* closed descriptors are left only where epoll_ctl failed, and have       *)
(* nothing to send.                                                        *)
(***************************************************************************)
ConnectionsMatch ==
  phase = "loop" =>
    /\ \A f \in Fds : fdtab[f] # None => f \in DOMAIN connections
    /\ \A f \in DOMAIN connections :
         LET conn == connections[f]
         IN  /\ IF fdtab[f] = None THEN f \in failed ELSE conn.worker = peer[fdtab[f]]
             /\ \A i \in DOMAIN conn.send_buffer :
                  fdtab[f] # None /\ conn.send_buffer[i] = fdtab[f]

(***************************************************************************)
(* As long as no connection is reset, g_worker_fds[k] is -1 or the         *)
(* descriptor of a connection of worker k.                                 *)
(***************************************************************************)
WorkerFdsAccurate ==
  Resets = 0 /\ phase # "stopped" =>
    \A k \in Workers : g_worker_fds[k] # None =>
      fdtab[g_worker_fds[k]] # None /\ peer[fdtab[g_worker_fds[k]]] = k

(***************************************************************************)
(* With edge-triggered events no wake-up is lost: a request on a           *)
(* connection that stays up is answered, unless the master is stopped, has *)
(* closed the connection, is still waiting for the workers, or could not   *)
(* add the connection of a worker to epoll then.                           *)
(***************************************************************************)
RequestsAnswered ==
  \A c \in Conns :
    (io[c] = "asked" /\ Open(c) /\ phase = "loop")
      ~> (io[c] = "answered" \/ status[c] # "up" \/ ~Open(c) \/ phase = "stopped"
          \/ FdOf(c) \cap failed # {})

(***************************************************************************)
(* When a worker connects again, the connection that is closed is an old   *)
(* one of this worker: a healthy connection is closed only because its     *)
(* worker has a newer one, because its client was answered, or at the end, *)
(* unless a reset has left an entry of g_worker_fds to another connection. *)
(***************************************************************************)
HealthyStaysOpen ==
  [][\A c \in Made :
       Open(c) /\ status[c] = "up" /\ ~Open(c)' =>
         \/ \E d \in Made : d > c /\ peer[d] = peer[c] /\ peer[c] \in Workers
         \/ peer[c] = Client /\ io'[c] = "answered"
         \/ phase' = "stopped" \/ Resets > 0]_vars
=============================================================================
