-------------------------- MODULE MasterConnProofs --------------------------
(***************************************************************************)
(* Proofs about the connections of the master, for any number of workers,  *)
(* descriptors, connections and faults: `connections' describes the open   *)
(* descriptors, g_worker_fds the workers' as long as nothing is reset, and *)
(* a connection that is up is closed only for a reason.                    *)
(***************************************************************************)
EXTENDS MasterConn, FiniteSetTheorems, WellFoundedInduction, TLAPS

Event      == [listen : BOOLEAN, fd : Nat, ev : SUBSET {"in", "out", "rdhup", "err"}]
Connection == [worker : Listeners, send_buffer : Seq(Nat), close_after_send : BOOLEAN]
OpenFds    == {f \in Fds : fdtab[f] # None}

TypeInv ==
  /\ peer \in Seq(Listeners)
  /\ backlog \in [Listeners -> Seq(Nat)]
  /\ fdtab \in [Fds -> 0 .. Len(peer)]
  /\ g_worker_fds \in [Workers -> Fds \cup {None}]
  /\ armed \in SUBSET Fds
  /\ batch \in Seq(Event)

\* What waits at a listener was made by the peer it listens for.
BacklogPeers ==
  \A l \in Listeners : \A i \in DOMAIN backlog[l] :
    backlog[l][i] \in 1 .. Len(peer) /\ peer[backlog[l][i]] = l

\* Before the loop exactly the registered workers are connected.
StartupFds ==
  phase = "startup" =>
    /\ batch = <<>>
    /\ \A f \in Fds : fdtab[f] # None <=> \E k \in Workers : g_worker_fds[k] = f
    /\ \A k \in Workers : g_worker_fds[k] # None => peer[fdtab[g_worker_fds[k]]] = k

\* An event of a listening socket is the only one of it in the batch, and
\* there is something to accept; the others are about descriptors.
BatchInv(b, waiting) ==
  /\ \A i \in DOMAIN b :
       IF b[i].listen THEN b[i].fd \in Listeners /\ waiting[b[i].fd] # <<>> ELSE b[i].fd \in Fds
  /\ \A i, j \in DOMAIN b : i # j /\ b[i].listen /\ b[j].listen => b[i].fd # b[j].fd

\* A Connection belongs to connection c, made by l.
Belongs(conn, c, l) ==
  /\ conn \in Connection
  /\ conn.worker = l
  /\ \A i \in DOMAIN conn.send_buffer : conn.send_buffer[i] = c

\* A Connection without an open descriptor is one that could not be added to
\* epoll, and has nothing to send.
ConnInv ==
  phase = "loop" =>
    /\ OpenFds \subseteq DOMAIN connections /\ DOMAIN connections \subseteq Fds
    /\ \A f \in OpenFds : Belongs(connections[f], fdtab[f], peer[fdtab[f]])
    /\ \A f \in DOMAIN connections \ OpenFds :
         f \in failed /\ connections[f].send_buffer = <<>>

IInv == TypeInv /\ BacklogPeers /\ StartupFds /\ BatchInv(batch, backlog) /\ ConnInv

-----------------------------------------------------------------------------
(* Descriptors *)

(* accept() returns a descriptor that is not in use, if there is one. *)
LEMMA LowestFreeIsFree ==
  ASSUME \E f \in Fds : fdtab[f] = None
  PROVE  LowestFree \in Fds /\ fdtab[LowestFree] = None
<1> DEFINE T == {f \in Fds : fdtab[f] = None}
<1>1. T \subseteq Nat /\ T # {}
  BY ConnAssumption DEF Fds
<1>2. PICK f \in T : \A g \in T : ~(<<g, f>> \in OpToRel(<, Nat))
  BY <1>1, WFMin, NatLessThanWellFounded
<1>3. \A g \in T : f <= g
  <2> SUFFICES ASSUME NEW g \in T, g < f PROVE FALSE
    BY <1>1
  <2>1. <<g, f>> \in Nat \X Nat
    BY <1>1
  <2>2. <<g, f>> \in OpToRel(<, Nat)
    BY <2>1 DEF OpToRel
  <2> QED BY <1>2, <2>2
<1>4. f \in Fds /\ fdtab[f] = None /\ \A g \in Fds : fdtab[g] = None => f <= g
  BY <1>3
<1> QED BY <1>4 DEF LowestFree

(* There are more descriptors than workers, so startup never runs out. *)
LEMMA StartupHasFree ==
  ASSUME IInv, phase = "startup"
  PROVE  \E f \in Fds : fdtab[f] = None
<1> SUFFICES ASSUME \A f \in Fds : fdtab[f] # None PROVE FALSE
  OBVIOUS
<1> DEFINE h == [f \in Fds |-> CHOOSE k \in Workers : g_worker_fds[k] = f]
<1>1. \A f \in Fds : h[f] \in Workers /\ g_worker_fds[h[f]] = f
  BY DEF IInv, StartupFds
<1>2. /\ IsFiniteSet(Fds) /\ Cardinality(Fds) = MaxFd
      /\ IsFiniteSet(Workers) /\ Cardinality(Workers) = WORKER_COUNT
  BY ConnAssumption, FS_Interval DEF Fds, Workers
<1>3. h \in [Fds -> Workers] /\ Cardinality(Workers) < Cardinality(Fds)
  BY <1>1, <1>2, ConnAssumption
<1> HIDE DEF h
<1>4. \E x, y \in Fds : x # y /\ h[x] = h[y]
  BY <1>2, <1>3, FS_PigeonHole
<1> QED BY <1>1, <1>4

-----------------------------------------------------------------------------
(* Events *)

(* A queue without its first element. *)
LEMMA Queue ==
  ASSUME NEW S, NEW q \in Seq(S), q # <<>>
  PROVE  /\ Head(q) \in S /\ Head(q) = q[1] /\ 1 \in DOMAIN q
         /\ Tail(q) \in Seq(S)
         /\ \A i \in DOMAIN Tail(q) : i + 1 \in DOMAIN q /\ i + 1 # 1 /\ Tail(q)[i] = q[i + 1]
OBVIOUS

(* Handling an event leaves the rest of the batch in order, as only the    *)
(* listener of this event loses a connection.                              *)
LEMMA RestOfBatch ==
  ASSUME TypeInv, BatchInv(batch, backlog), batch # <<>>, batch' = Tail(batch),
         \A l \in Listeners :
           backlog[l] # <<>> /\ ~(Head(batch).listen /\ Head(batch).fd = l) => backlog'[l] # <<>>
  PROVE  batch' \in Seq(Event) /\ BatchInv(batch', backlog')
<1>1. batch' \in Seq(Event) /\ Head(batch) = batch[1] /\ 1 \in DOMAIN batch
  BY Queue DEF TypeInv
<1>2. \A i \in DOMAIN batch' : i + 1 \in DOMAIN batch /\ i + 1 # 1 /\ batch'[i] = batch[i + 1]
  BY Queue DEF TypeInv
<1>3. ASSUME NEW i \in DOMAIN batch', batch'[i].listen
      PROVE  batch'[i].fd \in Listeners /\ backlog'[batch'[i].fd] # <<>>
  <2>1. batch[i + 1].fd \in Listeners /\ backlog[batch[i + 1].fd] # <<>>
    BY <1>2, <1>3 DEF BatchInv
  <2>2. ~(batch[1].listen /\ batch[1].fd = batch[i + 1].fd)
    BY <1>1, <1>2, <1>3 DEF BatchInv
  <2> QED BY <1>1, <1>2, <2>1, <2>2
<1>4. \A i \in DOMAIN batch' : ~batch'[i].listen => batch'[i].fd \in Fds
  BY <1>2 DEF BatchInv
<1>5. ASSUME NEW i \in DOMAIN batch', NEW j \in DOMAIN batch', i # j,
             batch'[i].listen, batch'[j].listen
      PROVE  batch'[i].fd # batch'[j].fd
  <2>1. i \in Int /\ j \in Int
    BY <1>1
  <2> QED BY <1>2, <1>5, <2>1 DEF BatchInv
<1> QED BY <1>1, <1>3, <1>4, <1>5 DEF BatchInv

(* epoll_wait reports finitely many events. *)
LEMMA DueFinite ==
  ASSUME IInv,
         NEW D, D = {[listen |-> TRUE, fd |-> l, ev |-> {"in"}] :
                       l \in {l \in Listeners : backlog[l] # <<>>}}
                    \cup {[listen |-> FALSE, fd |-> f, ev |-> Events(f)] :
                            f \in {f \in armed \ failed : Events(f) # {}}}
  PROVE  IsFiniteSet(D)
<1> DEFINE A  == {l \in Listeners : backlog[l] # <<>>}
           B  == {f \in armed \ failed : Events(f) # {}}
           DA == {[listen |-> TRUE, fd |-> l, ev |-> {"in"}] : l \in A}
           DB == {[listen |-> FALSE, fd |-> f, ev |-> Events(f)] : f \in B}
           a  == [l \in A |-> [listen |-> TRUE, fd |-> l, ev |-> {"in"}]]
           b  == [f \in B |-> [listen |-> FALSE, fd |-> f, ev |-> Events(f)]]
<1>1. Listeners = 0 .. WORKER_COUNT
  BY ConnAssumption DEF Listeners, Client, Workers
<1>2. IsFiniteSet(Listeners) /\ IsFiniteSet(Fds)
  BY <1>1, ConnAssumption, FS_Interval DEF Fds
<1>3. IsFiniteSet(A) /\ IsFiniteSet(B)
  <2>1. A \in SUBSET Listeners /\ B \in SUBSET Fds
    BY DEF IInv, TypeInv
  <2> QED BY <1>2, <2>1, FS_Subset
<1>4. a \in Surjection(A, DA) /\ b \in Surjection(B, DB)
  BY DEF Surjection
<1>5. D = DA \cup DB
  OBVIOUS
<1> HIDE DEF A, B, DA, DB, a, b
<1>6. IsFiniteSet(DA) /\ IsFiniteSet(DB)
  BY <1>3, <1>4, FS_Surjection
<1> QED BY <1>5, <1>6, FS_Union

(* The batch epoll_wait returns is in order. *)
LEMMA NewBatch ==
  ASSUME IInv, EpollWait
  PROVE  batch' \in Seq(Event) /\ BatchInv(batch', backlog)
<1> DEFINE D == {[listen |-> TRUE, fd |-> l, ev |-> {"in"}] :
                   l \in {l \in Listeners : backlog[l] # <<>>}}
                \cup {[listen |-> FALSE, fd |-> f, ev |-> Events(f)] :
                        f \in {f \in armed \ failed : Events(f) # {}}}
<1>1. batch' \in Orders(D)
  BY DEF EpollWait
<1>2. Cardinality(D) \in Nat
  BY DueFinite, FS_CardinalityType
<1>3. ASSUME NEW e \in D
      PROVE  \/ \E l \in Listeners : backlog[l] # <<>> /\ e = [listen |-> TRUE, fd |-> l, ev |-> {"in"}]
             \/ \E f \in armed : e = [listen |-> FALSE, fd |-> f, ev |-> Events(f)]
  OBVIOUS
<1>4. ASSUME NEW e \in D
      PROVE  /\ e \in Event
             /\ e.listen => e.fd \in Listeners /\ backlog[e.fd] # <<>>
                              /\ e = [listen |-> TRUE, fd |-> e.fd, ev |-> {"in"}]
             /\ ~e.listen => e.fd \in Fds
  <2>1. ASSUME NEW l \in Listeners, backlog[l] # <<>>,
               e = [listen |-> TRUE, fd |-> l, ev |-> {"in"}]
        PROVE  /\ e \in Event /\ e.listen /\ e.fd \in Listeners /\ backlog[e.fd] # <<>>
               /\ e = [listen |-> TRUE, fd |-> e.fd, ev |-> {"in"}]
    <3>1. l \in Nat
      BY ConnAssumption DEF Listeners, Client, Workers
    <3> QED BY <2>1, <3>1 DEF Event
  <2>2. ASSUME NEW f \in armed, e = [listen |-> FALSE, fd |-> f, ev |-> Events(f)]
        PROVE  e \in Event /\ ~e.listen /\ e.fd \in Fds
    <3>1. f \in Fds /\ f \in Nat
      BY ConnAssumption DEF IInv, TypeInv, Fds
    <3>2. Events(f) \in SUBSET {"in", "out", "rdhup", "err"}
      BY DEF Events
    <3> QED BY <2>2, <3>1, <3>2 DEF Event
  <2> HIDE DEF D
  <2> QED BY <1>3, <2>1, <2>2
<1> HIDE DEF D
<1>5. /\ batch' \in [1 .. Cardinality(D) -> D]
      /\ \A i, j \in DOMAIN batch' : i # j => batch'[i] # batch'[j]
  BY <1>1 DEF Orders
<1>6. batch' \in Seq(Event)
  BY <1>2, <1>4, <1>5
<1>7. \A i \in DOMAIN batch' : batch'[i] \in D
  BY <1>5
<1>8. \A i, j \in DOMAIN batch' :
        i # j /\ batch'[i].listen /\ batch'[j].listen => batch'[i].fd # batch'[j].fd
  BY <1>4, <1>5, <1>7
<1>9. \A i \in DOMAIN batch' :
        IF batch'[i].listen THEN batch'[i].fd \in Listeners /\ backlog[batch'[i].fd] # <<>>
                            ELSE batch'[i].fd \in Fds
  BY <1>4, <1>7
<1> QED BY <1>6, <1>8, <1>9 DEF BatchInv

-----------------------------------------------------------------------------
(* Steps *)

(* What happens in the kernel and to requests does not matter to IInv. *)
LEMMA KernelSteps ==
  ASSUME IInv, armed' \in SUBSET Fds,
         UNCHANGED <<phase, peer, backlog, fdtab, failed, connections, g_worker_fds, batch>>
  PROVE  IInv'
<1>1. TypeInv' /\ BacklogPeers' /\ StartupFds' /\ BatchInv(batch, backlog)'
  BY DEF IInv, TypeInv, BacklogPeers, StartupFds
<1>2. ConnInv'
  BY DEF IInv, ConnInv, OpenFds, Belongs
<1> QED BY <1>1, <1>2 DEF IInv

(* The initial state. *)
LEMMA InitIInv == Init => IInv
<1> SUFFICES ASSUME Init PROVE IInv
  OBVIOUS
<1>1. TypeInv /\ BacklogPeers
  BY ConnAssumption DEF Init, TypeInv, BacklogPeers, None
<1>2. StartupFds /\ ConnInv
  BY ConnAssumption DEF Init, StartupFds, ConnInv, None, Fds
<1>3. BatchInv(batch, backlog)
  BY DEF Init, BatchInv
<1> QED BY <1>1, <1>2, <1>3 DEF IInv

(* A peer connects: it gets a number no descriptor and no backlog has. *)
LEMMA ConnectStep ==
  ASSUME IInv, NEW l \in Listeners, Connect(l)
  PROVE  IInv'
<1>1. /\ peer' = Append(peer, l)
      /\ backlog' = [backlog EXCEPT ![l] = Append(@, Len(peer) + 1)]
      /\ UNCHANGED <<phase, fdtab, armed, failed, connections, g_worker_fds, batch>>
  BY DEF Connect, kernel
<1>2. /\ peer' \in Seq(Listeners) /\ Len(peer) \in Nat /\ Len(peer') = Len(peer) + 1
      /\ peer'[Len(peer) + 1] = l /\ \A c \in 1 .. Len(peer) : peer'[c] = peer[c]
  BY <1>1 DEF IInv, TypeInv
<1>3. backlog' \in [Listeners -> Seq(Nat)]
  BY <1>1, <1>2 DEF IInv, TypeInv
<1>4. TypeInv'
  BY <1>1, <1>2, <1>3 DEF IInv, TypeInv
<1>5. BacklogPeers'
  <2> SUFFICES ASSUME NEW m \in Listeners, NEW i \in DOMAIN backlog'[m]
               PROVE  backlog'[m][i] \in 1 .. Len(peer') /\ peer'[backlog'[m][i]] = m
    BY DEF BacklogPeers
  <2>1. CASE m # l
    <3>1. backlog'[m] = backlog[m]
      BY <1>1, <2>1 DEF IInv, TypeInv
    <3> QED BY <1>2, <3>1 DEF IInv, BacklogPeers
  <2>2. CASE m = l
    <3>1. backlog[l] \in Seq(Nat) /\ backlog'[m] = Append(backlog[l], Len(peer) + 1)
      BY <1>1, <2>2 DEF IInv, TypeInv
    <3>2. CASE i \in DOMAIN backlog[l]
      <4>1. backlog'[m][i] = backlog[l][i]
        BY <3>1, <3>2
      <4> QED BY <1>2, <2>2, <3>2, <4>1 DEF IInv, BacklogPeers
    <3>3. CASE i \notin DOMAIN backlog[l]
      <4>1. backlog'[m][i] = Len(peer) + 1
        BY <3>1, <3>3
      <4> QED BY <1>2, <2>2, <4>1
    <3> QED BY <3>2, <3>3
  <2> QED BY <2>1, <2>2
<1>6. StartupFds'
  <2>1. ASSUME NEW f \in Fds, fdtab[f] # None PROVE peer'[fdtab[f]] = peer[fdtab[f]]
    BY <1>2, <2>1 DEF IInv, TypeInv, None
  <2> QED BY <1>1, <2>1 DEF IInv, TypeInv, StartupFds
<1>7. BatchInv(batch, backlog)'
  <2>1. \A m \in Listeners : backlog[m] # <<>> => backlog'[m] # <<>>
    BY <1>1, <1>2 DEF IInv, TypeInv
  <2> QED BY <1>1, <2>1 DEF IInv, BatchInv
<1>8. ConnInv'
  <2>1. \A f \in OpenFds : peer'[fdtab[f]] = peer[fdtab[f]]
    BY <1>2 DEF IInv, TypeInv, OpenFds, None
  <2> QED BY <1>1, <2>1 DEF IInv, ConnInv, OpenFds, Belongs
<1> QED BY <1>4, <1>5, <1>6, <1>7, <1>8 DEF IInv

(* accept() on the listener for k takes a connection of k. *)
LEMMA Accepted ==
  ASSUME TypeInv, BacklogPeers, NEW k \in Listeners, backlog[k] # <<>>,
         backlog' = [backlog EXCEPT ![k] = Tail(@)], UNCHANGED peer
  PROVE  /\ backlog' \in [Listeners -> Seq(Nat)] /\ BacklogPeers'
         /\ Head(backlog[k]) \in 1 .. Len(peer) /\ peer[Head(backlog[k])] = k
         /\ \A l \in Listeners : l # k => backlog'[l] = backlog[l]
<1>1. backlog[k] \in Seq(Nat) /\ backlog'[k] = Tail(backlog[k])
  BY DEF TypeInv
<1>2. /\ Head(backlog[k]) = backlog[k][1] /\ 1 \in DOMAIN backlog[k]
      /\ Tail(backlog[k]) \in Seq(Nat)
      /\ \A i \in DOMAIN Tail(backlog[k]) :
           i + 1 \in DOMAIN backlog[k] /\ Tail(backlog[k])[i] = backlog[k][i + 1]
  BY <1>1, Queue
<1>3. \A l \in Listeners : l # k => backlog'[l] = backlog[l]
  BY DEF TypeInv
<1>4. backlog' \in [Listeners -> Seq(Nat)]
  BY <1>2 DEF TypeInv
<1>5. BacklogPeers'
  BY <1>1, <1>2, <1>3 DEF BacklogPeers
<1> QED BY <1>2, <1>3, <1>4, <1>5 DEF BacklogPeers

(* A new Connection has nothing to send. *)
LEMMA NewBelongs ==
  ASSUME NEW l \in Listeners, NEW c
  PROVE  NewConnection(l) \in Connection /\ Belongs(NewConnection(l), c, l)
<1>1. NewConnection(l) \in Connection
  BY DEF NewConnection, Connection
<1> QED BY <1>1 DEF NewConnection, Belongs

(* Sending the buffer, and queueing the reply to a request, leave a        *)
(* Connection that belongs to the same connection.                         *)
LEMMA StillBelongs ==
  ASSUME NEW conn, NEW c \in Nat, NEW l, Belongs(conn, c, l), NEW f
  PROVE  Belongs(Flushed(conn, f), c, l) /\ Belongs(Processed(conn, c), c, l)
<1>1. /\ conn \in Connection /\ conn.worker = l /\ conn.send_buffer \in Seq(Nat)
      /\ \A i \in DOMAIN conn.send_buffer : conn.send_buffer[i] = c
  BY DEF Belongs, Connection
<1>2. Belongs([conn EXCEPT !.send_buffer = <<>>], c, l)
  <2>0. <<>> \in Seq(Nat)
    OBVIOUS
  <2>1. PICK q \in Seq(Nat) : q = <<>>
    BY <2>0, Zenon
  <2>2. PICK r : r = [conn EXCEPT !.send_buffer = q]
    OBVIOUS
  <2>3. r \in Connection /\ r.worker = l /\ r.send_buffer = q
    BY <1>1, <2>2 DEF Connection
  <2>4. \A i \in DOMAIN q : q[i] = c
    BY <2>1
  <2> QED BY <2>1, <2>2, <2>3, <2>4 DEF Belongs
<1>3. ASSUME NEW b \in BOOLEAN
      PROVE  Belongs([conn EXCEPT !.send_buffer = Append(@, c), !.close_after_send = b], c, l)
  <2>0. PICK p \in Seq(Nat) : p = conn.send_buffer
    BY <1>1
  <2>a. Append(p, c) \in Seq(Nat)
    OBVIOUS
  <2>1. PICK q \in Seq(Nat) : q = Append(conn.send_buffer, c)
    BY <2>0, <2>a
  <2>2. \A i \in DOMAIN q : q[i] = c
    <3>1. q = Append(p, c) /\ \A i \in DOMAIN p : p[i] = c
      BY <1>1, <2>0, <2>1
    <3> QED BY <3>1
  <2>3. PICK r : r = [conn EXCEPT !.send_buffer = q, !.close_after_send = b]
    OBVIOUS
  <2>4. r \in Connection /\ r.worker = l /\ r.send_buffer = q
    BY <1>1, <2>3 DEF Connection
  <2>5. r = [conn EXCEPT !.send_buffer = Append(@, c), !.close_after_send = b]
    BY <1>1, <2>1, <2>3 DEF Connection
  <2> QED BY <2>2, <2>4, <2>5 DEF Belongs
<1> QED BY <1>2, <1>3 DEF Flushed, Processed

(* Closing a descriptor takes its Connection along, if it has one. *)
LEMMA CloseStep ==
  ASSUME TypeInv, ConnInv, phase = "loop", NEW f \in Fds, CloseFd(f),
         UNCHANGED <<phase, peer, failed>>
  PROVE  /\ fdtab' \in [Fds -> 0 .. Len(peer')] /\ armed' \in SUBSET Fds
         /\ ConnInv'
<1>1. fdtab' = [fdtab EXCEPT ![f] = None] /\ armed' = armed \ {f} /\ connections' = Without(f, connections)
  BY DEF CloseFd
<1>2. fdtab' \in [Fds -> 0 .. Len(peer')] /\ armed' \in SUBSET Fds
  BY <1>1 DEF TypeInv, None
<1>3. OpenFds' = OpenFds \ {f} /\ \A g \in OpenFds' : fdtab'[g] = fdtab[g]
  BY <1>1 DEF TypeInv, OpenFds
<1>4. /\ DOMAIN connections' = DOMAIN connections \ {f}
      /\ \A g \in DOMAIN connections' : connections'[g] = connections[g]
  BY <1>1 DEF Without
<1> QED BY <1>2, <1>3, <1>4 DEF ConnInv

(* A worker's first connection is accepted. *)
LEMMA StartupAcceptStep ==
  ASSUME IInv, NEW k \in Workers, StartupAccept(k)
  PROVE  IInv'
<1> DEFINE f == LowestFree
<1>1. f \in Fds /\ fdtab[f] = None
  BY StartupHasFree, LowestFreeIsFree DEF StartupAccept
<1> HIDE DEF f
<1>2. /\ phase = "startup" /\ g_worker_fds[k] = None /\ backlog[k] # <<>>
      /\ fdtab' = [fdtab EXCEPT ![f] = Head(backlog[k])]
      /\ g_worker_fds' = [g_worker_fds EXCEPT ![k] = f]
      /\ backlog' = [backlog EXCEPT ![k] = Tail(@)]
      /\ UNCHANGED <<phase, peer, armed, connections, batch>>
  BY DEF StartupAccept, f
<1>3. k \in Listeners
  BY DEF Listeners
<1>4. /\ backlog' \in [Listeners -> Seq(Nat)] /\ BacklogPeers'
      /\ Head(backlog[k]) \in 1 .. Len(peer) /\ peer[Head(backlog[k])] = k
  BY <1>2, <1>3, Accepted DEF IInv
<1>5. TypeInv'
  BY <1>1, <1>2, <1>4 DEF IInv, TypeInv
<1>6. \A g \in Fds : fdtab'[g] = IF g = f THEN Head(backlog[k]) ELSE fdtab[g]
  BY <1>1, <1>2 DEF IInv, TypeInv
<1>7. \A j \in Workers : g_worker_fds'[j] = IF j = k THEN f ELSE g_worker_fds[j]
  BY <1>2 DEF IInv, TypeInv
<1>8. StartupFds'
  <2>1. batch' = <<>>
    BY <1>2 DEF IInv, StartupFds
  <2>2. ASSUME NEW g \in Fds
        PROVE  fdtab'[g] # None <=> \E j \in Workers : g_worker_fds'[j] = g
    <3>1. CASE g = f
      BY <1>4, <1>6, <1>7, <3>1 DEF None
    <3>2. CASE g # f
      <4>1. fdtab[g] # None <=> \E j \in Workers : g_worker_fds[j] = g
        BY <1>2 DEF IInv, StartupFds
      <4>2. g # None
        BY DEF Fds, None
      <4> QED BY <1>2, <1>6, <1>7, <3>2, <4>1, <4>2
    <3> QED BY <3>1, <3>2
  <2>3. ASSUME NEW j \in Workers, g_worker_fds'[j] # None
        PROVE  peer'[fdtab'[g_worker_fds'[j]]] = j
    <3>1. CASE j = k
      BY <1>1, <1>2, <1>4, <1>6, <1>7, <3>1
    <3>2. CASE j # k
      <4>1. g_worker_fds'[j] = g_worker_fds[j] /\ g_worker_fds[j] \in Fds
        BY <1>7, <2>3, <3>2 DEF IInv, TypeInv
      <4>2. fdtab[g_worker_fds[j]] # None /\ peer[fdtab[g_worker_fds[j]]] = j
        BY <1>2, <2>3, <4>1 DEF IInv, StartupFds
      <4> QED BY <1>1, <1>2, <1>6, <4>1, <4>2
    <3> QED BY <3>1, <3>2
  <2> QED BY <2>1, <2>2, <2>3 DEF StartupFds
<1>9. BatchInv(batch, backlog)' /\ ConnInv'
  <2>1. batch' = <<>> /\ phase' = "startup"
    BY <1>2 DEF IInv, StartupFds
  <2> QED BY <2>1 DEF BatchInv, ConnInv
<1> QED BY <1>4, <1>5, <1>8, <1>9 DEF IInv

(* The workers' descriptors get their Connections. *)
LEMMA EnterLoopStep ==
  ASSUME IInv, EnterLoop
  PROVE  IInv'
<1> DEFINE fds == {g_worker_fds[k] : k \in Workers}
           w(f) == CHOOSE k \in Workers : g_worker_fds[k] = f
<1>1. /\ phase = "startup" /\ phase' = "loop" /\ armed' \in SUBSET fds
      /\ connections' = [f \in fds |-> NewConnection(w(f))]
      /\ UNCHANGED <<peer, backlog, fdtab, g_worker_fds, batch>>
      /\ \A k \in Workers : g_worker_fds[k] # None
  BY DEF EnterLoop
<1>2. fds \in SUBSET Fds /\ \A f \in fds : w(f) \in Workers /\ g_worker_fds[w(f)] = f
  BY <1>1 DEF IInv, TypeInv
<1>3. OpenFds' = fds
  BY <1>1, <1>2 DEF IInv, StartupFds, OpenFds
<1>4. TypeInv' /\ BacklogPeers' /\ StartupFds' /\ BatchInv(batch, backlog)'
  BY <1>1, <1>2 DEF IInv, TypeInv, BacklogPeers, StartupFds
<1>5. ASSUME NEW f \in fds
      PROVE  /\ connections'[f] \in Connection
             /\ Belongs(connections'[f], fdtab'[f], peer'[fdtab'[f]])
  <2>1. w(f) \in Listeners /\ connections'[f] = NewConnection(w(f))
    BY <1>1, <1>2 DEF Listeners
  <2>2. peer'[fdtab'[f]] = w(f)
    BY <1>1, <1>2 DEF IInv, StartupFds
  <2> HIDE DEF w, fds
  <2> QED BY <2>1, <2>2, NewBelongs
<1>6. ConnInv'
  <2> HIDE DEF w, fds
  <2>1. DOMAIN connections' = fds
    BY <1>1
  <2> QED BY <1>2, <1>3, <1>5, <2>1 DEF ConnInv
<1> QED BY <1>4, <1>6 DEF IInv

(* The batch is fetched, or everything is closed at the end. *)
LEMMA WaitAndStopSteps ==
  ASSUME IInv, EpollWait \/ Stop
  PROVE  IInv'
<1>1. CASE EpollWait
  <2>1. /\ phase = "loop" /\ armed' = {}
        /\ UNCHANGED <<phase, peer, backlog, fdtab, failed, connections, g_worker_fds>>
    BY <1>1 DEF EpollWait
  <2>2. batch' \in Seq(Event) /\ BatchInv(batch', backlog)
    BY <1>1, NewBatch
  <2>3. TypeInv' /\ BacklogPeers' /\ StartupFds' /\ BatchInv(batch, backlog)'
    BY <2>1, <2>2 DEF IInv, TypeInv, BacklogPeers, StartupFds
  <2>4. ConnInv'
    BY <2>1 DEF IInv, ConnInv, OpenFds, Belongs
  <2> QED BY <2>3, <2>4 DEF IInv
<1>2. CASE Stop
  <2>1. /\ phase' = "stopped" /\ fdtab' = [f \in Fds |-> None] /\ armed' = {}
        /\ UNCHANGED <<peer, backlog, g_worker_fds, batch>>
    BY <1>2 DEF Stop
  <2>2. TypeInv' /\ BacklogPeers' /\ BatchInv(batch, backlog)'
    BY <2>1 DEF IInv, TypeInv, BacklogPeers, None
  <2>3. StartupFds' /\ ConnInv'
    BY <2>1 DEF StartupFds, ConnInv
  <2> QED BY <2>2, <2>3 DEF IInv
<1> QED BY <1>1, <1>2

\* The loop accepts a connection from k on descriptor f, and descriptor old,
\* if it is one, is closed; f and old may be the same.  When epoll_ctl cannot
\* add f, it is closed as well.
Accepts(k, f, old, ok) ==
  /\ phase = "loop" /\ batch # <<>> /\ batch' = Tail(batch)
  /\ Head(batch).listen = TRUE /\ Head(batch).fd = k
  /\ fdtab[f] = None
  /\ fdtab' = [g \in Fds |-> IF g = f THEN IF ok THEN Head(backlog[k]) ELSE None
                             ELSE IF g = old THEN None ELSE fdtab[g]]
  /\ connections' = [g \in (DOMAIN connections \ {old}) \cup {f} |->
                       IF g = f THEN NewConnection(k) ELSE connections[g]]
  /\ failed' = IF ok THEN failed \ {f} ELSE failed \cup {f}
  /\ backlog' = [backlog EXCEPT ![k] = Tail(@)]
  /\ armed' \in SUBSET Fds /\ g_worker_fds' \in [Workers -> Fds \cup {None}]
  /\ UNCHANGED <<phase, peer>>

(* Accepting a connection keeps the books. *)
LEMMA AcceptStep ==
  ASSUME IInv, NEW k \in Listeners, NEW f \in Fds, NEW old \in Fds \cup {None},
         NEW ok \in BOOLEAN, Accepts(k, f, old, ok)
  PROVE  IInv'
<1> USE DEF Accepts
<1>1. backlog[k] # <<>>
  <2>1. Head(batch) = batch[1] /\ 1 \in DOMAIN batch
    BY Queue DEF IInv, TypeInv
  <2> QED BY <2>1 DEF IInv, BatchInv
<1>2. /\ backlog' \in [Listeners -> Seq(Nat)] /\ BacklogPeers'
      /\ Head(backlog[k]) \in 1 .. Len(peer) /\ peer[Head(backlog[k])] = k
      /\ \A l \in Listeners : l # k => backlog'[l] = backlog[l]
  BY <1>1, Accepted DEF IInv
<1>3. batch' \in Seq(Event) /\ BatchInv(batch', backlog')
  BY <1>2, RestOfBatch DEF IInv
<1>4. TypeInv'
  BY <1>2, <1>3 DEF IInv, TypeInv, None
<1>5. /\ OpenFds' = (OpenFds \ {old}) \cup (IF ok THEN {f} ELSE {}) /\ f \notin OpenFds
      /\ OpenFds \subseteq DOMAIN connections /\ DOMAIN connections \subseteq Fds
  BY <1>2 DEF IInv, ConnInv, OpenFds, None
<1>6. DOMAIN connections' = (DOMAIN connections \ {old}) \cup {f}
  OBVIOUS
<1>7. ASSUME NEW g \in OpenFds'
      PROVE  Belongs(connections'[g], fdtab'[g], peer'[fdtab'[g]])
  <2>1. CASE g = f
    <3>1. connections'[g] = NewConnection(k) /\ peer'[fdtab'[g]] = k
      BY <1>2, <1>5, <1>7, <2>1
    <3> QED BY <3>1, NewBelongs
  <2>2. CASE g # f
    <3>1. g \in OpenFds /\ connections'[g] = connections[g] /\ fdtab'[g] = fdtab[g]
      BY <1>5, <1>7, <2>2 DEF OpenFds
    <3> QED BY <3>1 DEF IInv, ConnInv
  <2> QED BY <2>1, <2>2
<1>8. ASSUME NEW g \in DOMAIN connections' \ OpenFds'
      PROVE  g \in failed' /\ connections'[g].send_buffer = <<>>
  <2>1. CASE g = f
    <3>1. connections'[g] = NewConnection(k) /\ ~ok
      BY <1>5, <1>6, <1>8, <2>1
    <3> QED BY <2>1, <3>1 DEF NewConnection
  <2>2. CASE g # f
    <3>1. g \in DOMAIN connections \ OpenFds /\ connections'[g] = connections[g]
      BY <1>5, <1>6, <1>8, <2>2
    <3>2. g \in failed /\ connections[g].send_buffer = <<>>
      BY <3>1 DEF IInv, ConnInv
    <3> QED BY <2>2, <3>1, <3>2
  <2> QED BY <2>1, <2>2
<1>9. OpenFds' \subseteq DOMAIN connections' /\ DOMAIN connections' \subseteq Fds
  BY <1>5, <1>6
<1>10. ConnInv'
  BY <1>7, <1>8, <1>9 DEF ConnInv
<1>11. StartupFds'
  BY DEF StartupFds
<1> QED BY <1>2, <1>3, <1>4, <1>10, <1>11 DEF IInv

(* The event of a descriptor is about a descriptor. *)
LEMMA EventFd ==
  ASSUME IInv, Due(FALSE)
  PROVE  Head(batch).fd \in Fds
<1>1. Head(batch) = batch[1] /\ 1 \in DOMAIN batch
  BY Queue DEF IInv, TypeInv, Due
<1> QED BY <1>1 DEF IInv, BatchInv, Due

(* An event is handled by closing its descriptor, or leaving it open with  *)
(* a Connection that still belongs to what is behind it.                   *)
LEMMA HandledStep ==
  ASSUME IInv, Due(FALSE), batch' = Tail(batch), UNCHANGED <<phase, peer, backlog>>,
         g_worker_fds' \in [Workers -> Fds \cup {None}],
         fdtab' \in [Fds -> 0 .. Len(peer)], armed' \in SUBSET Fds, ConnInv'
  PROVE  IInv'
<1>1. batch' \in Seq(Event) /\ BatchInv(batch', backlog')
  BY RestOfBatch DEF IInv, Due
<1>2. TypeInv' /\ BacklogPeers'
  BY <1>1 DEF IInv, TypeInv, BacklogPeers
<1>3. StartupFds'
  BY DEF StartupFds, Due
<1> QED BY <1>1, <1>2, <1>3 DEF IInv

(* Unregister leaves a registration of descriptors. *)
LEMMA UnregisterType ==
  ASSUME IInv, NEW f
  PROVE  Unregister(f) \in [Workers -> Fds \cup {None}]
BY DEF IInv, TypeInv, Unregister

(* The events of one batch, one by one. *)
LEMMA HandleSteps ==
  ASSUME IInv, Handle
  PROVE  IInv'
<1>1. CASE AcceptClient
  <2>1. PICK f \in Fds : f = LowestFree /\ fdtab[f] = None
    BY <1>1, LowestFreeIsFree DEF AcceptClient
  <2>2. PICK ok \in BOOLEAN :
        /\ phase = "loop" /\ batch # <<>> /\ Head(batch).listen = TRUE /\ Head(batch).fd = Client
        /\ batch' = Tail(batch)
        /\ fdtab' = [fdtab EXCEPT ![f] = IF ok THEN Head(backlog[Client]) ELSE None]
        /\ connections' = [g \in DOMAIN connections \cup {f} |->
                             IF g = f THEN NewConnection(Client) ELSE connections[g]]
        /\ failed' = IF ok THEN failed \ {f} ELSE failed \cup {f}
        /\ armed' \in SUBSET (armed \cup {f})
        /\ backlog' = [backlog EXCEPT ![Client] = Tail(@)]
        /\ UNCHANGED <<phase, peer, g_worker_fds>>
    BY <1>1, <2>1 DEF AcceptClient, Due, Adds
  <2>3. fdtab' = [g \in Fds |-> IF g = f THEN IF ok THEN Head(backlog[Client]) ELSE None
                                ELSE IF g = None THEN None ELSE fdtab[g]]
    <3>1. None \notin Fds
      BY DEF Fds, None
    <3> QED BY <2>2, <3>1 DEF IInv, TypeInv
  <2>4. connections' = [g \in (DOMAIN connections \ {None}) \cup {f} |->
                          IF g = f THEN NewConnection(Client) ELSE connections[g]]
    <3>1. None \notin DOMAIN connections
      BY <2>2 DEF IInv, ConnInv, Fds, None
    <3> QED BY <2>2, <3>1
  <2>5. /\ Client \in Listeners /\ None \in Fds \cup {None} /\ armed' \in SUBSET Fds
        /\ g_worker_fds' \in [Workers -> Fds \cup {None}]
    BY <2>2 DEF IInv, TypeInv, Listeners
  <2>6. Accepts(Client, f, None, ok)
    BY <2>1, <2>2, <2>3, <2>4, <2>5 DEF Accepts
  <2> QED BY <2>5, <2>6, AcceptStep
<1>2. CASE AcceptWorker
  <2>1. PICK f \in Fds : f = LowestFree /\ fdtab[f] = None
    BY <1>2, LowestFreeIsFree DEF AcceptWorker
  <2>2. PICK k \in Workers : k = Head(batch).fd
    BY <1>2 DEF AcceptWorker
  <2>3. PICK old \in Fds \cup {None} : old = g_worker_fds[k]
    BY DEF IInv, TypeInv
  <2>4. PICK ok \in BOOLEAN :
        /\ phase = "loop" /\ batch # <<>> /\ Head(batch).listen = TRUE
        /\ batch' = Tail(batch)
        /\ fdtab' = [g \in Fds |-> IF g = f THEN IF ok THEN Head(backlog[k]) ELSE None
                                   ELSE IF g = old THEN None ELSE fdtab[g]]
        /\ failed' = IF ok THEN failed \ {f} ELSE failed \cup {f}
        /\ armed' \in SUBSET (armed \cup {f})
        /\ g_worker_fds' = [g_worker_fds EXCEPT ![k] = IF ok THEN f ELSE None]
        /\ backlog' = [backlog EXCEPT ![k] = Tail(@)]
        /\ UNCHANGED <<phase, peer>>
    BY <1>2, <2>1, <2>2, <2>3 DEF AcceptWorker, Due, Adds
  <2>5. connections' = [g \in (DOMAIN connections \ {old}) \cup {f} |->
                          IF g = f THEN NewConnection(k) ELSE connections[g]]
    BY <1>2, <2>1, <2>2, <2>3 DEF AcceptWorker, Without
  <2>6. /\ k \in Listeners /\ armed' \in SUBSET Fds
        /\ g_worker_fds' \in [Workers -> Fds \cup {None}]
    BY <2>4 DEF IInv, TypeInv, Listeners
  <2>7. Accepts(k, f, old, ok)
    BY <2>1, <2>2, <2>4, <2>5, <2>6 DEF Accepts
  <2> QED BY <2>6, <2>7, AcceptStep
<1>3. CASE AcceptFails
  <2>1. /\ phase = "loop" /\ batch # <<>> /\ batch' = Tail(batch)
        /\ UNCHANGED <<phase, peer, backlog, fdtab, armed, failed, connections, g_worker_fds>>
    BY <1>3 DEF AcceptFails, Due, kernel
  <2>2. batch' \in Seq(Event) /\ BatchInv(batch', backlog')
    BY <2>1, RestOfBatch DEF IInv
  <2>3. TypeInv' /\ BacklogPeers' /\ StartupFds'
    BY <2>1, <2>2 DEF IInv, TypeInv, BacklogPeers, StartupFds
  <2>4. ConnInv'
    BY <2>1 DEF IInv, ConnInv, OpenFds
  <2> QED BY <2>2, <2>3, <2>4 DEF IInv
<1>4. CASE HandleHangup
  <2>1. PICK f \in Fds : f = Head(batch).fd
    BY <1>4, EventFd DEF HandleHangup
  <2>2. /\ Due(FALSE) /\ CloseFd(f) /\ batch' = Tail(batch)
        /\ UNCHANGED <<phase, peer, backlog, failed>>
        /\ g_worker_fds' \in {Unregister(f), g_worker_fds}
    BY <1>4, <2>1 DEF HandleHangup
  <2>3. g_worker_fds' \in [Workers -> Fds \cup {None}]
    BY <2>2, UnregisterType DEF IInv, TypeInv
  <2>4. fdtab' \in [Fds -> 0 .. Len(peer')] /\ armed' \in SUBSET Fds /\ ConnInv'
    BY <2>2, CloseStep DEF IInv, Due
  <2> QED BY <2>2, <2>3, <2>4, HandledStep
<1>5. CASE HandleReadWrite
  <2>1. PICK f \in Fds : f = Head(batch).fd
    BY <1>5, EventFd DEF HandleReadWrite
  <2>2. /\ Due(FALSE) /\ phase = "loop" /\ f \in DOMAIN connections
        /\ batch' = Tail(batch) /\ UNCHANGED <<phase, peer, backlog, failed>>
        /\ g_worker_fds' \in {Unregister(f), g_worker_fds} /\ fdtab[f] # None
    BY <1>5, <2>1 DEF HandleReadWrite, Due
  <2>3. g_worker_fds' \in [Workers -> Fds \cup {None}]
    BY <2>2, UnregisterType DEF IInv, TypeInv
  <2>4. CASE CloseFd(f)
    <3>1. fdtab' \in [Fds -> 0 .. Len(peer')] /\ armed' \in SUBSET Fds /\ ConnInv'
      BY <2>2, <2>4, CloseStep DEF IInv
    <3> QED BY <2>2, <2>3, <3>1, HandledStep
  <2>5. CASE ~CloseFd(f)
    <3> DEFINE ev    == Head(batch).ev
               out   == IF "out" \in ev THEN Flushed(connections[f], f) ELSE connections[f]
               after == IF "in" \in ev /\ ~("out" \in ev /\ out.send_buffer = <<>>
                                            /\ connections[f].close_after_send)
                        THEN Processed(out, fdtab[f]) ELSE out
    <3>0. out \in {connections[f], Flushed(connections[f], f)} /\ after \in {out, Processed(out, fdtab[f])}
      OBVIOUS
    <3>1. /\ connections' = [connections EXCEPT ![f] = after]
          /\ armed' \in {armed, armed \cup {f}} /\ UNCHANGED fdtab
      BY <1>5, <2>1, <2>5 DEF HandleReadWrite
    <3> HIDE DEF out, after
    <3>2. /\ f \in OpenFds
          /\ Belongs(connections[f], fdtab[f], peer[fdtab[f]]) /\ fdtab[f] \in Nat
      BY <2>2 DEF IInv, TypeInv, ConnInv, OpenFds
    <3>3. Belongs(out, fdtab[f], peer[fdtab[f]])
      BY <3>0, <3>2, StillBelongs
    <3>4. Belongs(after, fdtab[f], peer[fdtab[f]])
      BY <3>0, <3>2, <3>3, StillBelongs
    <3>5. ConnInv'
      <4>1. /\ DOMAIN connections' = DOMAIN connections /\ OpenFds' = OpenFds
            /\ \A g \in DOMAIN connections :
                 connections'[g] = IF g = f THEN after ELSE connections[g]
        BY <3>1 DEF OpenFds
      <4> QED BY <2>2, <3>1, <3>2, <3>4, <4>1 DEF IInv, ConnInv
    <3>6. fdtab' \in [Fds -> 0 .. Len(peer)] /\ armed' \in SUBSET Fds
      BY <3>1 DEF IInv, TypeInv
    <3> QED BY <2>2, <2>3, <3>5, <3>6, HandledStep
  <2> QED BY <2>4, <2>5
<1>6. CASE HandleStale
  <2>1. PICK f \in Fds : f = Head(batch).fd
    BY <1>6, EventFd DEF HandleStale
  <2>2. /\ Due(FALSE) /\ fdtab[f] = None /\ batch' = Tail(batch) /\ phase = "loop"
        /\ connections' \in {connections, Without(f, connections)}
        /\ UNCHANGED <<phase, peer, backlog, fdtab, armed, failed, g_worker_fds>>
    BY <1>6, <2>1 DEF HandleStale, Due, kernel
  <2>3. /\ DOMAIN connections' \in {DOMAIN connections, DOMAIN connections \ {f}}
        /\ \A g \in DOMAIN connections' : connections'[g] = connections[g]
    BY <2>2 DEF Without
  <2>4. OpenFds' = OpenFds /\ f \notin OpenFds
    BY <2>2 DEF OpenFds
  <2>5. ConnInv'
    BY <2>2, <2>3, <2>4 DEF IInv, ConnInv
  <2>6. /\ fdtab' \in [Fds -> 0 .. Len(peer)] /\ armed' \in SUBSET Fds
        /\ g_worker_fds' \in [Workers -> Fds \cup {None}]
    BY <2>2 DEF IInv, TypeInv
  <2> QED BY <2>2, <2>5, <2>6, HandledStep
<1> QED BY <1>1, <1>2, <1>3, <1>4, <1>5, <1>6 DEF Handle

(* Every step keeps the books. *)
LEMMA NextIInv ==
  ASSUME IInv, [Next]_vars
  PROVE  IInv'
<1>1. CASE UNCHANGED vars
  BY <1>1, KernelSteps DEF IInv, TypeInv, vars, kernel
<1>2. ASSUME NEW c \in Made, Ask(c) PROVE IInv'
  BY <1>2, KernelSteps DEF IInv, TypeInv, Ask, FdOf
<1>3. ASSUME NEW c \in Made, NEW s \in {"fin", "reset"}, Leave(c, s) PROVE IInv'
  BY <1>3, KernelSteps DEF IInv, TypeInv, Leave, FdOf
<1>4. ASSUME NEW f \in Fds, Fill(f) \/ Drain(f) PROVE IInv'
  BY <1>4, KernelSteps DEF IInv, TypeInv, Fill, Drain
<1>5. CASE Next
  BY <1>2, <1>3, <1>4, <1>5, ConnectStep, StartupAcceptStep, EnterLoopStep, WaitAndStopSteps,
     HandleSteps DEF Next
<1> QED BY <1>1, <1>5

(***************************************************************************)
(* The bookkeeping of the event loop is exact: `connections' has an entry  *)
(* for every open descriptor, it names the peer that is really there, and  *)
(* what is queued for it are replies to its requests.  An entry of a       *)
(* closed descriptor is one that epoll_ctl could not add, and nothing is   *)
(* queued for it.                                                          *)
(***************************************************************************)
THEOREM BookkeepingExact == Spec => []ConnectionsMatch
<1>1. Init => IInv
  BY InitIInv
<1>2. IInv /\ [Next]_vars => IInv'
  BY NextIInv
<1>3. IInv => ConnectionsMatch
  BY DEF IInv, ConnInv, OpenFds, Belongs, ConnectionsMatch
<1> QED BY <1>1, <1>2, <1>3, PTL DEF Spec

-----------------------------------------------------------------------------
(* What the registration of workers needs *)

NoReset == \A c \in Conns : status[c] # "reset"

KernelTypes ==
  /\ Len(peer) <= MaxConns
  /\ status \in [Conns -> {"up", "fin", "reset"}]
  /\ io \in [Conns -> {"none", "asked", "read", "answered"}]
  /\ armed \in SUBSET OpenFds /\ full \in SUBSET OpenFds

\* What waits is newer than what the same peer has open, in order.
BacklogNewer ==
  \A l \in Workers : \A i \in DOMAIN backlog[l] :
    /\ \A j \in DOMAIN backlog[l] : i < j => backlog[l][i] < backlog[l][j]
    /\ \A f \in OpenFds : peer[fdtab[f]] = l => fdtab[f] < backlog[l][i]

\* Only a client with a reply that is not sent yet is closed after sending.
ClosesAfterReply ==
  phase = "loop" => \A f \in OpenFds :
    connections[f].close_after_send =>
      connections[f].worker = Client /\ connections[f].send_buffer # <<>>

Registered ==
  \A k \in Workers : g_worker_fds[k] # None =>
    g_worker_fds[k] \in OpenFds /\ peer[fdtab[g_worker_fds[k]]] = k

\* No descriptor has two events in a batch, and one that hung up is still
\* the client's that did.
EventsFresh ==
  /\ \A i \in DOMAIN batch : "err" \notin batch[i].ev
  /\ \A i, j \in DOMAIN batch :
       i # j /\ ~batch[i].listen /\ ~batch[j].listen => batch[i].fd # batch[j].fd
  /\ \A i \in DOMAIN batch : ~batch[i].listen /\ "rdhup" \in batch[i].ev =>
       /\ batch[i].fd \in OpenFds
       /\ peer[fdtab[batch[i].fd]] = Client /\ status[fdtab[batch[i].fd]] # "up"

JInv ==
  /\ IInv /\ KernelTypes /\ BacklogNewer /\ ClosesAfterReply
  /\ NoReset /\ phase # "stopped" => Registered /\ EventsFresh

(* Behind an open descriptor there is a connection that was made. *)
LEMMA OpenIsMade ==
  ASSUME TypeInv, KernelTypes, NEW f \in OpenFds
  PROVE  /\ f \in Fds /\ fdtab[f] \in Nat /\ fdtab[f] # None
         /\ fdtab[f] <= Len(peer) /\ fdtab[f] \in Conns /\ Len(peer) \in Nat
<1>1. f \in Fds /\ fdtab[f] # None /\ fdtab[f] \in 0 .. Len(peer) /\ Len(peer) \in Nat
  BY DEF TypeInv, OpenFds
<1> QED BY <1>1, ConnAssumption DEF KernelTypes, Conns, None

(* The registration and the events do not change when no descriptor is     *)
(* opened or closed and nobody leaves.                                     *)
LEMMA PeerSteps ==
  ASSUME JInv, [Next]_vars,
         UNCHANGED <<phase, peer, status, backlog, fdtab, connections, g_worker_fds, batch>>,
         armed' \in SUBSET OpenFds, full' \in SUBSET OpenFds,
         io' \in [Conns -> {"none", "asked", "read", "answered"}]
  PROVE  JInv'
<1>1. IInv'
  BY NextIInv DEF JInv
<1>2. OpenFds' = OpenFds /\ NoReset' = NoReset
  BY DEF OpenFds, NoReset
<1>3. KernelTypes' /\ BacklogNewer' /\ ClosesAfterReply'
  BY <1>2 DEF JInv, KernelTypes, BacklogNewer, ClosesAfterReply
<1>4. Registered => Registered'
  BY <1>2 DEF Registered
<1>5. EventsFresh => EventsFresh'
  BY <1>2 DEF EventsFresh
<1> QED BY <1>1, <1>2, <1>3, <1>4, <1>5 DEF JInv

(* A request is sent, a socket fills or empties. *)
LEMMA RequestSteps ==
  ASSUME JInv, Next,
         \/ \E c \in Made : Ask(c)
         \/ \E f \in Fds : Fill(f) \/ Drain(f)
  PROVE  JInv'
<1>1. ASSUME NEW c \in Made, Ask(c) PROVE JInv'
  <2>1. FdOf(c) \subseteq OpenFds
    BY DEF FdOf, OpenFds, Made, None
  <2>2. /\ armed' \in SUBSET OpenFds /\ full' \in SUBSET OpenFds
        /\ UNCHANGED <<phase, peer, status, backlog, fdtab, connections, g_worker_fds, batch>>
    BY <1>1, <2>1 DEF Ask, JInv, KernelTypes
  <2>3. io' \in [Conns -> {"none", "asked", "read", "answered"}]
    BY <1>1 DEF Ask, JInv, KernelTypes
  <2> QED BY <2>2, <2>3, PeerSteps
<1>2. ASSUME NEW f \in Fds, Fill(f) PROVE JInv'
  <2>1. /\ armed' \in SUBSET OpenFds /\ full' \in SUBSET OpenFds
        /\ UNCHANGED <<phase, peer, status, io, backlog, fdtab, connections, g_worker_fds, batch>>
    BY <1>2 DEF Fill, JInv, KernelTypes, OpenFds
  <2> QED BY <2>1, PeerSteps DEF JInv, KernelTypes
<1>3. ASSUME NEW f \in Fds, Drain(f) PROVE JInv'
  <2>1. /\ armed' \in SUBSET OpenFds /\ full' \in SUBSET OpenFds
        /\ UNCHANGED <<phase, peer, status, io, backlog, fdtab, connections, g_worker_fds, batch>>
    BY <1>3 DEF Drain, JInv, KernelTypes
  <2> QED BY <2>1, PeerSteps DEF JInv, KernelTypes
<1> QED BY <1>1, <1>2, <1>3

(* A peer leaves. *)
LEMMA LeaveStep ==
  ASSUME JInv, Next, NEW c \in Made, NEW s \in {"fin", "reset"}, Leave(c, s)
  PROVE  JInv'
<1>1. IInv'
  BY NextIInv DEF JInv
<1>2. /\ status' = [status EXCEPT ![c] = s] /\ armed' = armed \cup FdOf(c)
      /\ UNCHANGED <<phase, peer, io, backlog, fdtab, full, connections, g_worker_fds, batch>>
  BY DEF Leave
<1>3. OpenFds' = OpenFds /\ FdOf(c) \subseteq OpenFds
  BY <1>2 DEF FdOf, OpenFds, Made, None
<1>4. KernelTypes' /\ BacklogNewer' /\ ClosesAfterReply'
  BY <1>2, <1>3 DEF JInv, KernelTypes, BacklogNewer, ClosesAfterReply
<1>5. NoReset' => NoReset /\ \A d \in Conns : status[d] # "up" => status'[d] # "up"
  <2>1. c \in Conns
    BY ConnAssumption DEF JInv, IInv, TypeInv, KernelTypes, Made, Conns
  <2>2. s = "fin" => status[c] = "up"
    BY DEF Leave
  <2> QED BY <1>2, <2>1, <2>2 DEF NoReset, JInv, KernelTypes
<1>6. Registered => Registered'
  BY <1>2, <1>3 DEF Registered
<1>7. NoReset' /\ EventsFresh => EventsFresh'
  BY <1>2, <1>3, <1>5, OpenIsMade DEF EventsFresh, JInv, IInv
<1> QED BY <1>1, <1>2, <1>4, <1>5, <1>6, <1>7 DEF JInv

(* A peer connects: the newest connection of all goes to the end of its    *)
(* backlog.                                                                *)
LEMMA ConnectNewer ==
  ASSUME JInv, Next, NEW l \in Listeners, Connect(l)
  PROVE  JInv'
<1>1. IInv'
  BY NextIInv DEF JInv
<1>2. PICK n \in Nat : n = Len(peer) /\ n < MaxConns
  <2>1. peer \in Seq(Listeners)
    BY DEF JInv, IInv, TypeInv
  <2>2. Len(peer) < MaxConns
    BY DEF Connect
  <2>3. Len(peer) \in Nat
    BY <2>1
  <2> QED BY <2>2, <2>3
<1>3. /\ peer' = Append(peer, l)
      /\ backlog' = [backlog EXCEPT ![l] = Append(@, n + 1)]
      /\ UNCHANGED <<phase, status, io, fdtab, armed, full, connections, g_worker_fds, batch>>
  BY <1>2 DEF Connect, kernel
<1>4. Len(peer') = n + 1 /\ \A c \in 1 .. n : peer'[c] = peer[c]
  <2>1. peer \in Seq(Listeners)
    BY DEF JInv, IInv, TypeInv
  <2>2. \A s \in Seq(Listeners) : /\ Len(Append(s, l)) = Len(s) + 1
                                  /\ \A c \in 1 .. Len(s) : Append(s, l)[c] = s[c]
    OBVIOUS
  <2> QED BY <1>2, <1>3, <2>1, <2>2
<1>5. OpenFds' = OpenFds /\ \A f \in OpenFds : fdtab[f] \in 1 .. n /\ peer'[fdtab[f]] = peer[fdtab[f]]
  BY <1>2, <1>3, <1>4, OpenIsMade DEF OpenFds, JInv, IInv, None
<1>6. KernelTypes'
  BY <1>2, <1>3, <1>4, <1>5, ConnAssumption DEF JInv, KernelTypes
<1>7. BacklogNewer'
  <2> SUFFICES ASSUME NEW m \in Workers, NEW i \in DOMAIN backlog'[m]
               PROVE  /\ \A j \in DOMAIN backlog'[m] : i < j => backlog'[m][i] < backlog'[m][j]
                      /\ \A f \in OpenFds' : peer'[fdtab'[f]] = m => fdtab'[f] < backlog'[m][i]
    BY DEF BacklogNewer
  <2> SUFFICES /\ \A j \in DOMAIN backlog'[m] : i < j => backlog'[m][i] < backlog'[m][j]
               /\ \A f \in OpenFds : peer[fdtab[f]] = m => fdtab[f] < backlog'[m][i]
    BY <1>3, <1>5
  <2>0. m \in Listeners
    BY DEF Listeners
  <2>1. CASE m # l
    <3>1. backlog'[m] = backlog[m]
      BY <1>3, <2>0, <2>1 DEF JInv, IInv, TypeInv
    <3> QED BY <3>1 DEF JInv, BacklogNewer
  <2>2. CASE m = l
    <3>1. PICK q \in Seq(Nat) : q = backlog[m] /\ backlog'[m] = Append(q, n + 1)
      BY <1>3, <2>0, <2>2 DEF JInv, IInv, TypeInv
    <3>2. \A j \in DOMAIN q : q[j] \in 1 .. n
      BY <1>2, <2>0, <3>1 DEF JInv, IInv, BacklogPeers
    <3>3. /\ \A j, h \in DOMAIN q : j < h => q[j] < q[h]
          /\ \A j \in DOMAIN q : \A f \in OpenFds : peer[fdtab[f]] = m => fdtab[f] < q[j]
      BY <3>1 DEF JInv, BacklogNewer
    <3>4. \A j \in DOMAIN Append(q, n + 1) :
             \/ j \in DOMAIN q /\ Append(q, n + 1)[j] = q[j]
             \/ j = Len(q) + 1 /\ Append(q, n + 1)[j] = n + 1
      OBVIOUS
    <3>5. DOMAIN q = 1 .. Len(q) /\ Len(q) \in Nat
      OBVIOUS
    <3>6. \A j \in DOMAIN backlog'[m] : i < j => backlog'[m][i] < backlog'[m][j]
      BY <3>1, <3>2, <3>3, <3>4, <3>5
    <3>7. \A f \in OpenFds : peer[fdtab[f]] = m => fdtab[f] < backlog'[m][i]
      BY <1>5, <3>1, <3>3, <3>4
    <3> QED BY <3>6, <3>7
  <2> QED BY <2>1, <2>2
<1>8. ClosesAfterReply' /\ NoReset' = NoReset
  BY <1>3, <1>5 DEF JInv, ClosesAfterReply, NoReset
<1>9. (Registered => Registered') /\ (EventsFresh => EventsFresh')
  BY <1>3, <1>5 DEF Registered, EventsFresh
<1> QED BY <1>1, <1>3, <1>6, <1>7, <1>8, <1>9 DEF JInv

(* Taking the first connection of a backlog, the oldest of those that      *)
(* wait, onto a descriptor leaves the rest newer.                          *)
LEMMA TakesOldest ==
  ASSUME JInv, NEW k \in Listeners, backlog[k] # <<>>, NEW f \in Fds, UNCHANGED peer,
         backlog' = [backlog EXCEPT ![k] = Tail(@)],
         fdtab'[f] \in {Head(backlog[k]), None},
         \A g \in Fds : g # f => fdtab'[g] \in {fdtab[g], None}
  PROVE  BacklogNewer' /\ OpenFds' \subseteq OpenFds \cup {f}
<1>1. OpenFds' \subseteq OpenFds \cup {f} /\ \A g \in OpenFds' : g # f => fdtab'[g] = fdtab[g]
  BY DEF OpenFds
<1>2. PICK q \in Seq(Nat) : q = backlog[k]
  BY DEF JInv, IInv, TypeInv
<1>3. /\ backlog'[k] = Tail(q) /\ (f \in OpenFds' => fdtab'[f] = q[1]) /\ 1 \in DOMAIN q
      /\ \A i \in DOMAIN Tail(q) : i + 1 \in DOMAIN q /\ 1 < i + 1 /\ i \in Nat /\ Tail(q)[i] = q[i + 1]
  BY <1>2 DEF JInv, IInv, TypeInv, OpenFds
<1>4. peer[q[1]] = k
  BY <1>2, <1>3 DEF JInv, IInv, BacklogPeers
<1> SUFFICES ASSUME NEW m \in Workers, NEW i \in DOMAIN backlog'[m]
             PROVE  /\ \A j \in DOMAIN backlog'[m] : i < j => backlog'[m][i] < backlog'[m][j]
                    /\ \A g \in OpenFds' : peer[fdtab'[g]] = m => fdtab'[g] < backlog'[m][i]
  BY <1>1 DEF BacklogNewer
<1>5. CASE m # k
  <2>1. backlog'[m] = backlog[m]
    BY <1>5 DEF JInv, IInv, TypeInv, Listeners
  <2> QED BY <1>1, <1>3, <1>4, <1>5, <2>1 DEF JInv, BacklogNewer
<1>6. CASE m = k
  <2>1. /\ \A j, h \in DOMAIN q : j < h => q[j] < q[h]
        /\ \A j \in DOMAIN q : \A g \in OpenFds : peer[fdtab[g]] = k => fdtab[g] < q[j]
    BY <1>2, <1>6 DEF JInv, BacklogNewer
  <2>2. i \in DOMAIN Tail(q) /\ backlog'[m] = Tail(q)
    BY <1>3, <1>6
  <2>3. ASSUME NEW j \in DOMAIN backlog'[m], i < j PROVE backlog'[m][i] < backlog'[m][j]
    <3>0. j \in DOMAIN Tail(q)
      BY <2>2
    <3>1. /\ i + 1 \in DOMAIN q /\ i \in Nat /\ Tail(q)[i] = q[i + 1]
          /\ j + 1 \in DOMAIN q /\ j \in Nat /\ Tail(q)[j] = q[j + 1]
      BY <1>3, <2>2, <3>0
    <3>2. i + 1 < j + 1
      BY <2>3, <3>1
    <3> QED BY <2>1, <2>2, <3>1, <3>2
  <2>4. ASSUME NEW g \in OpenFds', peer[fdtab'[g]] = m PROVE fdtab'[g] < backlog'[m][i]
    <3>1. i + 1 \in DOMAIN q /\ 1 < i + 1 /\ backlog'[m][i] = q[i + 1]
      BY <1>3, <2>2
    <3>2. CASE g = f
      BY <1>3, <2>1, <3>1, <3>2
    <3>3. CASE g # f
      BY <1>1, <1>6, <2>1, <2>4, <3>1, <3>3
    <3> QED BY <3>2, <3>3
  <2> QED BY <2>3, <2>4
<1> QED BY <1>5, <1>6

(* During startup the registration is exact and there are no events. *)
LEMMA StartupRegistered ==
  ASSUME IInv, phase = "startup"
  PROVE  Registered /\ EventsFresh
<1>1. batch = <<>> /\ DOMAIN batch = {}
  BY DEF IInv, StartupFds
<1>2. EventsFresh
  BY <1>1 DEF EventsFresh
<1>3. Registered
  BY DEF IInv, TypeInv, StartupFds, Registered, OpenFds
<1> QED BY <1>2, <1>3

(* A worker's first connection is accepted. *)
LEMMA StartupAcceptNewer ==
  ASSUME JInv, Next, NEW k \in Workers, StartupAccept(k)
  PROVE  JInv'
<1>1. IInv'
  BY NextIInv DEF JInv
<1>2. PICK f \in Fds : f = LowestFree /\ fdtab[f] = None
  BY StartupHasFree, LowestFreeIsFree DEF StartupAccept, JInv
<1>3. /\ phase = "startup" /\ backlog[k] # <<>>
      /\ fdtab' = [fdtab EXCEPT ![f] = Head(backlog[k])]
      /\ backlog' = [backlog EXCEPT ![k] = Tail(@)]
      /\ UNCHANGED <<phase, peer, status, io, armed, full>>
  BY <1>2 DEF StartupAccept
<1>4. k \in Listeners
  BY DEF Listeners
<1>5. fdtab'[f] = Head(backlog[k]) /\ \A g \in Fds : g # f => fdtab'[g] = fdtab[g]
  BY <1>3 DEF JInv, IInv, TypeInv
<1>6. BacklogNewer'
  BY <1>3, <1>4, <1>5, TakesOldest
<1>7. OpenFds \subseteq OpenFds'
  BY <1>2, <1>5 DEF OpenFds
<1>8. KernelTypes' /\ ClosesAfterReply'
  BY <1>3, <1>7 DEF JInv, KernelTypes, ClosesAfterReply
<1>9. phase' = "startup"
  BY <1>3
<1>10. Registered'
  BY <1>1, <1>9 DEF IInv, TypeInv, StartupFds, Registered, OpenFds
<1>11. batch' = <<>> /\ DOMAIN batch' = {}
  BY <1>1, <1>9 DEF IInv, StartupFds
<1>12. EventsFresh'
  BY <1>11 DEF EventsFresh
<1> QED BY <1>1, <1>6, <1>8, <1>10, <1>12 DEF JInv

(* The loop is entered with nothing to send. *)
LEMMA EnterLoopNewer ==
  ASSUME JInv, Next, EnterLoop
  PROVE  JInv'
<1>1. IInv'
  BY NextIInv DEF JInv
<1>2. /\ phase = "startup" /\ armed' \in SUBSET {g_worker_fds[k] : k \in Workers}
      /\ UNCHANGED <<peer, status, io, backlog, fdtab, full, g_worker_fds, batch>>
      /\ \A k \in Workers : g_worker_fds[k] # None
      /\ \A f \in DOMAIN connections' : \E l : connections'[f] = NewConnection(l)
  BY DEF EnterLoop
<1>3. OpenFds' = OpenFds /\ Registered /\ EventsFresh
  BY <1>2, StartupRegistered DEF OpenFds, JInv
<1>4. BacklogNewer' /\ Registered' /\ EventsFresh'
  BY <1>2, <1>3 DEF JInv, BacklogNewer, Registered, EventsFresh
<1>5. KernelTypes'
  BY <1>2, <1>3 DEF JInv, KernelTypes, Registered
<1>6. ClosesAfterReply'
  <2> SUFFICES ASSUME phase' = "loop", NEW f \in OpenFds'
               PROVE  ~connections'[f].close_after_send
    BY DEF ClosesAfterReply
  <2>1. f \in DOMAIN connections'
    BY <1>1 DEF IInv, ConnInv
  <2> QED BY <1>2, <2>1 DEF NewConnection
<1> QED BY <1>1, <1>4, <1>5, <1>6 DEF JInv

(* Without resets epoll_wait reports at most one event per descriptor, no  *)
(* error, and a hang-up only of a client that has left.                    *)
LEMMA NewBatchFresh ==
  ASSUME JInv, NoReset, EpollWait
  PROVE  EventsFresh'
<1> DEFINE D == {[listen |-> TRUE, fd |-> l, ev |-> {"in"}] :
                   l \in {l \in Listeners : backlog[l] # <<>>}}
                \cup {[listen |-> FALSE, fd |-> f, ev |-> Events(f)] :
                        f \in {f \in armed \ failed : Events(f) # {}}}
<1>1. batch' \in Orders(D) /\ UNCHANGED <<peer, status, fdtab>>
  BY DEF EpollWait
<1>2. ASSUME NEW e \in D
      PROVE  /\ "err" \notin e.ev
             /\ ~e.listen => e = [listen |-> FALSE, fd |-> e.fd, ev |-> Events(e.fd)]
             /\ ~e.listen /\ "rdhup" \in e.ev =>
                  e.fd \in OpenFds /\ peer[fdtab[e.fd]] = Client /\ status[fdtab[e.fd]] # "up"
  <2>1. CASE \E l \in Listeners : e = [listen |-> TRUE, fd |-> l, ev |-> {"in"}]
    BY <2>1
  <2>2. ASSUME NEW f \in armed, e = [listen |-> FALSE, fd |-> f, ev |-> Events(f)]
        PROVE  /\ e.fd = f /\ e.ev = Events(f) /\ e.fd \in OpenFds /\ "err" \notin Events(f)
               /\ "rdhup" \in Events(f) => peer[fdtab[f]] = Client /\ status[fdtab[f]] # "up"
    <3>1. e.fd = f /\ e.ev = Events(f)
      BY <2>2
    <3>2. f \in OpenFds
      BY DEF JInv, KernelTypes
    <3>3. status[fdtab[f]] # "reset"
      BY <3>2, OpenIsMade DEF JInv, IInv, NoReset
    <3> QED BY <3>1, <3>2, <3>3 DEF Events
  <2>3. CASE \E f \in armed : e = [listen |-> FALSE, fd |-> f, ev |-> Events(f)]
    BY <2>2, <2>3
  <2> QED BY <2>1, <2>3
<1> HIDE DEF D
<1>3. /\ \A i \in DOMAIN batch' : batch'[i] \in D
      /\ \A i, j \in DOMAIN batch' : i # j => batch'[i] # batch'[j]
  BY <1>1 DEF Orders
<1>4. \A i \in DOMAIN batch' : "err" \notin batch'[i].ev
  BY <1>2, <1>3
<1>5. \A i, j \in DOMAIN batch' :
        i # j /\ ~batch'[i].listen /\ ~batch'[j].listen => batch'[i].fd # batch'[j].fd
  BY <1>2, <1>3
<1>6. OpenFds' = OpenFds
  BY <1>1 DEF OpenFds
<1>7. \A i \in DOMAIN batch' : ~batch'[i].listen /\ "rdhup" \in batch'[i].ev =>
        /\ batch'[i].fd \in OpenFds'
        /\ peer'[fdtab'[batch'[i].fd]] = Client /\ status'[fdtab'[batch'[i].fd]] # "up"
  BY <1>1, <1>2, <1>3, <1>6
<1> QED BY <1>4, <1>5, <1>7 DEF EventsFresh

(* A batch is fetched, or everything is closed. *)
LEMMA WaitAndStopNewer ==
  ASSUME JInv, Next, EpollWait \/ Stop
  PROVE  JInv'
<1>1. IInv'
  BY NextIInv DEF JInv
<1>2. CASE EpollWait
  <2>1. /\ armed' = {} /\ phase = "loop"
        /\ UNCHANGED <<phase, peer, status, io, backlog, fdtab, full, connections, g_worker_fds>>
    BY <1>2 DEF EpollWait
  <2>2. OpenFds' = OpenFds /\ NoReset' = NoReset
    BY <2>1 DEF OpenFds, NoReset
  <2>3. KernelTypes' /\ BacklogNewer' /\ ClosesAfterReply'
    BY <2>1, <2>2 DEF JInv, KernelTypes, BacklogNewer, ClosesAfterReply
  <2>4. Registered => Registered'
    BY <2>1, <2>2 DEF Registered
  <2> QED BY <1>1, <1>2, <2>1, <2>2, <2>3, <2>4, NewBatchFresh DEF JInv
<1>3. CASE Stop
  <2>1. /\ phase' = "stopped" /\ fdtab' = [f \in Fds |-> None] /\ armed' = {} /\ full' = {}
        /\ UNCHANGED <<peer, status, io, backlog>>
    BY <1>3 DEF Stop
  <2>2. OpenFds' = {}
    BY <2>1 DEF OpenFds
  <2>3. KernelTypes' /\ BacklogNewer' /\ ClosesAfterReply'
    BY <2>1, <2>2 DEF JInv, KernelTypes, BacklogNewer, ClosesAfterReply
  <2> QED BY <1>1, <2>1, <2>3 DEF JInv
<1> QED BY <1>2, <1>3

(* The events that are still to be handled stay fresh when no client's     *)
(* descriptor but that of the event at hand is closed.                     *)
LEMMA RestFresh ==
  ASSUME JInv, EventsFresh, batch # <<>>, batch' = Tail(batch), UNCHANGED <<peer, status>>,
         \A g \in OpenFds : peer[fdtab[g]] = Client /\ (Head(batch).listen \/ Head(batch).fd # g)
                              => fdtab'[g] = fdtab[g]
  PROVE  EventsFresh'
<1>1. Head(batch) = batch[1] /\ 1 \in DOMAIN batch /\ batch' \in Seq(Event)
  BY Queue DEF JInv, IInv, TypeInv
<1>2. \A i \in DOMAIN batch' : i + 1 \in DOMAIN batch /\ i + 1 # 1 /\ batch'[i] = batch[i + 1]
  BY Queue DEF JInv, IInv, TypeInv
<1>3. \A i \in DOMAIN batch' : "err" \notin batch'[i].ev
  BY <1>2 DEF EventsFresh
<1>4. ASSUME NEW i \in DOMAIN batch', NEW j \in DOMAIN batch', i # j,
             ~batch'[i].listen, ~batch'[j].listen
      PROVE  batch'[i].fd # batch'[j].fd
  <2>1. i \in Int /\ j \in Int
    BY <1>1
  <2> QED BY <1>2, <1>4, <2>1 DEF EventsFresh
<1>5. ASSUME NEW i \in DOMAIN batch', ~batch'[i].listen, "rdhup" \in batch'[i].ev
      PROVE  /\ batch'[i].fd \in OpenFds'
             /\ peer'[fdtab'[batch'[i].fd]] = Client /\ status'[fdtab'[batch'[i].fd]] # "up"
  <2>1. PICK g : g = batch'[i].fd /\ g = batch[i + 1].fd
    BY <1>2
  <2>2. g \in OpenFds /\ peer[fdtab[g]] = Client /\ status[fdtab[g]] # "up"
    BY <1>2, <1>5, <2>1 DEF EventsFresh
  <2>3. Head(batch).listen \/ Head(batch).fd # g
    BY <1>1, <1>2, <1>5, <2>1 DEF EventsFresh
  <2>4. fdtab'[g] = fdtab[g] /\ g \in OpenFds'
    BY <2>2, <2>3 DEF OpenFds
  <2> QED BY <2>1, <2>2, <2>4
<1> QED BY <1>3, <1>4, <1>5 DEF EventsFresh

(* A listener that has an event has a connection to accept. *)
LEMMA ListenerHasOne ==
  ASSUME IInv, Due(TRUE)
  PROVE  Head(batch).fd \in Listeners /\ backlog[Head(batch).fd] # <<>>
<1>1. Head(batch) = batch[1] /\ 1 \in DOMAIN batch
  BY Queue DEF IInv, TypeInv, Due
<1> QED BY <1>1 DEF IInv, BatchInv, Due

(* A client is accepted, or nobody can be. *)
LEMMA AcceptClientNewer ==
  ASSUME JInv, Next, AcceptClient \/ AcceptFails
  PROVE  JInv'
<1>1. IInv'
  BY NextIInv DEF JInv
<1>2. CASE AcceptClient
  <2>1. PICK f \in Fds : f = LowestFree /\ fdtab[f] = None
    BY <1>2, LowestFreeIsFree DEF AcceptClient
  <2>2. PICK ok \in BOOLEAN :
        /\ phase = "loop" /\ batch # <<>> /\ Head(batch).listen /\ batch' = Tail(batch)
        /\ fdtab' = [fdtab EXCEPT ![f] = IF ok THEN Head(backlog[Client]) ELSE None]
        /\ connections' = [g \in DOMAIN connections \cup {f} |->
                             IF g = f THEN NewConnection(Client) ELSE connections[g]]
        /\ armed' = armed \cup (IF ok THEN {f} ELSE {})
        /\ backlog' = [backlog EXCEPT ![Client] = Tail(@)]
        /\ UNCHANGED <<phase, peer, status, io, full, g_worker_fds>>
    BY <1>2, <2>1 DEF AcceptClient, Due
  <2>3. Client \in Listeners /\ backlog[Client] # <<>>
    BY <1>2, ListenerHasOne DEF AcceptClient, JInv
  <2>4. /\ fdtab'[f] = IF ok THEN Head(backlog[Client]) ELSE None
        /\ \A g \in Fds : g # f => fdtab'[g] = fdtab[g]
    BY <2>2 DEF JInv, IInv, TypeInv
  <2>5. BacklogNewer' /\ OpenFds' \subseteq OpenFds \cup {f}
    BY <2>2, <2>3, <2>4, TakesOldest
  <2>6. Head(backlog[Client]) # None
    <3>1. Head(backlog[Client]) \in 1 .. Len(peer)
      BY <2>2, <2>3, Accepted DEF JInv, IInv
    <3> QED BY <3>1 DEF None
  <2>7. OpenFds' = OpenFds \cup (IF ok THEN {f} ELSE {}) /\ f \notin OpenFds
    BY <2>1, <2>4, <2>6 DEF OpenFds
  <2>8. KernelTypes'
    BY <2>2, <2>7 DEF JInv, KernelTypes
  <2>9. ClosesAfterReply'
    <3>1. OpenFds \subseteq DOMAIN connections
      BY <2>2 DEF JInv, IInv, ConnInv
    <3>2. \A g \in OpenFds' : /\ g = f \/ g \in OpenFds
                              /\ connections'[g] = IF g = f THEN NewConnection(Client)
                                                   ELSE connections[g]
      BY <2>2, <2>7, <3>1
    <3>3. ~NewConnection(Client).close_after_send
      BY DEF NewConnection
    <3> QED BY <2>2, <2>7, <3>2, <3>3 DEF JInv, ClosesAfterReply
  <2>10. NoReset' = NoReset
    BY <2>2 DEF NoReset
  <2>11. \A g \in OpenFds : fdtab'[g] = fdtab[g]
    BY <2>4, <2>7 DEF OpenFds
  <2>12. Registered => Registered'
    BY <2>2, <2>7, <2>11 DEF Registered
  <2>13. EventsFresh => EventsFresh'
    BY <2>2, <2>11, RestFresh
  <2> QED BY <1>1, <2>2, <2>5, <2>8, <2>9, <2>10, <2>12, <2>13 DEF JInv
<1>3. CASE AcceptFails
  <2>1. /\ phase = "loop" /\ batch # <<>> /\ Head(batch).listen /\ batch' = Tail(batch)
        /\ UNCHANGED <<phase, peer, status, io, backlog, fdtab, armed, full, connections, g_worker_fds>>
    BY <1>3 DEF AcceptFails, Due, kernel
  <2>2. OpenFds' = OpenFds /\ NoReset' = NoReset
    BY <2>1 DEF OpenFds, NoReset
  <2>3. KernelTypes' /\ BacklogNewer' /\ ClosesAfterReply'
    BY <2>1, <2>2 DEF JInv, KernelTypes, BacklogNewer, ClosesAfterReply
  <2>4. Registered => Registered'
    BY <2>1, <2>2 DEF Registered
  <2>5. EventsFresh => EventsFresh'
    BY <2>1, RestFresh
  <2> QED BY <1>1, <2>1, <2>2, <2>3, <2>4, <2>5 DEF JInv
<1> QED BY <1>2, <1>3

(* A worker is accepted again: what is closed is, without resets, an old   *)
(* connection of this worker and of no other peer.                         *)
LEMMA AcceptWorkerNewer ==
  ASSUME JInv, Next, AcceptWorker
  PROVE  JInv'
<1>1. IInv'
  BY NextIInv DEF JInv
<1>2. PICK f \in Fds : f = LowestFree /\ fdtab[f] = None
  BY LowestFreeIsFree DEF AcceptWorker
<1>3. PICK k \in Workers : k = Head(batch).fd
  BY DEF AcceptWorker
<1>4. PICK old \in Fds \cup {None} : old = g_worker_fds[k]
  BY DEF JInv, IInv, TypeInv
<1>5. PICK ok \in BOOLEAN :
      /\ phase = "loop" /\ batch # <<>> /\ Head(batch).listen /\ batch' = Tail(batch)
      /\ fdtab' = [g \in Fds |-> IF g = f THEN IF ok THEN Head(backlog[k]) ELSE None
                                 ELSE IF g = old THEN None ELSE fdtab[g]]
      /\ armed' = (armed \ {old}) \cup (IF ok THEN {f} ELSE {}) /\ full' = full \ {old}
      /\ g_worker_fds' = [g_worker_fds EXCEPT ![k] = IF ok THEN f ELSE None]
      /\ backlog' = [backlog EXCEPT ![k] = Tail(@)]
      /\ UNCHANGED <<phase, peer, status, io>>
  BY <1>2, <1>3, <1>4 DEF AcceptWorker, Due
<1>6. connections' = [g \in (DOMAIN connections \ {old}) \cup {f} |->
                        IF g = f THEN NewConnection(k) ELSE connections[g]]
  BY <1>2, <1>3, <1>4 DEF AcceptWorker, Without
<1>7. k \in Listeners /\ backlog[k] # <<>>
  BY <1>3, ListenerHasOne DEF AcceptWorker, JInv
<1>8. /\ fdtab'[f] = IF ok THEN Head(backlog[k]) ELSE None
      /\ \A g \in Fds : g # f => fdtab'[g] \in {fdtab[g], None}
  BY <1>5
<1>9. BacklogNewer'
  BY <1>5, <1>7, <1>8, TakesOldest
<1>10. Head(backlog[k]) # None /\ peer[Head(backlog[k])] = k
  <2>1. Head(backlog[k]) \in 1 .. Len(peer) /\ peer[Head(backlog[k])] = k
    BY <1>5, <1>7, Accepted DEF JInv, IInv
  <2> QED BY <2>1 DEF None
<1>11. OpenFds' = (OpenFds \ {old}) \cup (IF ok THEN {f} ELSE {}) /\ f \notin OpenFds
  BY <1>2, <1>5, <1>10 DEF OpenFds
<1>12. KernelTypes'
  BY <1>5, <1>11 DEF JInv, KernelTypes
<1>13. ClosesAfterReply'
  <2>1. OpenFds \subseteq DOMAIN connections
    BY <1>5 DEF JInv, IInv, ConnInv
  <2>2. \A g \in OpenFds' : /\ g = f \/ g \in OpenFds
                            /\ connections'[g] = IF g = f THEN NewConnection(k)
                                                 ELSE connections[g]
    BY <1>6, <1>11, <2>1
  <2>3. ~NewConnection(k).close_after_send
    BY DEF NewConnection
  <2> QED BY <1>5, <1>11, <2>2, <2>3 DEF JInv, ClosesAfterReply
<1>14. NoReset' = NoReset
  BY <1>5 DEF NoReset
<1>15. \A g \in OpenFds : g # old => fdtab'[g] = fdtab[g]
  BY <1>5, <1>11 DEF OpenFds
<1>16. Registered => Registered'
  <2> SUFFICES ASSUME Registered, NEW j \in Workers, g_worker_fds'[j] # None
               PROVE  g_worker_fds'[j] \in OpenFds' /\ peer'[fdtab'[g_worker_fds'[j]]] = j
    BY DEF Registered
  <2>1. CASE j = k
    <3>1. g_worker_fds'[j] = f /\ ok
      BY <1>5, <2>1 DEF JInv, IInv, TypeInv
    <3> QED BY <1>5, <1>8, <1>10, <1>11, <2>1, <3>1
  <2>2. CASE j # k
    <3>1. PICK g : g = g_worker_fds[j] /\ g_worker_fds'[j] = g
      BY <1>5, <2>2 DEF JInv, IInv, TypeInv
    <3>2. g \in OpenFds /\ peer[fdtab[g]] = j /\ g # old
      BY <1>4, <2>2, <3>1 DEF Registered
    <3> QED BY <1>5, <1>11, <1>15, <3>1, <3>2
  <2> QED BY <2>1, <2>2
<1>17. Registered /\ EventsFresh => EventsFresh'
  <2> SUFFICES ASSUME Registered, EventsFresh PROVE EventsFresh'
    OBVIOUS
  <2>1. ASSUME NEW g \in OpenFds, peer[fdtab[g]] = Client PROVE fdtab'[g] = fdtab[g]
    <3>1. g # None /\ Client \notin Workers
      BY DEF OpenFds, Fds, None, Client, Workers
    <3>2. g # old
      BY <1>4, <2>1, <3>1 DEF Registered
    <3> QED BY <1>15, <3>2
  <2> QED BY <1>5, <2>1, RestFresh
<1> QED BY <1>1, <1>5, <1>9, <1>12, <1>13, <1>14, <1>16, <1>17 DEF JInv

(* Closing the descriptor of the event at hand, which nobody is registered *)
(* for afterwards.                                                         *)
LEMMA ClosedNewer ==
  ASSUME JInv, Next, Due(FALSE), NEW f \in Fds, f = Head(batch).fd, CloseFd(f),
         batch' = Tail(batch), UNCHANGED <<phase, peer, status, backlog>>,
         io' \in [Conns -> {"none", "asked", "read", "answered"}],
         NoReset /\ Registered /\ EventsFresh =>
           \A k \in Workers : g_worker_fds'[k] \in {g_worker_fds[k], None} /\ g_worker_fds'[k] # f
  PROVE  JInv'
<1>1. IInv'
  BY NextIInv DEF JInv
<1>2. /\ fdtab' = [fdtab EXCEPT ![f] = None] /\ armed' = armed \ {f} /\ full' = full \ {f}
      /\ connections' = Without(f, connections) /\ phase = "loop" /\ batch # <<>>
      /\ ~Head(batch).listen
  BY DEF CloseFd, Due
<1>3. OpenFds' = OpenFds \ {f} /\ \A g \in OpenFds : g # f => fdtab'[g] = fdtab[g]
  BY <1>2 DEF JInv, IInv, TypeInv, OpenFds
<1>4. KernelTypes' /\ BacklogNewer'
  BY <1>2, <1>3 DEF JInv, KernelTypes, BacklogNewer
<1>5. ClosesAfterReply'
  <2>1. \A g \in OpenFds' : connections'[g] = connections[g]
    BY <1>2, <1>3 DEF JInv, IInv, ConnInv, Without
  <2> QED BY <1>2, <1>3, <2>1 DEF JInv, ClosesAfterReply
<1>6. NoReset' = NoReset
  BY DEF NoReset
<1>7. EventsFresh => EventsFresh'
  BY <1>2, <1>3, RestFresh
<1>8. NoReset /\ Registered /\ EventsFresh => Registered'
  BY <1>3 DEF Registered
<1> QED BY <1>1, <1>2, <1>4, <1>5, <1>6, <1>7, <1>8 DEF JInv

(* Unregister touches the entry of the connection's worker only. *)
LEMMA UnregisterFacts ==
  ASSUME IInv, NEW f
  PROVE  \A k \in Workers :
           /\ Unregister(f)[k] \in {g_worker_fds[k], None}
           /\ k = connections[f].worker => Unregister(f)[k] = None
BY DEF IInv, TypeInv, Unregister

(* A hang-up, without resets, is a client's, or of a closed descriptor. *)
LEMMA HangupNewer ==
  ASSUME JInv, Next, HandleHangup
  PROVE  JInv'
<1>1. PICK f \in Fds : f = Head(batch).fd
  BY EventFd DEF HandleHangup, JInv
<1>2. /\ Due(FALSE) /\ CloseFd(f) /\ batch' = Tail(batch)
      /\ UNCHANGED <<phase, peer, status, io, backlog>>
      /\ f \notin DOMAIN connections \/ Head(batch).ev \cap {"rdhup", "err"} # {}
      /\ \/ g_worker_fds' = g_worker_fds
         \/ g_worker_fds' = Unregister(f)
  BY <1>1 DEF HandleHangup
<1>3. ASSUME NoReset, Registered, EventsFresh, NEW k \in Workers
      PROVE  g_worker_fds'[k] \in {g_worker_fds[k], None} /\ g_worker_fds'[k] # f
  <2>1. g_worker_fds'[k] \in {g_worker_fds[k], None}
    BY <1>2, UnregisterFacts DEF JInv
  <2>2. Head(batch) = batch[1] /\ 1 \in DOMAIN batch /\ ~batch[1].listen
    BY <1>2, Queue DEF JInv, IInv, TypeInv, Due
  <2>3. f # None /\ Client \notin Workers
    BY DEF Fds, None, Client, Workers
  <2>4. CASE f \notin DOMAIN connections
    <3>1. f \notin OpenFds
      BY <1>2, <2>4 DEF JInv, IInv, ConnInv, Due
    <3> QED BY <1>3, <2>1, <2>3, <3>1 DEF Registered
  <2>5. CASE Head(batch).ev \cap {"rdhup", "err"} # {}
    <3>1. "rdhup" \in batch[1].ev
      BY <1>3, <2>2, <2>5 DEF EventsFresh
    <3>2. peer[fdtab[f]] = Client
      BY <1>1, <1>3, <2>2, <3>1 DEF EventsFresh
    <3> QED BY <1>3, <2>1, <2>3, <3>2 DEF Registered
  <2> QED BY <1>2, <2>4, <2>5
<1>4. io' \in [Conns -> {"none", "asked", "read", "answered"}]
  BY <1>2 DEF JInv, KernelTypes
<1> QED BY <1>1, <1>2, <1>3, <1>4, ClosedNewer

\* The write and the read half of the handler, on descriptor f.
Halves(f, out, sent, done, reads, after) ==
  LET before == connections[f]
      ev     == Head(batch).ev
      c      == fdtab[f]
  IN  /\ out = IF "out" \in ev THEN Flushed(before, f) ELSE before
      /\ sent = ("out" \in ev /\ out.send_buffer = <<>>)
      /\ done = (sent /\ before.close_after_send)
      /\ reads = ("in" \in ev /\ ~done)
      /\ after = IF reads THEN Processed(out, c) ELSE out
      /\ io' = [io EXCEPT ![c] =
                  IF reads /\ @ = "asked" THEN "read"
                  ELSE IF sent /\ before.send_buffer # <<>> THEN "answered" ELSE @]
      /\ g_worker_fds' = IF reads /\ status[c] = "fin" THEN Unregister(f) ELSE g_worker_fds
      /\ IF done \/ (reads /\ status[c] # "up")
         THEN CloseFd(f)
         ELSE /\ connections' = [connections EXCEPT ![f] = after]
              /\ armed' \in {armed, armed \cup {f}}
              /\ UNCHANGED <<fdtab, full>>

(* The two halves and what surrounds them. *)
LEMMA ReadWriteHalves ==
  ASSUME JInv, HandleReadWrite
  PROVE  \E f \in OpenFds :
           /\ f = Head(batch).fd /\ Due(FALSE) /\ batch' = Tail(batch)
           /\ UNCHANGED <<phase, peer, status, backlog>>
           /\ \E out, sent, done, reads, after : Halves(f, out, sent, done, reads, after)
<1>1. PICK f \in Fds : f = Head(batch).fd
  BY EventFd DEF HandleReadWrite, JInv
<1>2. /\ Due(FALSE) /\ batch' = Tail(batch) /\ UNCHANGED <<phase, peer, status, backlog>>
      /\ fdtab[f] # None
  BY <1>1 DEF HandleReadWrite
<1>3. f \in OpenFds
  BY <1>2 DEF OpenFds
<1>4. \E out, sent, done, reads, after : Halves(f, out, sent, done, reads, after)
  <2> DEFINE ev    == Head(batch).ev
             out   == IF "out" \in ev THEN Flushed(connections[f], f) ELSE connections[f]
             sent  == "out" \in ev /\ out.send_buffer = <<>>
             done  == sent /\ connections[f].close_after_send
             reads == "in" \in ev /\ ~done
             after == IF reads THEN Processed(out, fdtab[f]) ELSE out
  <2>1. Halves(f, out, sent, done, reads, after)
    BY <1>1 DEF HandleReadWrite, Halves
  <2> HIDE DEF out, sent, done, reads, after
  <2> QED BY <2>1
<1> QED BY <1>1, <1>2, <1>3, <1>4

(* The Connection the handler leaves is closed after sending only if it is *)
(* a client's and has something to send.                                   *)
LEMMA AfterCloses ==
  ASSUME NEW before \in Connection, NEW c, NEW f, NEW written \in BOOLEAN, NEW reads \in BOOLEAN,
         before.close_after_send => before.worker = Client /\ before.send_buffer # <<>>,
         NEW out, out = IF written THEN Flushed(before, f) ELSE before,
         ~(written /\ out.send_buffer = <<>> /\ before.close_after_send),
         NEW after, after = IF reads THEN Processed(out, c) ELSE out
  PROVE  after.close_after_send => after.worker = Client /\ after.send_buffer # <<>>
<1>1. /\ out.close_after_send => out.worker = Client /\ out.send_buffer # <<>>
      /\ out.worker = before.worker
      /\ DOMAIN out = {"worker", "send_buffer", "close_after_send"}
  BY DEF Flushed, Connection
<1>2. out.send_buffer \in Seq(Nat)
  BY DEF Flushed, Connection
<1>3. Append(out.send_buffer, c) # <<>>
  BY <1>2
<1> QED BY <1>1, <1>3 DEF Processed

(* A request is read, a reply is sent: a connection that is closed for it  *)
(* is a client's, or its worker is unregistered.                           *)
LEMMA ReadWriteNewer ==
  ASSUME JInv, Next, HandleReadWrite
  PROVE  JInv'
<1>1. IInv'
  BY NextIInv DEF JInv
<1>2. PICK f \in OpenFds :
           /\ f = Head(batch).fd /\ Due(FALSE) /\ batch' = Tail(batch)
           /\ UNCHANGED <<phase, peer, status, backlog>>
           /\ \E out, sent, done, reads, after : Halves(f, out, sent, done, reads, after)
  BY ReadWriteHalves
<1>3. PICK out, sent, done, reads, after : Halves(f, out, sent, done, reads, after)
  BY <1>2
<1>4. PICK c \in Conns : c = fdtab[f] /\ f \in Fds
  BY OpenIsMade DEF JInv, IInv
<1>5. /\ phase = "loop" /\ batch # <<>> /\ ~Head(batch).listen
      /\ OpenFds \subseteq DOMAIN connections
      /\ connections[f] \in Connection /\ connections[f].worker = peer[c]
      /\ connections[f].close_after_send =>
           connections[f].worker = Client /\ connections[f].send_buffer # <<>>
  BY <1>2, <1>4 DEF Due, JInv, IInv, ConnInv, Belongs, ClosesAfterReply
<1>6. io' \in [Conns -> {"none", "asked", "read", "answered"}]
  <2>1. PICK v : io' = [io EXCEPT ![c] = v] /\ v \in {"read", "answered", io[c]}
    BY <1>3, <1>4 DEF Halves
  <2> QED BY <2>1 DEF JInv, KernelTypes
<1>7. CASE done \/ (reads /\ status[c] # "up")
  <2>1. CloseFd(f)
    BY <1>3, <1>4, <1>7 DEF Halves
  <2>2. ASSUME NoReset, Registered, EventsFresh, NEW k \in Workers
        PROVE  g_worker_fds'[k] \in {g_worker_fds[k], None} /\ g_worker_fds'[k] # f
    <3>1. g_worker_fds'[k] \in {g_worker_fds[k], None}
      BY <1>3, UnregisterFacts DEF Halves, JInv
    <3>2. f # None /\ Client \notin Workers
      BY <1>4 DEF Fds, None, Client, Workers
    <3>3. ASSUME g_worker_fds'[k] = f PROVE FALSE
      <4>1. g_worker_fds[k] = f /\ connections[f].worker = k
        BY <1>4, <1>5, <2>2, <3>1, <3>2, <3>3 DEF Registered
      <4>2. ~connections[f].close_after_send
        BY <1>5, <3>2, <4>1
      <4>3. ~done
        BY <1>3, <4>2 DEF Halves
      <4>4. reads /\ status[c] = "fin"
        BY <1>7, <2>2, <4>3 DEF NoReset, JInv, KernelTypes
      <4>5. g_worker_fds'[k] = None
        BY <1>3, <1>4, <4>1, <4>4, UnregisterFacts DEF Halves, JInv
      <4> QED BY <3>2, <3>3, <4>5
    <3> QED BY <3>1, <3>3
  <2> QED BY <1>2, <1>4, <1>6, <2>1, <2>2, ClosedNewer
<1>8. CASE ~(done \/ (reads /\ status[c] # "up"))
  <2>1. /\ connections' = [connections EXCEPT ![f] = after]
        /\ armed' \in {armed, armed \cup {f}}
        /\ UNCHANGED <<fdtab, full, g_worker_fds>>
    BY <1>3, <1>4, <1>8 DEF Halves
  <2>2. OpenFds' = OpenFds /\ NoReset' = NoReset
    BY <1>2, <2>1 DEF OpenFds, NoReset
  <2>3. KernelTypes'
    BY <1>2, <1>6, <2>1, <2>2 DEF JInv, KernelTypes
  <2>4. BacklogNewer'
    BY <1>2, <2>1, <2>2 DEF JInv, BacklogNewer
  <2>5. after.close_after_send => after.worker = Client /\ after.send_buffer # <<>>
    <3>1. PICK before \in Connection, written \in BOOLEAN, rd \in BOOLEAN :
            before = connections[f] /\ written = ("out" \in Head(batch).ev) /\ rd = reads
      <4>1. connections[f] \in Connection
        BY <1>5
      <4>2. reads \in BOOLEAN /\ ("out" \in Head(batch).ev) \in BOOLEAN
        BY <1>3 DEF Halves
      <4> QED BY <4>1, <4>2
    <3>2. /\ out = IF written THEN Flushed(before, f) ELSE before
          /\ ~(written /\ out.send_buffer = <<>> /\ before.close_after_send)
          /\ after = IF rd THEN Processed(out, c) ELSE out
      BY <1>3, <1>4, <1>8, <3>1 DEF Halves
    <3>3. before.close_after_send => before.worker = Client /\ before.send_buffer # <<>>
      BY <1>5, <3>1
    <3> QED BY <3>2, <3>3, AfterCloses
  <2>6. ClosesAfterReply'
    <3>1. \A g \in OpenFds : connections'[g] = IF g = f THEN after ELSE connections[g]
      BY <1>5, <2>1
    <3> QED BY <1>2, <2>2, <2>5, <3>1 DEF JInv, ClosesAfterReply
  <2>7. Registered => Registered'
    BY <1>2, <2>1, <2>2 DEF Registered
  <2>8. EventsFresh => EventsFresh'
    BY <1>2, <1>5, <2>1, RestFresh
  <2> QED BY <1>1, <1>2, <2>2, <2>3, <2>4, <2>6, <2>7, <2>8 DEF JInv
<1> QED BY <1>7, <1>8

(* A Connection whose descriptor is closed is dropped, or stays. *)
LEMMA StaleNewer ==
  ASSUME JInv, Next, HandleStale
  PROVE  JInv'
<1>1. IInv'
  BY NextIInv DEF JInv
<1>2. PICK f \in Fds : f = Head(batch).fd
  BY EventFd DEF HandleStale, JInv
<1>3. /\ phase = "loop" /\ batch # <<>> /\ batch' = Tail(batch) /\ fdtab[f] = None
      /\ connections' \in {connections, Without(f, connections)}
      /\ UNCHANGED <<phase, peer, status, io, backlog, fdtab, armed, full, g_worker_fds>>
  BY <1>2 DEF HandleStale, Due, kernel
<1>4. OpenFds' = OpenFds /\ f \notin OpenFds /\ NoReset' = NoReset
  BY <1>3 DEF OpenFds, NoReset
<1>5. KernelTypes' /\ BacklogNewer'
  BY <1>3, <1>4 DEF JInv, KernelTypes, BacklogNewer
<1>6. ClosesAfterReply'
  <2>1. OpenFds \subseteq DOMAIN connections
    BY <1>3 DEF JInv, IInv, ConnInv
  <2>2. \A g \in OpenFds : connections'[g] = connections[g]
    BY <1>3, <1>4, <2>1 DEF Without
  <2> QED BY <1>3, <1>4, <2>2 DEF JInv, ClosesAfterReply
<1>7. Registered => Registered'
  BY <1>3, <1>4 DEF Registered
<1>8. EventsFresh => EventsFresh'
  BY <1>3, RestFresh
<1> QED BY <1>1, <1>3, <1>4, <1>5, <1>6, <1>7, <1>8 DEF JInv

(* Every step keeps JInv. *)
LEMMA NextJInv ==
  ASSUME JInv, [Next]_vars
  PROVE  JInv'
<1>1. CASE UNCHANGED vars
  BY <1>1, PeerSteps DEF vars, kernel, JInv, KernelTypes
<1>2. CASE Next
  BY <1>2, RequestSteps, LeaveStep, ConnectNewer, StartupAcceptNewer, EnterLoopNewer,
     WaitAndStopNewer, AcceptClientNewer, AcceptWorkerNewer, HangupNewer, StaleNewer,
     ReadWriteNewer
     DEF Next, Handle
<1> QED BY <1>1, <1>2

(* The initial state. *)
LEMMA InitJInv == Init => JInv
<1> SUFFICES ASSUME Init PROVE JInv
  OBVIOUS
<1>1. IInv /\ phase = "startup"
  BY InitIInv DEF Init
<1>2. OpenFds = {} /\ Len(peer) = 0
  BY DEF Init, OpenFds
<1>3. KernelTypes
  BY <1>2, ConnAssumption DEF Init, KernelTypes
<1>4. BacklogNewer /\ ClosesAfterReply
  BY <1>2 DEF Init, BacklogNewer, ClosesAfterReply, Listeners
<1> QED BY <1>1, <1>3, <1>4, StartupRegistered DEF JInv

(* Resets counts the connections that were reset. *)
LEMMA ResetsCount ==
  /\ Resets = 0 => NoReset
  /\ NoReset => Resets = 0
  /\ Resets \in Nat
<1> DEFINE R == {c \in Conns : status[c] = "reset"}
<1>1. IsFiniteSet(Conns) /\ R \subseteq Conns
  BY FS_Interval, ConnAssumption DEF Conns
<1>2. IsFiniteSet(R)
  BY <1>1, FS_Subset
<1>3. Cardinality(R) \in Nat /\ (Cardinality(R) = 0 <=> R = {})
  BY <1>2, FS_CardinalityType, FS_EmptySet
<1> QED BY <1>3 DEF Resets, NoReset

(***************************************************************************)
(* As long as no connection was reset, the descriptor in g_worker_fds for  *)
(* a worker is open and this worker's, whatever is accepted, closed and    *)
(* given out again within a batch of events.                               *)
(***************************************************************************)
THEOREM RegistrationExact == Spec => []WorkerFdsAccurate
<1>1. JInv => WorkerFdsAccurate
  <2> SUFFICES ASSUME JInv, Resets = 0, phase # "stopped" PROVE Registered
    BY DEF WorkerFdsAccurate, Registered, OpenFds
  <2> QED BY ResetsCount DEF JInv
<1> QED BY <1>1, InitJInv, NextJInv, PTL DEF Spec

(* Why a connection that is up may be closed. *)
LEMMA ClosedForAReason ==
  ASSUME JInv, Next, NEW c \in Made, Open(c), status[c] = "up", ~Open(c)'
  PROVE  \/ \E d \in Made : d > c /\ peer[d] = peer[c] /\ peer[c] \in Workers
         \/ peer[c] = Client /\ io'[c] = "answered"
         \/ phase' = "stopped" \/ Resets > 0
<1>1. PICK f \in OpenFds : fdtab[f] = c /\ fdtab'[f] # c /\ f \in Fds
  BY DEF Open, OpenFds, Made, None
<1>2. c \in Conns
  BY <1>1, OpenIsMade DEF JInv, IInv
<1> SUFFICES ASSUME Resets = 0, phase' # "stopped"
             PROVE  \/ \E d \in Made : d > c /\ peer[d] = peer[c] /\ peer[c] \in Workers
                    \/ peer[c] = Client /\ io'[c] = "answered"
  BY ResetsCount
<1>3. NoReset
  BY ResetsCount
<1>4. CASE \/ \E l \in Listeners : Connect(l)
           \/ \E d \in Made : Ask(d) \/ \E s \in {"fin", "reset"} : Leave(d, s)
           \/ \E g \in Fds : Fill(g) \/ Drain(g)
           \/ EnterLoop \/ EpollWait \/ AcceptFails \/ HandleStale
  BY <1>1, <1>4 DEF Connect, Ask, Leave, Fill, Drain, EnterLoop, EpollWait, AcceptFails,
                    HandleStale, kernel
<1>5. ASSUME NEW k \in Workers, StartupAccept(k) PROVE FALSE
  <2>1. fdtab[LowestFree] = None
    BY <1>5, StartupHasFree, LowestFreeIsFree DEF StartupAccept, JInv
  <2>2. fdtab' = [fdtab EXCEPT ![LowestFree] = Head(backlog[k])]
    BY <1>5 DEF StartupAccept
  <2>3. fdtab'[f] = fdtab[f]
    BY <1>1, <2>1, <2>2 DEF OpenFds, JInv, IInv, TypeInv
  <2> QED BY <1>1, <2>3
<1>6. CASE AcceptClient
  <2>1. fdtab[LowestFree] = None
    BY <1>6, LowestFreeIsFree DEF AcceptClient
  <2>2. PICK d : fdtab' = [fdtab EXCEPT ![LowestFree] = d]
    BY <1>6 DEF AcceptClient
  <2>3. fdtab'[f] = fdtab[f]
    BY <1>1, <2>1, <2>2 DEF OpenFds, JInv, IInv, TypeInv
  <2> QED BY <1>1, <2>3
<1>7. CASE AcceptWorker
  <2>1. PICK k \in Workers : k = Head(batch).fd
    BY <1>7 DEF AcceptWorker
  <2>2. PICK g : g = LowestFree /\ fdtab[g] = None
    BY <1>7, LowestFreeIsFree DEF AcceptWorker
  <2>3. PICK d : fdtab' = [h \in Fds |-> IF h = g THEN d
                                         ELSE IF h = g_worker_fds[k] THEN None ELSE fdtab[h]]
    BY <1>7, <2>1, <2>2 DEF AcceptWorker
  <2>4. f = g_worker_fds[k] /\ f # None
    BY <1>1, <2>2, <2>3 DEF OpenFds, Fds, None
  <2>5. phase # "stopped" /\ Due(TRUE)
    BY <1>7 DEF AcceptWorker, Due
  <2>6. peer[c] = k
    BY <1>1, <1>3, <2>4, <2>5 DEF JInv, Registered
  <2>7. k \in Listeners /\ backlog[k] # <<>> /\ backlog[k] \in Seq(Nat)
    BY <2>1, <2>5, ListenerHasOne DEF JInv, IInv, TypeInv
  <2>8. Head(backlog[k]) = backlog[k][1] /\ 1 \in DOMAIN backlog[k]
    BY <2>7, Queue
  <2>9. Head(backlog[k]) \in Made /\ peer[Head(backlog[k])] = k
    BY <2>7, <2>8 DEF JInv, IInv, BacklogPeers, Made
  <2>10. c < Head(backlog[k])
    BY <1>1, <2>6, <2>8 DEF JInv, BacklogNewer
  <2>11. c \in Nat /\ Head(backlog[k]) \in Nat
    BY <2>9 DEF Made
  <2> QED BY <2>6, <2>9, <2>10, <2>11
<1>8. CASE HandleHangup
  <2>1. PICK g \in Fds : g = Head(batch).fd
    BY <1>8, EventFd DEF HandleHangup, JInv
  <2>2. /\ Due(FALSE) /\ fdtab' = [fdtab EXCEPT ![g] = None]
        /\ g \notin DOMAIN connections \/ Head(batch).ev \cap {"rdhup", "err"} # {}
    BY <1>8, <2>1 DEF HandleHangup, CloseFd
  <2>3. g = f
    BY <1>1, <2>2 DEF JInv, IInv, TypeInv
  <2>4. f \in DOMAIN connections /\ phase # "stopped"
    BY <2>2 DEF JInv, IInv, ConnInv, Due
  <2>5. Head(batch) = batch[1] /\ 1 \in DOMAIN batch /\ ~batch[1].listen
    BY <2>2, Queue DEF JInv, IInv, TypeInv, Due
  <2>6. EventsFresh
    BY <1>3, <2>4 DEF JInv
  <2>7. "rdhup" \in batch[1].ev
    BY <2>2, <2>3, <2>4, <2>5, <2>6 DEF EventsFresh
  <2>8. status[fdtab[f]] # "up"
    BY <2>1, <2>3, <2>5, <2>6, <2>7 DEF EventsFresh
  <2> QED BY <1>1, <2>8
<1>9. CASE HandleReadWrite
  <2>1. PICK g \in OpenFds :
             \E out, sent, done, reads, after : Halves(g, out, sent, done, reads, after)
    BY <1>9, ReadWriteHalves
  <2>2. PICK out, sent, done, reads, after : Halves(g, out, sent, done, reads, after)
    BY <2>1
  <2>3. CloseFd(g) /\ (done \/ (reads /\ status[fdtab[g]] # "up"))
    BY <1>1, <2>2 DEF Halves
  <2>4. g = f
    BY <1>1, <2>3 DEF CloseFd, JInv, IInv, TypeInv
  <2>5. done /\ ~reads /\ sent /\ connections[f].close_after_send
    BY <1>1, <2>2, <2>3, <2>4 DEF Halves
  <2>6. phase = "loop"
    BY <1>9 DEF HandleReadWrite, Due
  <2>7. connections[f].worker = Client /\ connections[f].send_buffer # <<>>
    BY <2>5, <2>6 DEF JInv, ClosesAfterReply
  <2>8. peer[c] = Client
    BY <1>1, <2>6, <2>7 DEF JInv, IInv, ConnInv, Belongs
  <2>9. io' = [io EXCEPT ![c] = "answered"]
    BY <1>1, <2>2, <2>4, <2>5, <2>7 DEF Halves
  <2>10. io'[c] = "answered"
    BY <1>2, <2>9 DEF JInv, KernelTypes
  <2> QED BY <2>8, <2>10
<1>10. CASE Stop
  BY <1>10 DEF Stop
<1> QED BY <1>4, <1>5, <1>6, <1>7, <1>8, <1>9, <1>10 DEF Next, Handle

(***************************************************************************)
(* The master closes a connection that is up only when its worker has made *)
(* a newer one, when its client has been sent the reply, or at the end;    *)
(* only a reset, which leaves g_worker_fds as it was, can change that.     *)
(***************************************************************************)
THEOREM HealthyKept == Spec => HealthyStaysOpen
<1> DEFINE Kept ==
      \A c \in Made :
        Open(c) /\ status[c] = "up" /\ ~Open(c)' =>
          \/ \E d \in Made : d > c /\ peer[d] = peer[c] /\ peer[c] \in Workers
          \/ peer[c] = Client /\ io'[c] = "answered"
          \/ phase' = "stopped" \/ Resets > 0
<1>1. JInv /\ [Next]_vars => [Kept]_vars
  <2> SUFFICES ASSUME JInv, Next PROVE Kept
    OBVIOUS
  <2> QED BY ClosedForAReason
<1> HIDE DEF Kept
<1>2. Spec => [][Kept]_vars
  BY <1>1, InitJInv, NextJInv, PTL DEF Spec
<1> QED BY <1>2 DEF HealthyStaysOpen, Kept
=============================================================================
