-------------------------- MODULE SlaveLinkProofs --------------------------
(***************************************************************************)
(* A proof that replies and requests on the connection to the master never *)
(* get out of step, for any number of requests, connections and errors.    *)
(***************************************************************************)
EXTENDS SlaveLink, TLAPS

Tag == Threads \X Nat

TypeInv ==
  /\ fdtab \in [Fds -> Conns \cup {Closed}]
  /\ conn \in [Conns -> {"new", "up", "fin", "reset"}]
  /\ inbox \in [Conns -> Seq(Tag)]
  /\ outbox \in [Conns -> Seq([tag : Tag, ok : BOOLEAN])]
  /\ g_master_fd \in Fds \cup {Closed}
  /\ pc \in [Threads -> {"idle", "lock", "write", "read", "more", "unlock", "connect", "join",
                         "exit", "dead"}]
  /\ fd \in [Threads -> Fds \cup {Closed}]
  /\ scan \in [Threads -> BOOLEAN]
  /\ sent \in [Threads -> Conns \cup {Closed}]
  /\ n \in [Threads -> Nat]

\* The mutex is held from taking over g_master_fd to the end of the exchange.
MutexHeld ==
  \A t \in Threads : pc[t] \in {"write", "read", "more", "unlock"} =>
    g_master_mutex = t /\ (pc[t] # "unlock" => fd[t] \in Fds)

\* At most one descriptor is open, and none while the main thread connects.
OneOpen ==
  /\ \A f \in Fds : fdtab[f] # Closed => f = g_master_fd
  /\ pc["main"] = "connect" => g_master_fd = Closed

\* Requests wait on a live connection only, and a new one has no replies.
InboxUp ==
  \A c \in Conns : /\ conn[c] # "up" => inbox[c] = <<>>
                   /\ conn[c] = "new" => outbox[c] = <<>>

Quiet(c) == inbox[c] = <<>> /\ outbox[c] = <<>>

\* The one message on connection c is the request of thread t or its reply.
Awaited(c, t) ==
  \/ inbox[c] = <<<<t, n[t]>>>> /\ outbox[c] = <<>>
  \/ /\ inbox[c] = <<>>
     /\ \E ok \in BOOLEAN : outbox[c] = <<[tag |-> <<t, n[t]>>, ok |-> ok]>>

\* A connection that can still be read has no message, or the one that the
\* thread that reads from its descriptor waits for.
InStep ==
  \A f \in Fds : fdtab[f] # Closed =>
    \/ Quiet(fdtab[f])
    \/ \E t \in Threads : pc[t] = "read" /\ fd[t] = f /\ Awaited(fdtab[f], t)

IInv == TypeInv /\ MutexHeld /\ OneOpen /\ InboxUp /\ InStep

-----------------------------------------------------------------------------
(* Sequences of at most one message. *)
LEMMA OneMessage ==
  ASSUME NEW x
  PROVE  Head(<<x>>) = x /\ Tail(<<x>>) = <<>> /\ Append(<<>>, x) = <<x>> /\ <<x>> # <<>>
OBVIOUS

(* Sending and receiving keep queues of messages. *)
LEMMA AppendType ==
  ASSUME NEW S, NEW D, NEW g \in [D -> Seq(S)], NEW c \in D, NEW x \in S
  PROVE  [g EXCEPT ![c] = Append(@, x)] \in [D -> Seq(S)]
OBVIOUS

LEMMA TailType ==
  ASSUME NEW S, NEW D, NEW g \in [D -> Seq(S)], NEW c \in D, g[c] # <<>>
  PROVE  [g EXCEPT ![c] = Tail(@)] \in [D -> Seq(S)] /\ Head(g[c]) \in S
OBVIOUS

(* A step that sends and receives nothing, opens no descriptor and leaves  *)
(* the thread that reads where it is does not disturb InStep.              *)
LEMMA Frame ==
  ASSUME InStep, UNCHANGED net,
         \A f \in Fds : fdtab'[f] \in {fdtab[f], Closed},
         \A t \in Threads : pc[t] = "read" => pc'[t] = "read" /\ fd'[t] = fd[t] /\ n'[t] = n[t]
  PROVE  InStep'
<1>1. \A c : Quiet(c) => Quiet(c)'
  BY DEF Quiet, net
<1>2. \A c : \A t \in Threads : n'[t] = n[t] /\ Awaited(c, t) => Awaited(c, t)'
  BY DEF Awaited, net
<1> QED BY <1>1, <1>2 DEF InStep

(* While a thread holds the mutex the other does not read. *)
LEMMA OneReader ==
  ASSUME IInv, NEW t \in Threads, pc[t] \in {"write", "read", "more", "unlock"},
         NEW u \in Threads, pc[u] = "read"
  PROVE  u = t
BY DEF IInv, MutexHeld

(* The connections, threads and descriptors before the first request. *)
LEMMA InitIInv == Init => IInv
<1> SUFFICES ASSUME Init PROVE IInv OBVIOUS
<1>1. TypeInv
  BY LinkAssumption DEF Init, TypeInv, Fds, Conns, Closed, Threads
<1>2. MutexHeld /\ OneOpen /\ InboxUp
  BY LinkAssumption DEF Init, MutexHeld, OneOpen, InboxUp, Fds, Conns, Closed, Threads
<1>3. InStep
  BY LinkAssumption DEF Init, InStep, Quiet, Fds, Conns, Closed
<1> QED BY <1>1, <1>2, <1>3 DEF IInv

(* The steps of send_to_master and send_scan_to_master preserve IInv. *)
LEMMA ExchangeSteps ==
  ASSUME IInv, NEW t \in Threads, Exchange(t)
  PROVE  IInv'
<1> USE DEF Closed
<1>1. ASSUME Lock(t) PROVE IInv'
  <2>1. TypeInv'
    BY <1>1 DEF IInv, TypeInv, Lock, Goto, net, call
  <2>2. MutexHeld' /\ OneOpen'
    BY <1>1 DEF IInv, TypeInv, MutexHeld, OneOpen, Lock, Goto, net, call, Threads, Nobody
  <2>3. InboxUp'
    BY <1>1 DEF IInv, TypeInv, InboxUp, Lock, Goto, net, call
  <2>4. InStep'
    BY <1>1, Frame DEF IInv, TypeInv, MutexHeld, Lock, Goto, net, call, Threads
  <2> QED BY <2>1, <2>2, <2>3, <2>4 DEF IInv
<1>2. ASSUME Write(t) PROVE IInv'
  <2> DEFINE c == fdtab[fd[t]]
  <2>0. fd[t] \in Fds /\ c \in Conns \cup {Closed}
    BY <1>2 DEF IInv, TypeInv, MutexHeld, Write
  <2>a. <<t, n[t]>> \in Tag
    BY DEF IInv, TypeInv, Tag
  <2>1. TypeInv'
    <3>1. CASE c = Closed \/ conn[c] = "reset"
      BY <1>2, <3>1 DEF IInv, TypeInv, Write, Goto, net
    <3>2. CASE c # Closed /\ conn[c] = "up"
      <4>1. inbox' = [inbox EXCEPT ![c] = Append(@, <<t, n[t]>>)]
        BY <1>2, <3>2 DEF Write
      <4>2. inbox' \in [Conns -> Seq(Tag)]
        BY <2>0, <2>a, <3>2, <4>1, AppendType DEF IInv, TypeInv
      <4>3. sent' \in [Threads -> Conns \cup {Closed}] /\ pc' = [pc EXCEPT ![t] = "read"]
        BY <1>2, <2>0, <3>2 DEF IInv, TypeInv, Write, Goto
      <4> QED BY <1>2, <3>2, <4>2, <4>3 DEF IInv, TypeInv, Write
    <3>3. CASE c # Closed /\ conn[c] \in {"new", "fin"}
      BY <1>2, <3>3, <2>0 DEF IInv, TypeInv, Write, Goto, net
    <3> QED BY <2>0, <3>1, <3>2, <3>3 DEF IInv, TypeInv
  <2>2. MutexHeld' /\ OneOpen'
    BY <1>2 DEF IInv, TypeInv, MutexHeld, OneOpen, Write, Goto, net, Threads, Nobody
  <2>3. InboxUp'
    BY <1>2, <2>0 DEF IInv, TypeInv, InboxUp, Write, Goto, net
  <2>4. InStep'
    <3>1. CASE c = Closed \/ conn[c] # "up"
      <4>1. \A u \in Threads : pc[u] # "read"
        BY <1>2, OneReader DEF Write
      <4>2. UNCHANGED <<inbox, outbox, fdtab>>
        BY <1>2, <3>1 DEF Write, net
      <4> QED BY <4>1, <4>2 DEF IInv, InStep, Quiet
    <3>2. CASE c # Closed /\ conn[c] = "up"
      <4>1. \A f \in Fds : fdtab[f] # Closed => f = fd[t]
        BY <2>0, <3>2 DEF IInv, OneOpen
      <4>2. Quiet(c)
        BY <1>2, <2>0, <3>2, OneReader DEF IInv, InStep, Write
      <4>3. /\ inbox' = [inbox EXCEPT ![c] = Append(@, <<t, n[t]>>)]
            /\ UNCHANGED <<outbox, fdtab, fd, n>> /\ pc' = [pc EXCEPT ![t] = "read"]
        BY <1>2, <3>2 DEF Write, Goto
      <4>4. Awaited(c, t)'
        BY <2>0, <3>2, <4>2, <4>3, OneMessage DEF IInv, TypeInv, Quiet, Awaited
      <4> QED BY <4>1, <4>3, <4>4 DEF IInv, TypeInv, InStep
    <3> QED BY <3>1, <3>2
  <2> QED BY <2>1, <2>2, <2>3, <2>4 DEF IInv
<1>3. ASSUME Receive(t) PROVE IInv'
  <2>0. PICK c \in Conns : fd[t] \in Fds /\ c = fdtab[fd[t]] /\ outbox[c] # <<>>
    BY <1>3 DEF IInv, TypeInv, MutexHeld, Receive
  <2>1. TypeInv'
    <3>1. outbox' = [outbox EXCEPT ![c] = Tail(@)]
      BY <1>3, <2>0 DEF Receive
    <3>2. outbox' \in [Conns -> Seq([tag : Tag, ok : BOOLEAN])]
      BY <2>0, <3>1, TailType DEF IInv, TypeInv
    <3>3. \E p \in {"more", "unlock"} : pc' = [pc EXCEPT ![t] = p]
      BY <1>3 DEF Receive, Goto
    <3> QED BY <1>3, <3>2, <3>3 DEF IInv, TypeInv, Receive, call
  <2>2. MutexHeld' /\ OneOpen'
    BY <1>3 DEF IInv, TypeInv, MutexHeld, OneOpen, Receive, Goto, call, Threads, Nobody
  <2>3. InboxUp'
    BY <1>3, <2>0 DEF IInv, TypeInv, InboxUp, Receive, Goto, call
  <2>4. InStep'
    <3>1. \A f \in Fds : fdtab[f] # Closed => f = fd[t]
      BY <1>3, <2>0 DEF IInv, OneOpen, Conns, Receive
    <3>2. PICK u \in Threads : pc[u] = "read" /\ Awaited(c, u)
      BY <1>3, <2>0 DEF IInv, InStep, Quiet, Receive
    <3>3. inbox[c] = <<>> /\ \E x : outbox[c] = <<x>>
      BY <2>0, <3>2 DEF Awaited
    <3>4. outbox' = [outbox EXCEPT ![c] = Tail(@)] /\ UNCHANGED <<inbox, fdtab>>
      BY <1>3, <2>0 DEF Receive
    <3>5. outbox'[c] = <<>>
      BY <2>0, <3>3, <3>4, OneMessage DEF IInv, TypeInv
    <3>6. Quiet(c)'
      BY <3>3, <3>4, <3>5 DEF Quiet
    <3>7. \A f \in Fds : fdtab'[f] # Closed => fdtab'[f] = c
      BY <2>0, <3>1, <3>4
    <3> QED BY <3>6, <3>7 DEF InStep, Quiet
  <2> QED BY <2>1, <2>2, <2>3, <2>4 DEF IInv
<1>4. ASSUME ReceiveFails(t) PROVE IInv'
  <2>1. TypeInv'
    BY <1>4 DEF IInv, TypeInv, ReceiveFails, Goto, net, call
  <2>2. MutexHeld' /\ OneOpen'
    BY <1>4 DEF IInv, TypeInv, MutexHeld, OneOpen, ReceiveFails, Goto, net, call, Threads, Nobody
  <2>3. InboxUp'
    BY <1>4 DEF IInv, TypeInv, InboxUp, ReceiveFails, Goto, net, call
  <2>4. InStep'
    <3> SUFFICES ASSUME NEW f \in Fds, fdtab[f] # Closed PROVE Quiet(fdtab[f])'
      BY <1>4 DEF InStep, ReceiveFails
    <3>1. CASE Quiet(fdtab[f])
      BY <1>4, <3>1 DEF Quiet, ReceiveFails, net
    <3>2. ASSUME NEW u \in Threads, pc[u] = "read", fd[u] = f, Awaited(fdtab[f], u)
          PROVE  Quiet(fdtab[f])'
      <4>1. conn[fdtab[f]] # "up" /\ outbox[fdtab[f]] = <<>>
        BY <1>4, <3>2, OneReader DEF ReceiveFails
      <4>2. inbox[fdtab[f]] = <<>>
        BY <4>1 DEF IInv, TypeInv, InboxUp
      <4> QED BY <1>4, <4>1, <4>2 DEF Quiet, ReceiveFails, net
    <3> QED BY <3>1, <3>2 DEF IInv, InStep
  <2> QED BY <2>1, <2>2, <2>3, <2>4 DEF IInv
<1>5. ASSUME Unlock(t) PROVE IInv'
  <2>1. TypeInv'
    BY <1>5 DEF IInv, TypeInv, Unlock, Goto, net, call
  <2>2. MutexHeld' /\ OneOpen'
    BY <1>5 DEF IInv, TypeInv, MutexHeld, OneOpen, Unlock, Goto, net, call, Threads, Nobody
  <2>3. InboxUp'
    BY <1>5 DEF IInv, TypeInv, InboxUp, Unlock, Goto, net, call
  <2>4. InStep'
    BY <1>5, Frame DEF IInv, TypeInv, MutexHeld, Unlock, Goto, net, call, Threads
  <2> QED BY <2>1, <2>2, <2>3, <2>4 DEF IInv
<1> QED BY <1>1, <1>2, <1>3, <1>4, <1>5 DEF Exchange

(* So do the steps of the event loop, of the shutdown and of the master. *)
LEMMA OtherSteps ==
  ASSUME IInv,
         \/ \E t \in Threads, s \in BOOLEAN : Request(t, s)
         \/ \E t \in Threads : Leave(t)
         \/ NoticeHangup \/ Connect \/ Signal \/ Join
         \/ \E c \in Conns : Serve(c) \/ Close(c)
  PROVE  IInv'
<1> USE DEF Closed
<1>1. ASSUME NEW t \in Threads, NEW s \in BOOLEAN, Request(t, s) PROVE IInv'
  <2>1. TypeInv'
    <3>1. n' \in [Threads -> Nat]
      BY <1>1 DEF IInv, TypeInv, Request
    <3>2. scan' \in [Threads -> BOOLEAN] /\ pc' = [pc EXCEPT ![t] = "lock"]
      BY <1>1 DEF IInv, TypeInv, Request, Goto
    <3> QED BY <1>1, <3>1, <3>2 DEF IInv, TypeInv, Request, net
  <2>2. MutexHeld' /\ OneOpen'
    BY <1>1 DEF IInv, TypeInv, MutexHeld, OneOpen, Request, Goto, net, call, Threads, Nobody
  <2>3. InboxUp'
    BY <1>1 DEF IInv, TypeInv, InboxUp, Request, Goto, net, call
  <2>4. InStep'
    BY <1>1, Frame DEF IInv, TypeInv, MutexHeld, Request, Goto, net, call, Threads
  <2> QED BY <2>1, <2>2, <2>3, <2>4 DEF IInv
<1>2. ASSUME NEW t \in Threads, Leave(t) PROVE IInv'
  <2>1. TypeInv'
    BY <1>2 DEF IInv, TypeInv, Leave, Goto, net, call
  <2>2. MutexHeld' /\ OneOpen'
    BY <1>2 DEF IInv, TypeInv, MutexHeld, OneOpen, Leave, Goto, net, call, Threads, Nobody
  <2>3. InboxUp'
    BY <1>2 DEF IInv, TypeInv, InboxUp, Leave, Goto, net, call
  <2>4. InStep'
    BY <1>2, Frame DEF IInv, TypeInv, MutexHeld, Leave, Goto, net, call, Threads
  <2> QED BY <2>1, <2>2, <2>3, <2>4 DEF IInv
<1>3. ASSUME NoticeHangup PROVE IInv'
  <2>1. TypeInv'
    BY <1>3 DEF IInv, TypeInv, NoticeHangup, Goto, net, call
  <2>2. MutexHeld' /\ OneOpen'
    BY <1>3 DEF IInv, TypeInv, MutexHeld, OneOpen, NoticeHangup, Goto, net, call, Threads, Nobody
  <2>3. InboxUp'
    BY <1>3 DEF IInv, TypeInv, InboxUp, NoticeHangup, Goto, net, call
  <2>4. InStep'
    BY <1>3, Frame DEF IInv, TypeInv, MutexHeld, NoticeHangup, Goto, net, call, Threads
  <2> QED BY <2>1, <2>2, <2>3, <2>4 DEF IInv
<1>4. ASSUME Connect PROVE IInv'
  <2>1. CASE ~g_running
    <3>1. TypeInv' /\ MutexHeld' /\ OneOpen' /\ InboxUp'
      BY <1>4, <2>1 DEF IInv, TypeInv, MutexHeld, OneOpen, InboxUp, Connect, Goto, call, Threads
    <3>2. InStep'
      BY <1>4, <2>1, Frame DEF IInv, TypeInv, MutexHeld, Connect, Goto, net, call, Threads
    <3> QED BY <3>1, <3>2 DEF IInv
  <2>2. CASE g_running
    <3>1. PICK f \in Fds, c \in Conns :
            /\ conn[c] = "new"
            /\ fdtab' = [fdtab EXCEPT ![f] = c]
            /\ conn' = [conn EXCEPT ![c] = "up"]
            /\ g_master_fd' = f
      BY <1>4, <2>2 DEF Connect
    <3>2. /\ pc["main"] = "connect" /\ pc' = [pc EXCEPT !["main"] = "idle"]
          /\ UNCHANGED <<inbox, outbox, g_master_mutex, call>>
      BY <1>4, <2>2 DEF Connect, Goto
    <3>3. \A g \in Fds : fdtab[g] = Closed
      BY <3>2 DEF IInv, OneOpen, Fds
    <3>4. TypeInv'
      BY <3>1, <3>2 DEF IInv, TypeInv, call
    <3>5. MutexHeld' /\ OneOpen'
      BY <3>1, <3>2, <3>3 DEF IInv, TypeInv, MutexHeld, OneOpen, call, Threads
    <3>6. InboxUp'
      BY <3>1, <3>2 DEF IInv, TypeInv, InboxUp
    <3>7. InStep'
      BY <3>1, <3>2, <3>3 DEF IInv, TypeInv, InboxUp, InStep, Quiet
    <3> QED BY <3>4, <3>5, <3>6, <3>7 DEF IInv
  <2> QED BY <2>1, <2>2 DEF Connect
<1>5. ASSUME Signal PROVE IInv'
  <2>1. TypeInv'
    BY <1>5 DEF IInv, TypeInv, Signal, Goto, net, call
  <2>2. MutexHeld' /\ OneOpen'
    BY <1>5 DEF IInv, TypeInv, MutexHeld, OneOpen, Signal, Goto, net, call, Threads, Nobody
  <2>3. InboxUp'
    BY <1>5 DEF IInv, TypeInv, InboxUp, Signal, Goto, net, call
  <2>4. InStep'
    BY <1>5, Frame DEF IInv, TypeInv, MutexHeld, Signal, Goto, net, call, Threads
  <2> QED BY <2>1, <2>2, <2>3, <2>4 DEF IInv
<1>6. ASSUME Join PROVE IInv'
  <2>1. TypeInv'
    BY <1>6 DEF IInv, TypeInv, Join, Goto, net, call
  <2>2. MutexHeld' /\ OneOpen'
    BY <1>6 DEF IInv, TypeInv, MutexHeld, OneOpen, Join, Goto, net, call, Threads, Nobody
  <2>3. InboxUp'
    BY <1>6 DEF IInv, TypeInv, InboxUp, Join, Goto, net, call
  <2>4. InStep'
    BY <1>6, Frame DEF IInv, TypeInv, MutexHeld, Join, Goto, net, call, Threads
  <2> QED BY <2>1, <2>2, <2>3, <2>4 DEF IInv
<1>7. ASSUME NEW c \in Conns, Serve(c) PROVE IInv'
  <2>0. PICK ok \in BOOLEAN :
          outbox' = [outbox EXCEPT ![c] = Append(@, [tag |-> Head(inbox[c]), ok |-> ok])]
    BY <1>7 DEF Serve
  <2>a. /\ inbox[c] # <<>> /\ conn[c] = "up" /\ inbox' = [inbox EXCEPT ![c] = Tail(@)]
        /\ UNCHANGED <<fdtab, conn, g_master_fd, g_master_mutex, pc, call, g_running>>
    BY <1>7 DEF Serve
  <2>1. TypeInv'
    <3>1. Head(inbox[c]) \in Tag /\ Tail(inbox[c]) \in Seq(Tag)
      BY <2>a DEF IInv, TypeInv
    <3>2. [tag |-> Head(inbox[c]), ok |-> ok] \in [tag : Tag, ok : BOOLEAN]
      BY <3>1
    <3>3. inbox' \in [Conns -> Seq(Tag)]
      BY <2>a, <3>1 DEF IInv, TypeInv
    <3>4. outbox' \in [Conns -> Seq([tag : Tag, ok : BOOLEAN])]
      <4> DEFINE Reply == [tag : Tag, ok : BOOLEAN]
      <4>1. outbox \in [Conns -> Seq(Reply)] /\ [tag |-> Head(inbox[c]), ok |-> ok] \in Reply
        BY <3>2 DEF IInv, TypeInv
      <4> HIDE DEF Reply
      <4>2. outbox' \in [Conns -> Seq(Reply)]
        BY <2>0, <4>1, AppendType
      <4> QED BY <4>2 DEF Reply
    <3> QED BY <2>a, <3>3, <3>4 DEF IInv, TypeInv, call
  <2>2. MutexHeld' /\ OneOpen'
    BY <2>a DEF IInv, MutexHeld, OneOpen, call
  <2>3. InboxUp'
    BY <2>0, <2>a DEF IInv, TypeInv, InboxUp
  <2>4. InStep'
    <3> SUFFICES ASSUME NEW f \in Fds, fdtab[f] # Closed
                 PROVE  \/ Quiet(fdtab[f])'
                        \/ \E t \in Threads : (pc[t] = "read" /\ fd[t] = f /\ Awaited(fdtab[f], t))'
      BY <2>a DEF InStep, call
    <3>1. CASE fdtab[f] # c
      <4>1. inbox'[fdtab[f]] = inbox[fdtab[f]] /\ outbox'[fdtab[f]] = outbox[fdtab[f]] /\ n' = n
        BY <2>0, <2>a, <3>1 DEF IInv, TypeInv, call
      <4>2. CASE Quiet(fdtab[f])
        BY <2>a, <4>1, <4>2 DEF Quiet
      <4>3. ASSUME NEW t \in Threads, pc[t] = "read", fd[t] = f, Awaited(fdtab[f], t)
            PROVE  (pc[t] = "read" /\ fd[t] = f /\ Awaited(fdtab[f], t))'
        BY <2>a, <4>1, <4>3 DEF Awaited, call
      <4> QED BY <4>2, <4>3 DEF IInv, InStep
    <3>2. CASE fdtab[f] = c
      <4>1. PICK t \in Threads : pc[t] = "read" /\ fd[t] = f /\ Awaited(c, t)
        BY <2>a, <3>2 DEF IInv, InStep, Quiet
      <4>2. inbox[c] = <<<<t, n[t]>>>> /\ outbox[c] = <<>>
        BY <2>a, <4>1 DEF Awaited
      <4>3. Head(inbox[c]) = <<t, n[t]>> /\ Tail(inbox[c]) = <<>>
        BY <4>2, OneMessage
      <4>4. inbox'[c] = <<>> /\ outbox'[c] = <<[tag |-> <<t, n[t]>>, ok |-> ok]>>
        BY <2>0, <2>a, <4>2, <4>3, OneMessage DEF IInv, TypeInv
      <4>5. Awaited(c, t)'
        BY <2>a, <4>4 DEF Awaited, call
      <4> QED BY <2>a, <3>2, <4>1, <4>5 DEF call
    <3> QED BY <3>1, <3>2
  <2> QED BY <2>1, <2>2, <2>3, <2>4 DEF IInv
<1>8. ASSUME NEW c \in Conns, Close(c) PROVE IInv'
  <2>1. TypeInv'
    <3>1. inbox' \in [Conns -> Seq(Tag)]
      BY <1>8 DEF IInv, TypeInv, Close
    <3>2. conn' \in [Conns -> {"new", "up", "fin", "reset"}]
      BY <1>8 DEF IInv, TypeInv, Close
    <3> QED BY <1>8, <3>1, <3>2 DEF IInv, TypeInv, Close, call
  <2>2. MutexHeld' /\ OneOpen'
    BY <1>8 DEF IInv, MutexHeld, OneOpen, Close, call
  <2>3. InboxUp'
    BY <1>8 DEF IInv, TypeInv, InboxUp, Close
  <2>4. InStep'
    <3> SUFFICES ASSUME NEW f \in Fds, fdtab[f] # Closed
                 PROVE  \/ Quiet(fdtab[f])'
                        \/ \E t \in Threads : (pc[t] = "read" /\ fd[t] = f /\ Awaited(fdtab[f], t))'
      BY <1>8 DEF InStep, Close, call
    <3>1. CASE Quiet(fdtab[f])
      BY <1>8, <3>1 DEF IInv, TypeInv, Quiet, Close
    <3>2. ASSUME NEW t \in Threads, pc[t] = "read", fd[t] = f, Awaited(fdtab[f], t)
          PROVE  Quiet(fdtab[f])' \/ Awaited(fdtab[f], t)'
      <4>1. CASE fdtab[f] = c /\ outbox[c] = <<>>
        BY <1>8, <4>1 DEF IInv, TypeInv, Quiet, Close
      <4>2. CASE fdtab[f] # c \/ outbox[c] # <<>>
        BY <1>8, <3>2, <4>2 DEF IInv, TypeInv, Awaited, Close, call
      <4> QED BY <4>1, <4>2
    <3> QED BY <1>8, <3>1, <3>2 DEF IInv, InStep, Close, call
  <2> QED BY <2>1, <2>2, <2>3, <2>4 DEF IInv
<1> QED BY <1>1, <1>2, <1>3, <1>4, <1>5, <1>6, <1>7, <1>8

(***************************************************************************)
(* No thread ever reads a reply that is not the one to the request it has  *)
(* sent last, however often the connection is lost and replaced while the  *)
(* other thread uses it.                                                   *)
(***************************************************************************)
THEOREM RepliesInStep == Spec => []ReplyIsMine
<1>1. Init => IInv
  BY InitIInv
<1>2. IInv /\ [Next]_vars => IInv'
  <2> SUFFICES ASSUME IInv, [Next]_vars PROVE IInv' OBVIOUS
  <2>1. CASE UNCHANGED vars
    <3>1. TypeInv' /\ MutexHeld' /\ OneOpen' /\ InboxUp'
      BY <2>1 DEF IInv, TypeInv, MutexHeld, OneOpen, InboxUp, vars, net, call
    <3>2. InStep'
      BY <2>1, Frame DEF IInv, vars, net, call
    <3> QED BY <3>1, <3>2 DEF IInv
  <2>2. CASE Next
    BY <2>2, ExchangeSteps, OtherSteps DEF Next
  <2> QED BY <2>1, <2>2
<1>3. IInv => ReplyIsMine
  <2> SUFFICES ASSUME IInv, NEW t \in Threads, pc[t] \in {"read", "more"},
                      fdtab[fd[t]] # Closed, outbox[fdtab[fd[t]]] # <<>>
               PROVE  Head(outbox[fdtab[fd[t]]]).tag = <<t, n[t]>>
    BY DEF ReplyIsMine
  <2>1. PICK u \in Threads : pc[u] = "read" /\ Awaited(fdtab[fd[t]], u)
    BY DEF IInv, MutexHeld, InStep, Quiet
  <2>2. u = t
    BY <2>1, OneReader
  <2>3. PICK ok \in BOOLEAN : outbox[fdtab[fd[t]]] = <<[tag |-> <<t, n[t]>>, ok |-> ok]>>
    BY <2>1, <2>2 DEF Awaited
  <2> QED BY <2>3, OneMessage
<1> QED BY <1>1, <1>2, <1>3, PTL DEF Spec
=============================================================================
