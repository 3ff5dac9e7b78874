------------------------------ MODULE SlaveLink ------------------------------
(***************************************************************************)
(* The connection of a slave to its master: distributed/slave.cc.          *)
(*                                                                         *)
(* Two threads send requests over g_master_fd and wait for the reply,      *)
(* holding g_master_mutex (send_to_master, send_scan_to_master).  The main *)
(* thread also replaces the connection when it sees a hangup, and does so  *)
(* without the mutex.  The table of file descriptors is part of the model, *)
(* because a number that was closed is given out again.                    *)
(***************************************************************************)
EXTENDS Integers, Sequences

CONSTANTS
  MaxRequests, \* bound: requests of one thread
  MaxConns,    \* bound: connections made
  MaxErrors    \* bound: requests the master answers with ERROR

ASSUME LinkAssumption ==
  MaxRequests \in Nat /\ MaxConns \in Nat \ {0} /\ MaxErrors \in Nat

Threads == {"main", "gc"}
Fds     == 1 .. 2                \* numbers the connection may get
Conns   == 1 .. MaxConns
Closed  == 0                     \* no connection; -1 as a descriptor
Nobody  == "nobody"              \* the mutex is free

VARIABLES
  fdtab,        \* descriptor -> connection it refers to, or Closed
  conn,         \* connection -> "new", "up", "fin" (closed by the master),
                \*   "reset" (written to after that)
  inbox,        \* connection -> requests the master has not read
  outbox,       \* connection -> replies the slave has not read
  g_master_fd,
  g_master_mutex,
  pc,           \* thread -> what it does next
  fd,           \* thread -> argument fd of send_to_master_via_fd
  scan,         \* thread -> its request is a SCAN_ADDR
  sent,         \* history: thread -> connection its request went to
  n,            \* thread -> number of its request
  errors,
  g_running

net  == <<conn, inbox, outbox>>
call == <<fd, scan, sent, n>>
vars == <<fdtab, net, g_master_fd, g_master_mutex, pc, call, errors, g_running>>

\* Connected, GC thread started, event loop entered.
Init ==
  /\ fdtab = [f \in Fds |-> IF f = 1 THEN 1 ELSE Closed]
  /\ conn = [c \in Conns |-> IF c = 1 THEN "up" ELSE "new"]
  /\ inbox = [c \in Conns |-> <<>>] /\ outbox = [c \in Conns |-> <<>>]
  /\ g_master_fd = 1 /\ g_master_mutex = Nobody
  /\ pc = [t \in Threads |-> "idle"]
  /\ fd = [t \in Threads |-> Closed] /\ scan = [t \in Threads |-> FALSE]
  /\ sent = [t \in Threads |-> Closed] /\ n = [t \in Threads |-> 0]
  /\ errors = 0 /\ g_running = TRUE

Goto(t, l) == pc' = [pc EXCEPT ![t] = l]

-----------------------------------------------------------------------------
(* send_to_master and send_scan_to_master *)

\* A command of a client, or a step of GC, needs the master.
Request(t, s) ==
  /\ pc[t] = "idle" /\ n[t] < MaxRequests /\ g_running
  /\ s => t = "main"
  /\ scan' = [scan EXCEPT ![t] = s]
  /\ n' = [n EXCEPT ![t] = @ + 1]
  /\ Goto(t, "lock")
  /\ UNCHANGED <<fdtab, net, g_master_fd, g_master_mutex, fd, sent, errors, g_running>>

\* Faulty variant: the mutex is not taken.
LockSkipped(t) ==
  /\ pc[t] = "lock"
  /\ fd' = [fd EXCEPT ![t] = g_master_fd]
  /\ Goto(t, IF g_master_fd = Closed THEN "unlock" ELSE "write")
  /\ UNCHANGED <<fdtab, net, g_master_fd, g_master_mutex, scan, sent, n, errors, g_running>>

Lock(t) ==
  /\ pc[t] = "lock" /\ g_master_mutex = Nobody
  /\ g_master_mutex' = t
  /\ fd' = [fd EXCEPT ![t] = g_master_fd]
  /\ Goto(t, IF g_master_fd = Closed THEN "unlock" ELSE "write")
  /\ UNCHANGED <<fdtab, net, g_master_fd, scan, sent, n, errors, g_running>>

\* write() of the request.  On a connection the master closed the first one
\* succeeds; the next raises SIGPIPE, which kills the process.
Write(t) ==
  /\ pc[t] = "write"
  /\ LET c == fdtab[fd[t]]
     IN  IF c = Closed
         THEN Goto(t, "unlock") /\ UNCHANGED <<net, sent>>
         ELSE IF conn[c] = "reset"
         THEN pc' = [u \in Threads |-> "dead"] /\ UNCHANGED <<net, sent>>
         ELSE /\ sent' = [sent EXCEPT ![t] = c]
              /\ IF conn[c] = "up"
                 THEN inbox' = [inbox EXCEPT ![c] = Append(@, <<t, n[t]>>)] /\ UNCHANGED conn
                 ELSE conn' = [conn EXCEPT ![c] = "reset"] /\ UNCHANGED inbox
              /\ Goto(t, "read")
              /\ UNCHANGED outbox
  /\ UNCHANGED <<fdtab, g_master_fd, g_master_mutex, fd, scan, n, errors, g_running>>

\* One successful read().  A line ends the reply to a simple request; the
\* reply to a SCAN_ADDR goes on until a line END, which ERROR replies lack.
Receive(t) ==
  /\ pc[t] \in {"read", "more"}
  /\ LET c == fdtab[fd[t]]
     IN  /\ c # Closed
         /\ outbox[c] # <<>>
         /\ outbox' = [outbox EXCEPT ![c] = Tail(@)]
         /\ Goto(t, IF scan[t] /\ ~Head(outbox[c]).ok THEN "more" ELSE "unlock")
  /\ UNCHANGED <<fdtab, conn, inbox, g_master_fd, g_master_mutex, call, errors, g_running>>

\* Faulty variant: the end of the stream is not recognised.
ReceiveFailsOnErrorOnly(t) ==
  /\ pc[t] \in {"read", "more"}
  /\ fdtab[fd[t]] = Closed
  /\ Goto(t, "unlock")
  /\ UNCHANGED <<fdtab, net, g_master_fd, g_master_mutex, call, errors, g_running>>

\* read() fails or reports the end of the stream; without either it returns
\* EAGAIN, and the thread sleeps for a millisecond and tries again.
ReceiveFails(t) ==
  /\ pc[t] \in {"read", "more"}
  /\ LET c == fdtab[fd[t]]
     IN  c # Closed => conn[c] # "up" /\ outbox[c] = <<>>
  /\ Goto(t, "unlock")
  /\ UNCHANGED <<fdtab, net, g_master_fd, g_master_mutex, call, errors, g_running>>

Unlock(t) ==
  /\ pc[t] = "unlock"
  /\ g_master_mutex' = Nobody
  /\ fd' = [fd EXCEPT ![t] = Closed] /\ sent' = [sent EXCEPT ![t] = Closed]
  /\ Goto(t, "idle")
  /\ UNCHANGED <<fdtab, net, g_master_fd, scan, n, errors, g_running>>

-----------------------------------------------------------------------------
(* The event loop: loss of the master and connect_to_master *)

NoticeHangup ==
  /\ pc["main"] = "idle" /\ g_running
  /\ g_master_fd # Closed /\ conn[fdtab[g_master_fd]] # "up"
  /\ fdtab' = [fdtab EXCEPT ![g_master_fd] = Closed]
  /\ g_master_fd' = Closed
  /\ Goto("main", "connect")
  /\ UNCHANGED <<net, g_master_mutex, call, errors, g_running>>

\* socket() and connect(), repeated until the master accepts.
Connect ==
  /\ pc["main"] = "connect"
  /\ \/ /\ ~g_running
        /\ Goto("main", "idle")
        /\ UNCHANGED <<fdtab, conn, g_master_fd>>
     \/ /\ g_running
        /\ \E f \in Fds, c \in Conns :
             /\ fdtab[f] = Closed /\ conn[c] = "new"
             /\ \A d \in Conns : conn[d] = "new" => c <= d
             /\ fdtab' = [fdtab EXCEPT ![f] = c]
             /\ conn' = [conn EXCEPT ![c] = "up"]
             /\ g_master_fd' = f
        /\ Goto("main", "idle")
  /\ UNCHANGED <<inbox, outbox, g_master_mutex, call, errors, g_running>>

-----------------------------------------------------------------------------
(* Shutdown *)

Signal ==
  /\ g_running /\ g_running' = FALSE
  /\ UNCHANGED <<fdtab, net, g_master_fd, g_master_mutex, pc, call, errors>>

\* Faulty variant: the loop of the GC thread does not look at g_running.
LeaveMainOnly(t) ==
  /\ t = "main" /\ pc[t] = "idle" /\ ~g_running
  /\ Goto(t, "join")
  /\ UNCHANGED <<fdtab, net, g_master_fd, g_master_mutex, call, errors, g_running>>

\* A thread leaves its loop; the main thread then joins the GC thread.
Leave(t) ==
  /\ pc[t] = "idle" /\ ~g_running
  /\ Goto(t, IF t = "main" THEN "join" ELSE "exit")
  /\ UNCHANGED <<fdtab, net, g_master_fd, g_master_mutex, call, errors, g_running>>

Join ==
  /\ pc["main"] = "join" /\ pc["gc"] = "exit"
  /\ fdtab' = IF g_master_fd = Closed THEN fdtab ELSE [fdtab EXCEPT ![g_master_fd] = Closed]
  /\ Goto("main", "exit")
  /\ UNCHANGED <<net, g_master_fd, g_master_mutex, call, errors, g_running>>

-----------------------------------------------------------------------------
(* The master *)

\* process_worker_command answers the next request.
Serve(c) ==
  /\ conn[c] = "up" /\ inbox[c] # <<>>
  /\ inbox' = [inbox EXCEPT ![c] = Tail(@)]
  /\ \E ok \in BOOLEAN :
       /\ ok \/ errors < MaxErrors
       /\ errors' = IF ok THEN errors ELSE errors + 1
       /\ outbox' = [outbox EXCEPT ![c] = Append(@, [tag |-> Head(inbox[c]), ok |-> ok])]
  /\ UNCHANGED <<fdtab, conn, g_master_fd, g_master_mutex, pc, call, g_running>>

\* The master exits, crashes or closes the connection.
Close(c) ==
  /\ conn[c] = "up"
  /\ \E d \in Conns : conn[d] = "new"
  /\ conn' = [conn EXCEPT ![c] = "fin"]
  /\ inbox' = [inbox EXCEPT ![c] = <<>>]
  /\ UNCHANGED <<fdtab, outbox, g_master_fd, g_master_mutex, pc, call, errors, g_running>>

Exchange(t) == Lock(t) \/ Write(t) \/ Receive(t) \/ ReceiveFails(t) \/ Unlock(t)

Next ==
  \/ \E t \in Threads, s \in BOOLEAN : Request(t, s)
  \/ \E t \in Threads : Exchange(t) \/ Leave(t)
  \/ NoticeHangup \/ Connect \/ Signal \/ Join
  \/ \E c \in Conns : Serve(c) \/ Close(c)

Spec == Init /\ [][Next]_vars

\* Both threads are scheduled, the event loop polls, and a master that is up
\* answers what it reads.
Fairness ==
  /\ \A t \in Threads : WF_vars(Exchange(t)) /\ WF_vars(Leave(t))
  /\ WF_vars(NoticeHangup) /\ WF_vars(Connect) /\ WF_vars(Join)
  /\ \A c \in Conns : WF_vars(Serve(c))

FairSpec == Spec /\ Fairness

-----------------------------------------------------------------------------
(***************************************************************************)
(* The reply a thread is about to read from the connection answers the     *)
(* request it sent last, across errors, hangups and reconnections: nobody  *)
(* else's reply, and none that was left over.                              *)
(***************************************************************************)
ReplyIsMine ==
  \A t \in Threads :
    pc[t] \in {"read", "more"} /\ fdtab[fd[t]] # Closed /\ outbox[fdtab[fd[t]]] # <<>>
      => Head(outbox[fdtab[fd[t]]]).tag = <<t, n[t]>>

\* The descriptor a thread waits on was closed by the main thread and given
\* to another connection.
WaitsOnOther(t) == pc[t] \in {"read", "more"} /\ fdtab[fd[t]] \notin {sent[t], Closed}

\* A scan got ERROR and waits for END.
WaitsForEnd(t) == pc[t] = "more"

Stuck == \E t \in Threads : WaitsOnOther(t) \/ WaitsForEnd(t) \/ pc[t] = "dead"

(***************************************************************************)
(* Every exchange with the master ends, with a reply or an error, and the  *)
(* mutex is released, unless the process was killed by SIGPIPE, a scan     *)
(* waits for the END an ERROR reply does not have, or a thread waits on a  *)
(* descriptor the main thread has replaced.                                *)
(***************************************************************************)
ExchangesEnd ==
  \A t \in Threads : (pc[t] \in {"lock", "read"}) ~> (pc[t] = "idle" \/ Stuck)

(***************************************************************************)
(* After SIGINT or SIGTERM the slave joins the GC thread and exits, with   *)
(* the same exceptions.                                                    *)
(***************************************************************************)
ShutdownEnds == ~g_running ~> (pc["main"] = "exit" \/ Stuck)

=============================================================================
