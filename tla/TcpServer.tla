----------------------------- MODULE TcpServer -----------------------------
(***************************************************************************)
(* Who owns which descriptor: the accept coroutine of net/tcp_server.cpp,  *)
(* the tasks it dispatches to the schedulers, and the Connection objects   *)
(* of net/connection.cpp, which are moved from the task into the handler   *)
(* and from there into HttpServer::handle_connection.                      *)
(*                                                                         *)
(* All threads share one descriptor table, and the kernel gives a number   *)
(* that was closed to the next accept().  Bytes are left to Connection,    *)
(* the choice of a scheduler to MultiScheduler, and when a task runs to    *)
(* Scheduler.                                                              *)
(***************************************************************************)
EXTENDS Integers, Sequences, SequencesExt

CONSTANTS
  Clients,  \* each connects at most once
  Scheds,   \* the schedulers of the dispatcher
  MaxFds,   \* descriptors the process may have open for clients (ulimit -n)
  None      \* fd_ = -1; a free entry of the descriptor table

ASSUME TcpServerAssumption ==
  /\ None \notin Clients
  /\ None \notin Int
  /\ MaxFds \in Nat

Fds == 1 .. MaxFds

VARIABLES
  backlog,  \* the listen queue
  acceptor, \* where accept_loop is, and what it holds
  socket,   \* the descriptor table: whose socket a number stands for
  inbox,    \* per scheduler: dispatched tasks that have not started
  conns,    \* per client: its Connection objects, the outermost frame first
  serving   \* per client: "no", "yes", or "returned" from handle_connection

vars == <<backlog, acceptor, socket, inbox, conns, serving>>

Object == [fd : Fds \cup {None}, closed : BOOLEAN]
Task == [client : Clients, fd : Fds]

TypeOK ==
  /\ backlog \in Seq(Clients)
  /\ acceptor \in [at : {"wait", "accept"}] \cup [at : {"dispatch"}, task : Task]
  /\ socket \in [Fds -> Clients \cup {None}]
  /\ inbox \in [Scheds -> Seq(Task)]
  /\ conns \in [Clients -> Seq(Object)]
  /\ serving \in [Clients -> {"no", "yes", "returned"}]

Init ==
  /\ backlog = <<>>
  /\ acceptor = [at |-> "wait"]
  /\ socket = [fd \in Fds |-> None]
  /\ inbox = [s \in Scheds |-> <<>>]
  /\ conns = [k \in Clients |-> <<>>]
  /\ serving = [k \in Clients |-> "no"]

Arrived(k) ==
  \/ k \in Range(backlog) \cup Range(socket) \/ serving[k] # "no"

\* The handshake of TCP, done by the kernel.
Connect(k) ==
  /\ ~ Arrived(k)
  /\ backlog' = Append(backlog, k)
  /\ UNCHANGED <<acceptor, socket, inbox, conns, serving>>

-----------------------------------------------------------------------------
(* accept_loop                                                             *)

\* wait_event returns: EPOLLIN is pending while the listen queue is not empty.
Wake ==
  /\ acceptor.at = "wait"
  /\ backlog # <<>>
  /\ acceptor' = [at |-> "accept"]
  /\ UNCHANGED <<backlog, socket, inbox, conns, serving>>

\* accept() returns the lowest free number.
Accept ==
  /\ acceptor.at = "accept"
  /\ backlog # <<>>
  /\ \E fd \in Fds :
       /\ socket[fd] = None
       /\ \A g \in Fds : socket[g] = None => fd <= g
       /\ socket' = [socket EXCEPT ![fd] = Head(backlog)]
       /\ acceptor' = [at |-> "dispatch", task |-> [client |-> Head(backlog), fd |-> fd]]
  /\ backlog' = Tail(backlog)
  /\ UNCHANGED <<inbox, conns, serving>>

AcceptFails(queueEmpty, next) ==
  /\ acceptor.at = "accept"
  /\ (backlog = <<>>) = queueEmpty
  /\ acceptor' = [at |-> next]
  /\ UNCHANGED <<backlog, socket, inbox, conns, serving>>

\* EAGAIN: the queue is drained; the loop goes back to wait_event.
AcceptNone == AcceptFails(TRUE, "wait")

\* Mutant of AcceptError: the error ends accept_loop.
AcceptErrorEnds == AcceptFails(FALSE, "end")

\* Any other error (no descriptor or no memory left): the same, and the
\* clients that wait stay in the queue.
AcceptError == AcceptFails(FALSE, "wait")

\* dispatcher_(task), or create(task) when there is one scheduler.
Dispatch(s) ==
  /\ acceptor.at = "dispatch"
  /\ inbox' = [inbox EXCEPT ![s] = Append(@, acceptor.task)]
  /\ acceptor' = [at |-> "accept"]
  /\ UNCHANGED <<backlog, socket, conns, serving>>

-----------------------------------------------------------------------------
(* Connection objects.                                                     *)

Gone == [fd |-> None, closed |-> TRUE]   \* moved from, or closed

\* Mutant of MovedTo: the source keeps its descriptor, as with the default move
\* constructor.
CopiedTo(frames) == Append(frames, Last(frames))

\* Connection(Connection&&): a new frame owns what the last one owned.
MovedTo(frames) == Append(Append(Front(frames), Gone), Last(frames))

\* The task runs: Connection conn(client_fd, s), moved into the parameter of
\* handler_ and from there into the parameter of handle_connection.
Start(s) ==
  /\ inbox[s] # <<>>
  /\ LET task == Head(inbox[s]) IN
       /\ conns' = [conns EXCEPT ![task.client] =
                      MovedTo(MovedTo(<<[fd |-> task.fd, closed |-> FALSE]>>))]
       /\ serving' = [serving EXCEPT ![task.client] = "yes"]
  /\ inbox' = [inbox EXCEPT ![s] = Tail(@)]
  /\ UNCHANGED <<backlog, acceptor, socket>>

\* read() returns 0 or an error, or write() an error: closed_ is set.
PeerGone(k) ==
  /\ serving[k] = "yes"
  /\ conns' = [conns EXCEPT ![k] = [@ EXCEPT ![Len(@)].closed = TRUE]]
  /\ UNCHANGED <<backlog, acceptor, socket, inbox, serving>>

Live(c) == ~ c.closed /\ c.fd # None

\* Connection::close() of the innermost object, as far as the table goes.
Close(k) ==
  IF Live(Last(conns[k]))
    THEN socket' = [socket EXCEPT ![Last(conns[k]).fd] = None]
    ELSE UNCHANGED socket

CloseInHandler(k, left) ==
  /\ serving[k] = "yes"
  /\ Live(Last(conns[k]))
  /\ Close(k)
  /\ conns' = [conns EXCEPT ![k] = [@ EXCEPT ![Len(@)] = left]]
  /\ UNCHANGED <<backlog, acceptor, inbox, serving>>

\* Mutant of ExplicitClose: close() leaves fd_ and closed_ as they are.
ExplicitCloseForgets(k) == CloseInHandler(k, Last(conns[k]))

\* close() called by the handler (WebSocket::send_close).
ExplicitClose(k) == CloseInHandler(k, Gone)

\* The keep-alive loop ends, for any of its reasons.
Return(k) ==
  /\ serving[k] = "yes"
  /\ serving' = [serving EXCEPT ![k] = "returned"]
  /\ UNCHANGED <<backlog, acceptor, socket, inbox, conns>>

\* ~Connection() of one frame after the other, while other threads go on.
Destroy(k) ==
  /\ serving[k] = "returned"
  /\ conns[k] # <<>>
  /\ Close(k)
  /\ conns' = [conns EXCEPT ![k] = Front(@)]
  /\ UNCHANGED <<backlog, acceptor, inbox, serving>>

-----------------------------------------------------------------------------

AcceptLoop ==
  Wake \/ Accept \/ AcceptNone \/ \E s \in Scheds : Dispatch(s)

Serve(k) == PeerGone(k) \/ ExplicitClose(k) \/ Return(k) \/ Destroy(k)

Next ==
  \/ \E k \in Clients : Connect(k) \/ Serve(k)
  \/ AcceptLoop
  \/ AcceptError
  \/ \E s \in Scheds : Start(s)

Spec == Init /\ [][Next]_vars

\* The accept coroutine and the schedulers run; accept() does not fail for
\* ever while it could succeed; and every client leaves in the end, after
\* which the frames of its coroutine are unwound.
FairSpec ==
  /\ Spec
  /\ WF_vars(AcceptLoop) /\ SF_vars(Accept)
  /\ \A s \in Scheds : WF_vars(Start(s))
  /\ \A k \in Clients : WF_vars(Return(k)) /\ WF_vars(Destroy(k))

-----------------------------------------------------------------------------

\* Whoever will use or close a descriptor: the accept coroutine, a task that
\* captured it, a Connection object.
TasksOf(s) == {<<"task", s, i, inbox[s][i]>> : i \in DOMAIN inbox[s]}
ObjectsOf(k) == {<<"object", k, i, [client |-> k, fd |-> conns[k][i].fd]>> :
                   i \in {j \in DOMAIN conns[k] : Live(conns[k][j])}}
Owners ==
  {<<"acceptor", 0, 0, acceptor.task>> : at \in {acceptor.at} \cap {"dispatch"}}
  \cup (UNION {TasksOf(s) : s \in Scheds})
  \cup (UNION {ObjectsOf(k) : k \in Clients})

\* A descriptor number has one owner: no number is closed twice, and nobody
\* waits on a number that somebody else waits on (ExclusiveFds of Scheduler).
OneOwner == \A a, b \in Owners : a[4].fd = b[4].fd => a = b

\* An owner's number still stands for its own client's socket, although other
\* threads close and accept all the time.
OwnSocket == \A a \in Owners : socket[a[4].fd] = a[4].client

Leaked(fd) == socket[fd] # None /\ \A a \in Owners : a[4].fd # fd

\* Every open socket has an owner that will close it.
NoLeak == \A fd \in Fds : ~ Leaked(fd)

\* A client in the listen queue is served, also when accept() had no descriptor
\* for it at first.  It waits for ever only if every descriptor has leaked.
Served ==
  \A k \in Clients :
    k \in Range(backlog) ~> serving[k] # "no" \/ \A fd \in Fds : Leaked(fd)
=============================================================================
