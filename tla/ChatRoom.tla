------------------------------ MODULE ChatRoom ------------------------------
(***************************************************************************)
(* The chat room: the handler of "/ws" in main.cpp, one coroutine per      *)
(* client, with ChatRoom (ws/chat_room.h), WebSocket::send_frame,          *)
(* Connection::write and the part of Scheduler::wait_event they reach.     *)
(*                                                                         *)
(* Each client's coroutine and connection belong to the scheduler thread   *)
(* Home[k]; mutex_ and clients_ are shared by all threads.  A frame is two *)
(* units on the wire, so that a send buffer can be full in its middle.     *)
(***************************************************************************)
EXTENDS Integers, Sequences, SequencesExt

CONSTANTS
  Clients,
  Threads,
  Home,       \* Home[k]: the thread whose scheduler runs the handler of k
  SndBuf,     \* units that a connection's send buffer holds
  Scripts,    \* what the clients may send: functions to sequences of frames
  None

Said == {"text", "other", "ping", "close", "eof"}

ASSUME ChatRoomAssumption ==
  /\ Home \in [Clients -> Threads]
  /\ SndBuf \in Nat \ {0}
  /\ Scripts \subseteq [Clients -> Seq(Said)]
  /\ None \notin Clients

VARIABLES
  status,    \* of the handler's coroutine
  at,        \* where the handler is
  msg,       \* the frame it sends or is about to send
  pos,       \* the loop variable of broadcast()
  sent,      \* units of the frame sent to the current client
  mutex,     \* mutex_: the handler that holds it
  members,   \* clients_
  turn,      \* history: how many broadcasts have taken mutex_
  closed,    \* closed_ of a client's connection
  waits,     \* waiting_map of the home scheduler: who waits on the client's fd
  inbox,     \* frames the client sent and the handler has not read
  script,    \* frames the client has not sent yet
  wire,      \* history: the units sent to a client
  taken,     \* how many of them the client has received
  foreign    \* a thread switched to the context of another thread's scheduler

handlerVars == <<status, at, msg, pos, sent>>
roomVars == <<mutex, members, turn>>
clientVars == <<inbox, script, taken>>
vars == <<handlerVars, roomVars, closed, waits, clientVars, wire, foreign>>

\* nr is history: a broadcast has the number of its turn.
Msgs == [by : Clients, kind : {"joined", "left", "text", "pong"}, users : SUBSET Clients, nr : Nat]

TypeOK ==
  /\ status \in [Clients -> {"new", "ready", "running", "waiting", "done"}]
  /\ at \in [Clients -> {"join", "list", "lock", "send", "pong", "blocked", "recv", "leave"}]
  /\ msg \in [Clients -> Msgs \cup {None}]
  /\ pos \in [Clients -> Nat]
  /\ sent \in [Clients -> 0 .. 1]
  /\ mutex \in Clients \cup {None}
  /\ members \in Seq(Clients)
  /\ turn \in Nat
  /\ closed \in [Clients -> BOOLEAN]
  /\ waits \in [Clients -> [co : Clients, ev : {"in", "out"}] \cup {None}]
  /\ inbox \in [Clients -> Seq(Said)]
  /\ script \in [Clients -> Seq(Said)]
  /\ wire \in [Clients -> Seq(Msgs \X {1, 2})]
  /\ taken \in [Clients -> Nat]
  /\ \A k \in Clients : Len(wire[k]) - taken[k] \in 0 .. SndBuf
  /\ foreign \in BOOLEAN

Init ==
  /\ status = [k \in Clients |-> "new"]
  /\ at = [k \in Clients |-> "join"]
  /\ msg = [k \in Clients |-> None]
  /\ pos = [k \in Clients |-> 0]
  /\ sent = [k \in Clients |-> 0]
  /\ mutex = None
  /\ members = <<>>
  /\ turn = 0
  /\ closed = [k \in Clients |-> FALSE]
  /\ waits = [k \in Clients |-> None]
  /\ inbox = [k \in Clients |-> <<>>]
  /\ script \in Scripts
  /\ wire = [k \in Clients |-> <<>>]
  /\ taken = [k \in Clients |-> 0]
  /\ foreign = FALSE

-----------------------------------------------------------------------------
(* The clients and the kernel.                                             *)

\* The handshake is over; the coroutine is ready.
Connect(k) ==
  /\ status[k] = "new"
  /\ status' = [status EXCEPT ![k] = "ready"]
  /\ UNCHANGED <<at, msg, pos, sent, roomVars, closed, waits, clientVars, wire, foreign>>

ClientSends(k) ==
  /\ status[k] # "new"
  /\ script[k] # <<>>
  /\ inbox' = [inbox EXCEPT ![k] = Append(@, Head(script[k]))]
  /\ script' = [script EXCEPT ![k] = Tail(@)]
  /\ UNCHANGED <<handlerVars, roomVars, closed, waits, taken, wire, foreign>>

Unread(k) == Len(wire[k]) - taken[k]

\* The client reads; it matters only when its buffer is full.
ClientReads(k) ==
  /\ Unread(k) = SndBuf
  /\ taken' = [taken EXCEPT ![k] = Len(wire[k])]
  /\ UNCHANGED <<handlerVars, roomVars, closed, waits, inbox, script, wire, foreign>>

-----------------------------------------------------------------------------
(* The schedulers, as far as the handlers see them.                        *)

Running(t) == {k \in Clients : Home[k] = t /\ status[k] = "running"}

Target(k) == IF at[k] = "pong" THEN k ELSE members[pos[k]]

\* Mutant of Resume: the write that waited is not taken up again.
ResumeSkips(k) ==
  /\ status[k] = "ready"
  /\ Running(Home[k]) = {}
  /\ status' = [status EXCEPT ![k] = "running"]
  /\ IF at[k] # "blocked" THEN UNCHANGED <<at, pos, sent>>
     ELSE /\ at' = [at EXCEPT ![k] = IF msg[k].kind = "pong" THEN "recv" ELSE "send"]
          /\ pos' = IF msg[k].kind = "pong" THEN pos ELSE [pos EXCEPT ![k] = @ + 1]
          /\ sent' = [sent EXCEPT ![k] = 0]
  /\ UNCHANGED <<msg, roomVars, closed, waits, clientVars, wire, foreign>>

\* The thread switches to a coroutine.  One that waited in write() looks at
\* closed_ first.
Resume(k) ==
  /\ status[k] = "ready"
  /\ Running(Home[k]) = {}
  /\ status' = [status EXCEPT ![k] = "running"]
  /\ IF at[k] # "blocked" THEN UNCHANGED <<at, pos, sent>>
     ELSE IF msg[k].kind = "pong"
       THEN /\ at' = [at EXCEPT ![k] = IF closed[k] THEN "recv" ELSE "pong"]
            /\ sent' = IF closed[k] THEN [sent EXCEPT ![k] = 0] ELSE sent
            /\ UNCHANGED pos
       ELSE /\ at' = [at EXCEPT ![k] = "send"]
            /\ IF closed[members[pos[k]]]
                 THEN /\ pos' = [pos EXCEPT ![k] = @ + 1]
                      /\ sent' = [sent EXCEPT ![k] = 0]
                 ELSE UNCHANGED <<pos, sent>>
  /\ UNCHANGED <<msg, roomVars, closed, waits, clientVars, wire, foreign>>

\* epoll reports the client's descriptor; run() wakes whom the map names.
Wake(k) ==
  /\ waits[k] # None
  /\ Running(Home[k]) = {}
  /\ IF waits[k].ev = "in" THEN inbox[k] # <<>> ELSE Unread(k) < SndBuf
  /\ status' = [status EXCEPT ![waits[k].co] = "ready"]
  /\ waits' = [waits EXCEPT ![k] = None]
  /\ UNCHANGED <<at, msg, pos, sent, roomVars, closed, clientVars, wire, foreign>>

\* wait_event() on the connection of c, called by the handler k.  It works on
\* the scheduler of c.  On the thread of c, k is suspended, and the map entry
\* of c is overwritten.  On another thread it finds no running coroutine there
\* and returns at once, or it takes that coroutine for the caller and switches
\* to the main context of a scheduler that is in use: the model stops.
WaitEvent(k, c, ev) ==
  IF Home[c] = Home[k]
    THEN /\ waits' = [waits EXCEPT ![c] = [co |-> k, ev |-> ev]]
         /\ status' = [status EXCEPT ![k] = "waiting"]
         /\ UNCHANGED foreign
    ELSE /\ foreign' = (Running(Home[c]) # {})
         /\ UNCHANGED <<waits, status>>

-----------------------------------------------------------------------------
(* ChatRoom and WebSocket.  A step that needs mutex_ blocks its thread.    *)

At(k, place) == status[k] = "running" /\ at[k] = place

Join(k) ==
  /\ At(k, "join")
  /\ mutex = None
  /\ members' = Append(members, k)
  /\ at' = [at EXCEPT ![k] = "list"]
  /\ UNCHANGED <<status, msg, pos, sent, mutex, turn, closed, waits, clientVars, wire, foreign>>

\* size() and nicks_json(), for the message that follows.
List(k) ==
  /\ At(k, "list")
  /\ mutex = None
  /\ msg' = [msg EXCEPT ![k] = [by |-> k, users |-> Range(members), nr |-> 0,
                                kind |-> IF k \in Range(members) THEN "joined" ELSE "left"]]
  /\ at' = [at EXCEPT ![k] = "lock"]
  /\ UNCHANGED <<status, pos, sent, roomVars, closed, waits, clientVars, wire, foreign>>

TakeTurn(k) == turn' = turn + 1 /\ msg' = [msg EXCEPT ![k].nr = turn + 1]

\* Mutant of Lock: broadcast() does not take the mutex.
LockNothing(k) ==
  /\ At(k, "lock")
  /\ TakeTurn(k)
  /\ pos' = [pos EXCEPT ![k] = 1]
  /\ at' = [at EXCEPT ![k] = "send"]
  /\ UNCHANGED <<status, sent, mutex, members, closed, waits, clientVars, wire, foreign>>

\* broadcast() begins.
Lock(k) ==
  /\ At(k, "lock")
  /\ mutex = None
  /\ mutex' = k
  /\ TakeTurn(k)
  /\ pos' = [pos EXCEPT ![k] = 1]
  /\ at' = [at EXCEPT ![k] = "send"]
  /\ UNCHANGED <<status, sent, members, closed, waits, clientVars, wire, foreign>>

Advance(k) == \* on to the next client, or back to the frames
  IF at[k] = "pong"
    THEN at' = [at EXCEPT ![k] = "recv"] /\ UNCHANGED pos
    ELSE pos' = [pos EXCEPT ![k] = @ + 1] /\ UNCHANGED at

\* The client closed its end: a send to it may be refused.
Gone(c) == script[c] = <<>> /\ inbox[c] # <<>> /\ Last(inbox[c]) = "eof"

\* send() fails: write() returns, and send_frame() with it.
WriteFails(k, c) ==
  /\ Gone(c)
  /\ closed' = [closed EXCEPT ![c] = TRUE]
  /\ Advance(k)
  /\ sent' = [sent EXCEPT ![k] = 0]
  /\ UNCHANGED <<wire, waits, status, foreign>>

\* The loop of write(): what fits in the buffer of c goes out.  Where wait_event()
\* has returned at once, closed_ is looked at before the next round.
WriteMore(k, c) ==
  LET room == SndBuf - Unread(c)
      n == IF room < 2 - sent[k] THEN room ELSE 2 - sent[k]
  IN  IF n = 0
        THEN /\ WaitEvent(k, c, "out")
             /\ IF Home[c] = Home[k]
                  THEN at' = [at EXCEPT ![k] = "blocked"] /\ UNCHANGED <<pos, sent>>
                ELSE IF closed[c] /\ ~ foreign'
                  THEN Advance(k) /\ sent' = [sent EXCEPT ![k] = 0]
                ELSE UNCHANGED <<at, pos, sent>>
             /\ UNCHANGED wire
        ELSE /\ wire' = [wire EXCEPT ![c] = @ \o [i \in 1 .. n |-> <<msg[k], sent[k] + i>>]]
             /\ IF sent[k] + n = 2
                  THEN Advance(k) /\ sent' = [sent EXCEPT ![k] = 0]
                  ELSE sent' = [sent EXCEPT ![k] = @ + n] /\ UNCHANGED <<at, pos>>
             /\ UNCHANGED <<waits, status, foreign>>

\* is_closed(), and closed_ at the start of write(), skip the client.
Write(k, c) ==
  IF closed[c] /\ sent[k] = 0
    THEN Advance(k) /\ UNCHANGED <<sent, wire, waits, status, foreign, closed>>
    ELSE \/ WriteFails(k, c)
         \/ WriteMore(k, c) /\ UNCHANGED closed

Send(k) ==
  /\ At(k, "send")
  /\ pos[k] <= Len(members)
  /\ Write(k, Target(k))
  /\ UNCHANGED <<msg, roomVars, clientVars>>

\* broadcast() returns.
Unlock(k) ==
  /\ At(k, "send")
  /\ pos[k] > Len(members)
  /\ mutex' = None
  /\ IF msg[k].kind = "left"
       THEN status' = [status EXCEPT ![k] = "done"] /\ UNCHANGED at
       ELSE at' = [at EXCEPT ![k] = "recv"] /\ UNCHANGED status
  /\ UNCHANGED <<msg, pos, sent, members, turn, closed, waits, clientVars, wire, foreign>>

\* recv_frame() has nothing to read.
Await(k) ==
  /\ At(k, "recv")
  /\ ~ closed[k]
  /\ inbox[k] = <<>>
  /\ WaitEvent(k, k, "in")
  /\ UNCHANGED <<at, msg, pos, sent, roomVars, closed, clientVars, wire>>

Text(k) == [by |-> k, kind |-> "text", users |-> {}, nr |-> 0]
Pong(k) == [by |-> k, kind |-> "pong", users |-> {}, nr |-> 0]

\* recv_frame() finds the connection closed: the loop ends.
Closed(k) ==
  /\ At(k, "recv")
  /\ closed[k]
  /\ at' = [at EXCEPT ![k] = "leave"]
  /\ UNCHANGED <<status, msg, pos, sent, roomVars, closed, waits, clientVars, wire, foreign>>

\* Frames other than these, and empty texts, are skipped.
Frame(k) ==
  /\ At(k, "recv")
  /\ ~ closed[k]
  /\ inbox[k] # <<>>
  /\ inbox' = [inbox EXCEPT ![k] = Tail(@)]
  /\ LET f == Head(inbox[k]) IN
       /\ at' = [at EXCEPT ![k] =
                   CASE f = "text" -> "lock" [] f = "ping" -> "pong" [] f = "other" -> "recv"
                     [] OTHER -> "leave"]
       /\ msg' = [msg EXCEPT ![k] =
                    CASE f = "text" -> Text(k) [] f = "ping" -> Pong(k) [] OTHER -> None]
       /\ closed' = IF f = "eof" THEN [closed EXCEPT ![k] = TRUE] ELSE closed
  /\ UNCHANGED <<status, pos, sent, roomVars, waits, script, taken, wire, foreign>>

\* The reply to a PING: a text frame, on the own connection, without the mutex.
Ponging(k) ==
  /\ At(k, "pong")
  /\ Write(k, k)
  /\ UNCHANGED <<msg, roomVars, clientVars>>

\* Mutant of Leave: the mutex is not taken.
LeaveUnlocked(k) ==
  /\ At(k, "leave")
  /\ \E i \in DOMAIN members : members[i] = k /\ members' = RemoveAt(members, i)
  /\ at' = [at EXCEPT ![k] = "list"]
  /\ UNCHANGED <<status, msg, pos, sent, mutex, turn, closed, waits, clientVars, wire, foreign>>

\* remove_if() finds the one entry that join() made.
Leave(k) ==
  /\ At(k, "leave")
  /\ mutex = None
  /\ \E i \in DOMAIN members : members[i] = k /\ members' = RemoveAt(members, i)
  /\ at' = [at EXCEPT ![k] = "list"]
  /\ UNCHANGED <<status, msg, pos, sent, mutex, turn, closed, waits, clientVars, wire, foreign>>

-----------------------------------------------------------------------------

Handler(k) ==
  \/ Join(k) \/ List(k) \/ Lock(k) \/ Send(k) \/ Unlock(k)
  \/ Await(k) \/ Closed(k) \/ Frame(k) \/ Ponging(k) \/ Leave(k)

Next ==
  ~ foreign /\ \E k \in Clients :
    \/ Connect(k) \/ ClientSends(k) \/ ClientReads(k)
    \/ Resume(k) \/ Wake(k)
    \/ Handler(k)

Spec == Init /\ [][Next]_vars

-----------------------------------------------------------------------------

InRoom(k) == k \in Range(members)

\* broadcast() is between its lock and its unlock, perhaps suspended.
Broadcasting(k) ==
  /\ status[k] # "done"
  /\ \/ at[k] = "send"
     \/ at[k] = "blocked" /\ msg[k].kind # "pong"

\* clients_ holds each WebSocket at most once, and only while its handler is
\* between join() and leave(); and the client to whom a broadcast has sent half
\* a frame stays where it was in clients_, alive, while the broadcast is
\* suspended: neither pointer nor iterator dangles.
NoDangling ==
  /\ IsInjective(members)
  /\ \A k \in Clients : InRoom(k) =>
       status[k] \notin {"new", "done"} /\ at[k] # "join"
  /\ \A k \in Clients : Broadcasting(k) /\ (sent[k] > 0 \/ at[k] = "blocked") =>
       /\ pos[k] \in DOMAIN members
       /\ status[members[pos[k]]] \notin {"new", "done"}
       /\ sent[k] > 0 => <<msg[k], 1>> \in Range(wire[members[pos[k]]])

\* The frame that ends at i began before it, with only replies to PINGs between.
Begun(units, i) ==
  \E j \in 1 .. i - 1 :
    units[j] = <<units[i][1], 1>> /\ \A h \in j + 1 .. i - 1 : units[h][1].kind = "pong"

Intact(units) ==
  \A i \in DOMAIN units : units[i][2] = 2 /\ units[i][1].kind # "pong" => Begun(units, i)

\* Two broadcasts never mix their bytes on a client's connection, also when one
\* of them is suspended in the middle of a frame.
BroadcastsIntact == \A k \in Clients : Intact(wire[k])

\* The unit ends a broadcast.
Finished(u) == u[2] = 2 /\ u[1].kind # "pong"

\* Every client gets the broadcasts in the order in which they took the mutex, and
\* none of them twice: what two clients both heard, they heard in the same order.
InOrder(units) ==
  \A i, j \in DOMAIN units :
    i < j /\ Finished(units[i]) /\ Finished(units[j]) => units[i][1].nr < units[j][1].nr

SameOrder == \A k \in Clients : InOrder(wire[k])

\* When broadcast() returns, every client in the room has the message, or is
\* closed.
EverybodyHears ==
  [][\A k \in Clients : At(k, "send") /\ mutex = k /\ mutex' # k =>
       \A c \in Range(members) : closed[c] \/ <<msg[k], 2>> \in Range(wire[c])]_vars

-----------------------------------------------------------------------------
(* What the comments of the source promise and the code does not keep: each *)
(* of the following is violated on some instance.                          *)

\* A thread never blocks on a mutex that one of its own suspended coroutines
\* holds.
NoSelfDeadlock ==
  \A k \in Clients :
    status[k] = "running" /\ at[k] \in {"join", "list", "lock", "leave"} /\ mutex # None =>
      Home[mutex] # Home[k]

\* No thread enters the scheduler of another one.
OwnThread == ~ foreign

Whole(units) ==
  \A i \in DOMAIN units : units[i][2] = 2 => i > 1 /\ units[i - 1] = <<units[i][1], 1>>

\* No frame mixes with another one on the wire, whoever sends it.
FramesIntact == \A k \in Clients : Whole(wire[k])

Heard(k) == SelectSeq(wire[k], Finished)

\* The list that a member got last is the list of the members, once all the
\* handlers have done their work.
LatestList ==
  (\A k \in Clients : status[k] \in {"new", "waiting", "done"}) =>
    \A k \in Range(members) :
      LET lists == SelectSeq(Heard(k), LAMBDA u : u[1].kind # "text") IN
        lists # <<>> /\ Last(lists)[1].users = Range(members)

\* A handler suspended in recv_frame() is the one whom its descriptor wakes.
ReaderWakes ==
  \A k \in Clients : status[k] = "waiting" /\ at[k] = "recv" => waits[k] = [co |-> k, ev |-> "in"]
=============================================================================
