-------------------------- MODULE TcpServerProofs --------------------------
(***************************************************************************)
(* Theorems about the owners of descriptors, for any number of clients,    *)
(* schedulers and descriptors.                                             *)
(*                                                                         *)
(* OneOwner and OwnSocket are inductive only together: a number that is    *)
(* closed has no other owner because there was only one, and a number that *)
(* accept() hands out has none because an owner's number is in use.        *)
(***************************************************************************)
EXTENDS TcpServer, SequenceTheorems, TLAPS

\* A handler that runs has the Connection that was moved into it.
HasFrame == \A k \in Clients : serving[k] = "yes" => conns[k] # <<>>

Inv == TypeOK /\ HasFrame

-----------------------------------------------------------------------------
(* Frames.                                                                 *)

\* What every sequence of frames but the empty one has.
LEMMA LastFrame ==
  ASSUME NEW frames \in Seq(Object), frames # <<>>
  PROVE  /\ Len(frames) \in Nat \ {0}
         /\ DOMAIN frames = 1 .. Len(frames)
         /\ Len(frames) \in 1 .. Len(frames)
         /\ \A i \in 1 .. Len(frames) : frames[i] \in Object
         /\ Last(frames) = frames[Len(frames)]
<1>1. Len(frames) \in Nat \ {0}
  BY EmptySeq, Zenon
<1>2. DOMAIN frames = 1 .. Len(frames)
  BY LenProperties, Zenon
<1>3. \A i \in 1 .. Len(frames) : frames[i] \in Object
  BY ElementOfSeq, Zenon
<1>4. QED
  BY <1>1, <1>2, <1>3 DEF Last

LEMMA GoneIsObject == Gone \in Object
  BY DEF Gone, Object

\* A destructor takes the innermost frame away.
LEMMA FrontProperties ==
  ASSUME NEW frames \in Seq(Object), frames # <<>>
  PROVE  /\ Front(frames) \in Seq(Object)
         /\ Len(Front(frames)) = Len(frames) - 1
         /\ DOMAIN Front(frames) = 1 .. Len(frames) - 1
         /\ \A i \in 1 .. Len(frames) - 1 : Front(frames)[i] = frames[i]
<1>1. /\ Len(frames) \in Nat \ {0}
      /\ \A i \in 1 .. Len(frames) - 1 : frames[i] \in Object
  BY LastFrame
<1>2. /\ SubSeq(frames, 1, Len(frames) - 1) \in Seq(Object)
      /\ Len(SubSeq(frames, 1, Len(frames) - 1)) = Len(frames) - 1
      /\ \A i \in 1 .. Len(frames) - 1 : SubSeq(frames, 1, Len(frames) - 1)[i] = frames[i]
  <2>1. 1 \in Int /\ Len(frames) - 1 \in Int
    BY <1>1
  <2> DEFINE n == Len(frames) - 1
  <2>2. /\ SubSeq(frames, 1, n) \in Seq(Object)
        /\ Len(SubSeq(frames, 1, n)) = IF 1 <= n THEN n - 1 + 1 ELSE 0
        /\ \A i \in 1 .. n - 1 + 1 : SubSeq(frames, 1, n)[i] = frames[1 + i - 1]
    <3> HIDE DEF n
    <3>1. n \in Int /\ \A i \in 1 .. n : frames[i] \in Object
      BY <1>1, <2>1 DEF n
    <3>2. QED
      BY <2>1, <3>1, SubSeqProperties
  <2>3. n \in Nat
    BY <1>1
  <2> HIDE DEF n
  <2>4. /\ Len(SubSeq(frames, 1, n)) = n
        /\ \A i \in 1 .. n : SubSeq(frames, 1, n)[i] = frames[i]
    BY <2>2, <2>3
  <2>5. QED
    BY <2>2, <2>4 DEF n
<1>3. DOMAIN Front(frames) = 1 .. Len(Front(frames))
  BY <1>2, LenProperties, Zenon DEF Front
<1>4. QED
  BY <1>1, <1>2, <1>3 DEF Front

\* The move constructor adds a frame that has what the last one had, which
\* keeps nothing.
LEMMA Moved ==
  ASSUME NEW frames \in Seq(Object), frames # <<>>
  PROVE  /\ MovedTo(frames) \in Seq(Object)
         /\ MovedTo(frames) # <<>>
         /\ Len(MovedTo(frames)) = Len(frames) + 1
         /\ \A i \in 1 .. Len(frames) - 1 : MovedTo(frames)[i] = frames[i]
         /\ MovedTo(frames)[Len(frames)] = Gone
         /\ MovedTo(frames)[Len(frames) + 1] = frames[Len(frames)]
<1> DEFINE n == Len(frames)
           front == Front(frames)
           f == Append(front, Gone)
<1>1. n \in Nat \ {0} /\ Last(frames) = frames[n] /\ Last(frames) \in Object
  BY LastFrame
<1>2. /\ front \in Seq(Object) /\ Len(front) = n - 1
      /\ \A i \in 1 .. n - 1 : front[i] = frames[i]
  BY FrontProperties
<1> HIDE DEF front
<1>3. /\ f \in Seq(Object) /\ Len(f) = Len(front) + 1 /\ f[Len(front) + 1] = Gone
      /\ \A i \in 1 .. Len(front) : f[i] = front[i]
  BY <1>2, GoneIsObject, AppendProperties
<1> HIDE DEF f
<1>4. /\ Append(f, Last(frames)) \in Seq(Object)
      /\ Append(f, Last(frames)) # <<>>
      /\ Len(Append(f, Last(frames))) = Len(f) + 1
      /\ Append(f, Last(frames))[Len(f) + 1] = Last(frames)
      /\ \A i \in 1 .. Len(f) : Append(f, Last(frames))[i] = f[i]
  BY <1>1, <1>3, AppendProperties
<1>5. MovedTo(frames) = Append(f, Last(frames))
  BY DEF MovedTo, f, front
<1> HIDE DEF n
<1>6. Len(f) = n /\ Len(front) = n - 1
  BY <1>1, <1>2, <1>3
<1>7. QED
  BY <1>1, <1>2, <1>3, <1>4, <1>5, <1>6 DEF n

\* The task's Connection after its two moves.
LEMMA MovedTwice ==
  ASSUME NEW o \in Object
  PROVE  /\ MovedTo(MovedTo(<<o>>)) \in Seq(Object)
         /\ MovedTo(MovedTo(<<o>>)) # <<>>
         /\ DOMAIN MovedTo(MovedTo(<<o>>)) = 1 .. 3
         /\ MovedTo(MovedTo(<<o>>))[1] = Gone
         /\ MovedTo(MovedTo(<<o>>))[2] = Gone
         /\ MovedTo(MovedTo(<<o>>))[3] = o
<1> DEFINE f == <<o>>
           g == MovedTo(f)
           h == MovedTo(g)
<1>1. f \in Seq(Object) /\ f # <<>> /\ Len(f) = 1 /\ f[1] = o
  OBVIOUS
<1> HIDE DEF f
<1>2. g \in Seq(Object) /\ g # <<>> /\ Len(g) = 2 /\ g[1] = Gone /\ g[2] = o
  <2>1. /\ g \in Seq(Object) /\ g # <<>> /\ Len(g) = Len(f) + 1
        /\ g[Len(f)] = Gone /\ g[Len(f) + 1] = f[Len(f)]
    BY <1>1, Moved, Zenon
  <2> HIDE DEF g
  <2>2. QED
    BY <1>1, <2>1
<1> HIDE DEF g
<1>3. /\ h \in Seq(Object) /\ h # <<>> /\ Len(h) = 3
      /\ h[1] = Gone /\ h[2] = Gone /\ h[3] = o
  <2>1. /\ h \in Seq(Object) /\ h # <<>> /\ Len(h) = Len(g) + 1
        /\ \A i \in 1 .. Len(g) - 1 : h[i] = g[i]
        /\ h[Len(g)] = Gone /\ h[Len(g) + 1] = g[Len(g)]
    BY <1>2, Moved, Zenon
  <2> HIDE DEF h
  <2>2. QED
    BY <1>2, <2>1
<1> HIDE DEF h
<1>4. DOMAIN h = 1 .. 3
  BY <1>3, LenProperties
<1>5. QED
  BY <1>3, <1>4 DEF f, g, h

-----------------------------------------------------------------------------
(* Type correctness.                                                       *)

LEMMA InitInv == Init => Inv
  BY DEF Init, Inv, TypeOK, HasFrame

\* One step per action; CloseInHandler and the frames' destructors go to the
\* descriptor table.
LEMMA NextInv == Inv /\ [Next]_vars => Inv'
<1> SUFFICES ASSUME Inv, [Next]_vars PROVE Inv'
  OBVIOUS
<1> USE TcpServerAssumption DEF Inv
<1>1. ASSUME NEW k \in Clients, Connect(k) PROVE Inv'
  <2>1. backlog' \in Seq(Clients)
    BY <1>1, AppendProperties DEF Connect, TypeOK
  <2>2. QED
    BY <1>1, <2>1 DEF Connect, TypeOK, HasFrame
<1>2. CASE Wake \/ AcceptNone \/ AcceptError
  BY <1>2 DEF Wake, AcceptNone, AcceptError, AcceptFails, TypeOK, HasFrame
<1>3. CASE Accept
  <2>1. Head(backlog) \in Clients /\ backlog' \in Seq(Clients)
    BY <1>3, HeadTailProperties DEF Accept, TypeOK
  <2>2. PICK fd \in Fds :
          /\ socket' = [socket EXCEPT ![fd] = Head(backlog)]
          /\ acceptor' = [at |-> "dispatch", task |-> [client |-> Head(backlog), fd |-> fd]]
    BY <1>3 DEF Accept
  <2>3. QED
    BY <1>3, <2>1, <2>2 DEF Accept, TypeOK, HasFrame, Task
<1>4. ASSUME NEW s \in Scheds, Dispatch(s) PROVE Inv'
  <2>1. acceptor.task \in Task
    BY <1>4 DEF Dispatch, TypeOK
  <2>2. Append(inbox[s], acceptor.task) \in Seq(Task)
    BY <2>1, AppendProperties DEF TypeOK
  <2>3. inbox' \in [Scheds -> Seq(Task)]
    BY <1>4, <2>2 DEF Dispatch, TypeOK
  <2>4. QED
    BY <1>4, <2>3 DEF Dispatch, TypeOK, HasFrame
<1>5. ASSUME NEW s \in Scheds, Start(s) PROVE Inv'
  <2> DEFINE task == Head(inbox[s])
             frames == MovedTo(MovedTo(<<[fd |-> task.fd, closed |-> FALSE]>>))
  <2>1. task \in Task /\ Tail(inbox[s]) \in Seq(Task)
    BY <1>5, HeadTailProperties DEF Start, TypeOK
  <2>2. task.client \in Clients /\ [fd |-> task.fd, closed |-> FALSE] \in Object
    BY <2>1 DEF Task, Object
  <2>3. frames \in Seq(Object) /\ frames # <<>>
    BY <2>2, MovedTwice
  <2>5. /\ conns' = [conns EXCEPT ![task.client] = frames]
        /\ serving' = [serving EXCEPT ![task.client] = "yes"]
        /\ inbox' = [inbox EXCEPT ![s] = Tail(@)]
        /\ UNCHANGED <<backlog, acceptor, socket>>
    BY <1>5 DEF Start
  <2> HIDE DEF frames, task
  <2>6. QED
    BY <2>1, <2>2, <2>3, <2>5 DEF TypeOK, HasFrame
<1>6. ASSUME NEW k \in Clients, PeerGone(k) PROVE Inv'
  <2> DEFINE n == Len(conns[k])
             frames == [conns[k] EXCEPT ![n] = [conns[k][n] EXCEPT !.closed = TRUE]]
  <2>1. conns[k] \in Seq(Object) /\ conns[k] # <<>>
    BY <1>6 DEF PeerGone, TypeOK, HasFrame
  <2>2. n \in Nat \ {0} /\ n \in 1 .. n /\ conns[k][n] \in Object
    BY <2>1, EmptySeq, ElementOfSeq
  <2>3. [conns[k][n] EXCEPT !.closed = TRUE] \in Object
    BY <2>2 DEF Object
  <2>4. frames \in Seq(Object) /\ Len(frames) = n
    BY <2>1, <2>2, <2>3, ExceptSeq
  <2>5. frames # <<>>
    BY <2>2, <2>4
  <2>6. conns' = [conns EXCEPT ![k] = frames]
    BY <1>6 DEF PeerGone
  <2> HIDE DEF frames
  <2>7. QED
    BY <1>6, <2>4, <2>5, <2>6 DEF PeerGone, TypeOK, HasFrame
<1>7. ASSUME NEW k \in Clients, ExplicitClose(k) PROVE Inv'
  <2> DEFINE n == Len(conns[k])
             frames == [conns[k] EXCEPT ![n] = Gone]
  <2>1. conns[k] \in Seq(Object) /\ conns[k] # <<>>
    BY <1>7 DEF ExplicitClose, CloseInHandler, TypeOK, HasFrame
  <2>2. n \in Nat \ {0} /\ n \in 1 .. n /\ Gone \in Object
    BY <2>1, EmptySeq DEF Gone, Object
  <2>3. frames \in Seq(Object) /\ Len(frames) = n
    BY <2>1, <2>2, ExceptSeq
  <2>4. frames # <<>>
    BY <2>2, <2>3
  <2>5. conns' = [conns EXCEPT ![k] = frames]
    BY <1>7 DEF ExplicitClose, CloseInHandler
  <2> HIDE DEF frames
  <2>6. socket' \in [Fds -> Clients \cup {None}]
    BY <1>7 DEF ExplicitClose, CloseInHandler, Close, TypeOK
  <2>7. QED
    BY <1>7, <2>3, <2>4, <2>5, <2>6 DEF ExplicitClose, CloseInHandler, TypeOK, HasFrame
<1>8. ASSUME NEW k \in Clients, Return(k) PROVE Inv'
  BY <1>8 DEF Return, TypeOK, HasFrame
<1>9. ASSUME NEW k \in Clients, Destroy(k) PROVE Inv'
  <2>1. Front(conns[k]) \in Seq(Object)
    BY <1>9, FrontProperties DEF Destroy, TypeOK
  <2>2. socket' \in [Fds -> Clients \cup {None}]
    BY <1>9 DEF Destroy, Close, TypeOK
  <2>3. conns' = [conns EXCEPT ![k] = Front(conns[k])]
    BY <1>9 DEF Destroy
  <2>4. QED
    BY <1>9, <2>1, <2>2, <2>3 DEF Destroy, TypeOK, HasFrame
<1>10. CASE UNCHANGED vars
  BY <1>10 DEF vars, TypeOK, HasFrame
<1>11. QED
  BY <1>1, <1>2, <1>3, <1>4, <1>5, <1>6, <1>7, <1>8, <1>9, <1>10
     DEF Next, AcceptLoop, Serve

LEMMA AlwaysInv == Spec => []Inv
  BY InitInv, NextInv, PTL DEF Spec

\* accept_loop, the tasks and the handlers keep the types of what they share.
THEOREM TypeCorrect == Spec => []TypeOK
  BY AlwaysInv, PTL DEF Inv

-----------------------------------------------------------------------------
(* Owners.                                                                 *)

\* An owner by the place where it is.
IsAcceptor(a) ==
  acceptor.at = "dispatch" /\ a = <<"acceptor", 0, 0, acceptor.task>>
IsTask(a) ==
  \E s \in Scheds : \E i \in DOMAIN inbox[s] : a = <<"task", s, i, inbox[s][i]>>
IsObject(a) ==
  \E k \in Clients : \E i \in DOMAIN conns[k] :
    /\ Live(conns[k][i])
    /\ a = <<"object", k, i, [client |-> k, fd |-> conns[k][i].fd]>>

LEMMA OwnersAre ==
  /\ \A a : a \in Owners <=> IsAcceptor(a) \/ IsTask(a) \/ IsObject(a)
  /\ \A a : a \in Owners' <=> IsAcceptor(a)' \/ IsTask(a)' \/ IsObject(a)'
<1>1. ASSUME NEW s PROVE
        /\ \A a : a \in TasksOf(s) <=>
             \E i \in DOMAIN inbox[s] : a = <<"task", s, i, inbox[s][i]>>
        /\ \A a : a \in TasksOf(s)' <=>
             \E i \in DOMAIN inbox'[s] : a = <<"task", s, i, inbox'[s][i]>>
  BY DEF TasksOf
<1>2. ASSUME NEW k PROVE
        /\ \A a : a \in ObjectsOf(k) <=> \E i \in DOMAIN conns[k] :
             /\ Live(conns[k][i])
             /\ a = <<"object", k, i, [client |-> k, fd |-> conns[k][i].fd]>>
        /\ \A a : a \in ObjectsOf(k)' <=> \E i \in DOMAIN conns'[k] :
             /\ Live(conns'[k][i])
             /\ a = <<"object", k, i, [client |-> k, fd |-> conns'[k][i].fd]>>
  BY DEF ObjectsOf, Live
<1>3. /\ \A a : a \in UNION {TasksOf(s) : s \in Scheds} <=> IsTask(a)
      /\ \A a : a \in UNION {TasksOf(s)' : s \in Scheds} <=> IsTask(a)'
  BY <1>1 DEF IsTask
<1>4. /\ \A a : a \in UNION {ObjectsOf(k) : k \in Clients} <=> IsObject(a)
      /\ \A a : a \in UNION {ObjectsOf(k)' : k \in Clients} <=> IsObject(a)'
  BY <1>2 DEF IsObject
<1>5. /\ \A a : a \in {<<"acceptor", 0, 0, acceptor.task>> :
                         at \in {acceptor.at} \cap {"dispatch"}} <=> IsAcceptor(a)
      /\ \A a : a \in {<<"acceptor", 0, 0, acceptor'.task>> :
                         at \in {acceptor'.at} \cap {"dispatch"}} <=> IsAcceptor(a)'
  BY DEF IsAcceptor
<1>6. QED
  BY <1>3, <1>4, <1>5, Zenon DEF Owners

LEMMA OwnerTyped ==
  ASSUME TypeOK, NEW a \in Owners
  PROVE  a[4] \in Task
<1>1. CASE IsAcceptor(a)
  BY <1>1 DEF IsAcceptor, TypeOK
<1>2. ASSUME NEW s \in Scheds, NEW i \in DOMAIN inbox[s], a = <<"task", s, i, inbox[s][i]>>
      PROVE  a[4] \in Task
  <2>1. inbox[s] \in Seq(Task)
    BY DEF TypeOK
  <2>2. inbox[s][i] \in Task
    BY <2>1, LenProperties, ElementOfSeq
  <2>3. QED
    BY <1>2, <2>2
<1>3. ASSUME NEW k \in Clients, NEW i \in DOMAIN conns[k], Live(conns[k][i]),
             a = <<"object", k, i, [client |-> k, fd |-> conns[k][i].fd]>>
      PROVE  a[4] \in Task
  <2>1. conns[k] \in Seq(Object)
    BY DEF TypeOK
  <2>2. conns[k][i] \in Object
    BY <2>1, LenProperties, ElementOfSeq
  <2>3. conns[k][i].fd \in Fds
    BY <1>3, <2>2 DEF Live, Object
  <2>4. QED
    BY <1>3, <2>3 DEF Task
<1>4. QED
  BY <1>1, <1>2, <1>3, OwnersAre DEF IsTask, IsObject

Owned == OneOwner /\ OwnSocket

\* Fewer owners, whose sockets stay as they are.
LEMMA Fewer ==
  ASSUME Owned, Owners' \subseteq Owners,
         \A a \in Owners' : socket'[a[4].fd] = socket[a[4].fd]
  PROVE  Owned'
  BY DEF Owned, OneOwner, OwnSocket

\* The innermost object's socket is closed: nobody else had it.
LEMMA Closed ==
  ASSUME TypeOK, Owned, NEW k \in Clients, conns[k] # <<>>,
         Close(k), Owners' \subseteq Owners,
         \A a \in Owners' : ~ (a[1] = "object" /\ a[2] = k /\ a[3] = Len(conns[k]))
  PROVE  Owned'
<1> DEFINE n == Len(conns[k])
           fd == conns[k][n].fd
           x == <<"object", k, n, [client |-> k, fd |-> fd]>>
<1>1. /\ n \in DOMAIN conns[k] /\ Last(conns[k]) = conns[k][n]
  BY LastFrame DEF TypeOK
<1>2. CASE ~ Live(conns[k][n])
  BY <1>1, <1>2, Fewer DEF Close
<1>3. CASE Live(conns[k][n])
  <2>1. x \in Owners
    BY <1>1, <1>3, OwnersAre DEF IsObject
  <2>2. socket' = [socket EXCEPT ![fd] = None]
    BY <1>1, <1>3 DEF Close
  <2>3. ASSUME NEW a \in Owners' PROVE socket'[a[4].fd] = socket[a[4].fd]
    <3>1. a \in Owners /\ a # x
      BY <2>3
    <3>2. a[4].fd # fd
      BY <2>1, <3>1 DEF Owned, OneOwner
    <3>3. a[4].fd \in Fds
      BY <3>1, OwnerTyped DEF Task
    <3>4. QED
      BY <2>2, <3>2, <3>3 DEF TypeOK
  <2>4. QED
    BY <2>3, Fewer
<1>4. QED
  BY <1>2, <1>3

-----------------------------------------------------------------------------
(* Every step keeps the owners apart.                                      *)

LEMMA InitOwned == Init => Owned
<1> SUFFICES ASSUME Init PROVE Owned
  OBVIOUS
<1>1. \A a : a \notin Owners
  BY OwnersAre DEF Init, IsAcceptor, IsTask, IsObject
<1>2. QED
  BY <1>1 DEF Owned, OneOwner, OwnSocket

\* A number that accept() hands out has no owner.
LEMMA AcceptOwned == TypeOK /\ Owned /\ Accept => Owned'
<1> SUFFICES ASSUME TypeOK, Owned, Accept PROVE Owned'
  OBVIOUS
<1> DEFINE k == Head(backlog)
<1>1. k \in Clients
  BY HeadTailProperties DEF Accept, TypeOK
<1>2. PICK fd \in Fds :
        /\ socket[fd] = None
        /\ socket' = [socket EXCEPT ![fd] = k]
        /\ acceptor' = [at |-> "dispatch", task |-> [client |-> k, fd |-> fd]]
  BY DEF Accept
<1> HIDE DEF k
<1> DEFINE new == <<"acceptor", 0, 0, [client |-> k, fd |-> fd]>>
<1>3. \A a \in Owners' : a = new \/ a \in Owners
  BY <1>2, OwnersAre DEF Accept, IsAcceptor, IsTask, IsObject
<1>4. \A a \in Owners : a[4].fd \in Fds /\ a[4].client \in Clients
  BY OwnerTyped DEF Task
<1>5. \A a \in Owners : a[4].fd # fd
  BY <1>2, <1>4, TcpServerAssumption DEF Owned, OwnSocket
<1>6. \A a \in Owners : socket'[a[4].fd] = socket[a[4].fd]
  BY <1>2, <1>4, <1>5 DEF TypeOK
<1>7. new[4].fd = fd /\ new[4].client = k
  OBVIOUS
<1>8. socket'[fd] = k
  BY <1>2 DEF TypeOK
<1> HIDE DEF new
<1>9. OneOwner'
  BY <1>3, <1>5, <1>7 DEF Owned, OneOwner
<1>10. OwnSocket'
  BY <1>3, <1>6, <1>7, <1>8 DEF Owned, OwnSocket
<1>11. QED
  BY <1>9, <1>10 DEF Owned

\* The task takes over from the accept coroutine.
LEMMA DispatchOwned ==
  ASSUME TypeOK, Owned, NEW s \in Scheds, Dispatch(s)
  PROVE  Owned'
<1> DEFINE n == Len(inbox[s])
           new == <<"task", s, n + 1, acceptor.task>>
           old == <<"acceptor", 0, 0, acceptor.task>>
<1>1. acceptor.task \in Task /\ inbox[s] \in Seq(Task)
  BY DEF Dispatch, TypeOK
<1>2. /\ DOMAIN inbox'[s] = 1 .. n + 1 /\ DOMAIN inbox[s] = 1 .. n /\ n \in Nat
      /\ inbox'[s][n + 1] = acceptor.task
      /\ \A i \in 1 .. n : inbox'[s][i] = inbox[s][i]
  <2>1. inbox'[s] = Append(inbox[s], acceptor.task)
    BY DEF Dispatch, TypeOK
  <2>2. QED
    BY <1>1, <2>1, AppendProperties, LenProperties
<1>3. old \in Owners
  BY OwnersAre DEF Dispatch, IsAcceptor
<1>4. \A a \in Owners' : a = new \/ (a \in Owners /\ a # old)
  <2>1. SUFFICES ASSUME NEW a \in Owners' PROVE a = new \/ (a \in Owners /\ a # old)
    OBVIOUS
  <2>2. ~ IsAcceptor(a)'
    BY DEF IsAcceptor, Dispatch
  <2>3. ASSUME NEW q \in Scheds, NEW i \in DOMAIN inbox'[q],
               a = <<"task", q, i, inbox'[q][i]>>
        PROVE  a = new \/ (a \in Owners /\ a # old)
    <3>1. CASE q = s /\ i = n + 1
      BY <1>2, <2>3, <3>1
    <3>2. CASE ~ (q = s /\ i = n + 1)
      <4>1. i \in DOMAIN inbox[q] /\ inbox'[q][i] = inbox[q][i]
        BY <1>2, <2>3, <3>2 DEF Dispatch, TypeOK
      <4>2. a \in Owners
        BY <2>3, <4>1, OwnersAre DEF IsTask
      <4>3. QED
        BY <2>3, <4>2
    <3>3. QED
      BY <3>1, <3>2
  <2>4. CASE IsObject(a)'
    <3>1. a \in Owners
      BY <2>4, OwnersAre DEF IsObject, Dispatch
    <3>2. a # old
      BY <2>4 DEF IsObject
    <3>3. QED
      BY <3>1, <3>2
  <2>5. QED
    BY <2>2, <2>3, <2>4, OwnersAre DEF IsTask
<1>5. new[4] = old[4] /\ socket' = socket
  BY DEF Dispatch
<1> HIDE DEF new, old
<1>6. QED
  BY <1>3, <1>4, <1>5 DEF Owned, OneOwner, OwnSocket

\* The task's Connection, two moves later, takes over from the first task.
LEMMA StartOwned ==
  ASSUME TypeOK, Owned, NEW s \in Scheds, Start(s)
  PROVE  Owned'
<1> DEFINE task == Head(inbox[s])
           k == task.client
           frames == MovedTo(MovedTo(<<[fd |-> task.fd, closed |-> FALSE]>>))
           first == <<"task", s, 1, task>>
           new == <<"object", k, 3, task>>
           From(a) == IF a = new THEN first
                      ELSE IF a[1] = "task" /\ a[2] = s THEN <<"task", s, a[3] + 1, a[4]>>
                      ELSE a
<1>1. /\ inbox[s] \in Seq(Task) /\ inbox[s] # <<>>
      /\ inbox' = [inbox EXCEPT ![s] = Tail(inbox[s])]
      /\ conns' = [conns EXCEPT ![k] = frames]
      /\ UNCHANGED <<backlog, acceptor, socket>>
  BY DEF Start, TypeOK
<1>2. task \in Task /\ task = inbox[s][1] /\ 1 \in DOMAIN inbox[s]
  <2>1. Len(inbox[s]) \in Nat \ {0} /\ DOMAIN inbox[s] = 1 .. Len(inbox[s])
    BY <1>1, EmptySeq, LenProperties
  <2>2. 1 \in DOMAIN inbox[s]
    BY <2>1
  <2>3. Head(inbox[s]) = inbox[s][1]
    BY <1>1
  <2>4. QED
    BY <1>1, <2>2, <2>3, HeadTailProperties
<1>3. /\ DOMAIN inbox'[s] = 1 .. Len(inbox[s]) - 1 /\ DOMAIN inbox[s] = 1 .. Len(inbox[s])
      /\ Len(inbox[s]) \in Nat
      /\ \A i \in DOMAIN inbox'[s] : inbox'[s][i] = inbox[s][i + 1]
  <2>1. inbox'[s] = Tail(inbox[s])
    BY <1>1 DEF TypeOK
  <2>2. /\ Tail(inbox[s]) \in Seq(Task) /\ Len(Tail(inbox[s])) = Len(inbox[s]) - 1
        /\ \A i \in 1 .. Len(Tail(inbox[s])) : Tail(inbox[s])[i] = inbox[s][i + 1]
    BY <1>1, HeadTailProperties, Zenon
  <2>3. DOMAIN Tail(inbox[s]) = 1 .. Len(Tail(inbox[s]))
    BY <2>2, LenProperties, Zenon
  <2>4. DOMAIN inbox[s] = 1 .. Len(inbox[s]) /\ Len(inbox[s]) \in Nat
    BY <1>1, LenProperties, Zenon
  <2>5. QED
    BY <2>1, <2>2, <2>3, <2>4
<1>4. k \in Clients /\ task.fd \in Fds /\ task = [client |-> k, fd |-> task.fd]
  BY <1>2 DEF Task
<1>5. [fd |-> task.fd, closed |-> FALSE] \in Object
  BY <1>4 DEF Object
<1>6. /\ DOMAIN frames = 1 .. 3 /\ frames[1] = Gone /\ frames[2] = Gone
      /\ frames[3] = [fd |-> task.fd, closed |-> FALSE]
  BY <1>5, MovedTwice
<1> HIDE DEF task, k, frames
<1>7. ASSUME NEW i \in DOMAIN frames, Live(frames[i])
      PROVE  i = 3 /\ frames[i].fd = task.fd
  BY <1>6, <1>7 DEF Live, Gone
<1>8. first \in Owners
  BY <1>2, OwnersAre DEF IsTask
<1>9. ASSUME NEW a \in Owners'
      PROVE  From(a) \in Owners /\ From(a)[4] = a[4] /\ (a # new => From(a) # first)
  <2>1. CASE IsAcceptor(a)'
    <3>1. a \in Owners /\ a[1] = "acceptor"
      BY <1>1, <2>1, OwnersAre DEF IsAcceptor
    <3>2. QED
      BY <3>1
  <2>2. ASSUME NEW q \in Scheds, NEW i \in DOMAIN inbox'[q],
               a = <<"task", q, i, inbox'[q][i]>>
        PROVE  From(a) \in Owners /\ From(a)[4] = a[4] /\ (a # new => From(a) # first)
    <3>1. a # new /\ a[1] = "task" /\ a[2] = q /\ a[3] = i /\ a[4] = inbox'[q][i]
      BY <2>2
    <3>2. CASE q = s
      <4>1. /\ i \in Nat \ {0} /\ i + 1 \in DOMAIN inbox[s] /\ i + 1 # 1
            /\ a[4] = inbox[s][i + 1]
        BY <1>3, <2>2, <3>1, <3>2
      <4>2. From(a) = <<"task", s, i + 1, inbox[s][i + 1]>>
        BY <3>1, <3>2, <4>1
      <4>3. From(a) \in Owners
        BY <4>1, <4>2, OwnersAre DEF IsTask
      <4>4. QED
        BY <3>1, <4>1, <4>2, <4>3
    <3>3. CASE q # s
      <4>1. inbox'[q] = inbox[q]
        BY <1>1, <3>3 DEF TypeOK
      <4>2. a \in Owners
        BY <2>2, <4>1, OwnersAre DEF IsTask
      <4>3. QED
        BY <3>1, <3>3, <4>2
    <3>4. QED
      BY <3>2, <3>3
  <2>3. ASSUME NEW c \in Clients, NEW i \in DOMAIN conns'[c], Live(conns'[c][i]),
               a = <<"object", c, i, [client |-> c, fd |-> conns'[c][i].fd]>>
        PROVE  From(a) \in Owners /\ From(a)[4] = a[4] /\ (a # new => From(a) # first)
    <3>1. CASE c = k
      <4>1. conns'[c] = frames
        BY <1>1, <1>4, <3>1 DEF TypeOK
      <4>2. i = 3 /\ conns'[c][i].fd = task.fd
        BY <1>7, <2>3, <4>1
      <4>3. a = new
        BY <1>4, <2>3, <3>1, <4>2
      <4>4. QED
        BY <1>8, <4>3
    <3>2. CASE c # k
      <4>1. conns'[c] = conns[c]
        BY <1>1, <3>2 DEF TypeOK
      <4>2. a \in Owners /\ a # new /\ a[1] = "object"
        BY <2>3, <3>2, <4>1, OwnersAre DEF IsObject
      <4>3. QED
        BY <4>2
    <3>3. QED
      BY <3>1, <3>2
  <2>4. QED
    BY <2>1, <2>2, <2>3, OwnersAre DEF IsTask, IsObject
<1>10. ASSUME NEW a \in Owners', NEW b \in Owners', From(a) = From(b) PROVE a = b
  <2>1. CASE a = new \/ b = new
    BY <1>9, <1>10, <2>1
  <2>2. CASE a # new /\ b # new
    <3>1. ASSUME NEW c \in Owners', c[1] = "task"
          PROVE  c = <<"task", c[2], c[3], c[4]>> /\ (c[2] = s => c[3] \in Nat)
      BY <1>3, <3>1, OwnersAre DEF IsAcceptor, IsTask, IsObject
    <3>2. ASSUME NEW c \in Owners', c # new
          PROVE  /\ From(c)[1] = c[1] /\ From(c)[2] = c[2]
                 /\ c[1] = "task" /\ c[2] = s => From(c)[3] = c[3] + 1 /\ From(c)[4] = c[4]
                 /\ ~ (c[1] = "task" /\ c[2] = s) => From(c) = c
      BY <3>2
    <3>3. CASE a[1] = "task" /\ a[2] = s
      BY <1>10, <2>2, <3>1, <3>2, <3>3
    <3>4. CASE ~ (a[1] = "task" /\ a[2] = s)
      BY <1>10, <2>2, <3>2, <3>4
    <3>5. QED
      BY <3>3, <3>4
  <2>3. QED
    BY <2>1, <2>2
<1> HIDE DEF From
<1>11. OneOwner'
  BY <1>9, <1>10 DEF Owned, OneOwner
<1>12. OwnSocket'
  BY <1>1, <1>9 DEF Owned, OwnSocket
<1>13. QED
  BY <1>11, <1>12 DEF Owned

\* A connection found dead has no owner any more; its socket stays open.
LEMMA PeerGoneOwned ==
  ASSUME TypeOK, HasFrame, Owned, NEW k \in Clients, PeerGone(k)
  PROVE  Owned'
<1>1. PICK frames \in {conns'[k]} :
        /\ DOMAIN frames = DOMAIN conns[k]
        /\ \A i \in DOMAIN frames : Live(frames[i]) => frames[i] = conns[k][i]
  <2>1. conns[k] \in Seq(Object) /\ conns[k] # <<>>
    BY DEF PeerGone, TypeOK, HasFrame
  <2>2. conns'[k] = [conns[k] EXCEPT ![Len(conns[k])].closed = TRUE]
    BY DEF PeerGone, TypeOK
  <2>3. Len(conns[k]) \in DOMAIN conns[k] /\ conns[k][Len(conns[k])] \in Object
    BY <2>1, LastFrame
  <2>4. conns'[k][Len(conns[k])].closed = TRUE
    BY <2>2, <2>3 DEF Object
  <2>5. QED
    BY <2>2, <2>4 DEF Live
<1>2. \A c \in Clients : c # k => conns'[c] = conns[c]
  BY DEF PeerGone, TypeOK
<1>3. \A a : IsObject(a)' => IsObject(a)
  BY <1>1, <1>2 DEF IsObject
<1>4. Owners' \subseteq Owners
  BY <1>3, OwnersAre DEF PeerGone, IsAcceptor, IsTask
<1>5. QED
  BY <1>4, Fewer DEF PeerGone

LEMMA ExplicitCloseOwned ==
  ASSUME TypeOK, HasFrame, Owned, NEW k \in Clients, ExplicitClose(k)
  PROVE  Owned'
<1> DEFINE n == Len(conns[k])
<1>1. conns[k] \in Seq(Object) /\ conns[k] # <<>>
  BY DEF ExplicitClose, CloseInHandler, TypeOK, HasFrame
<1>2. conns' = [conns EXCEPT ![k] = [conns[k] EXCEPT ![n] = Gone]]
  BY DEF ExplicitClose, CloseInHandler
<1>3. n \in DOMAIN conns[k]
  BY <1>1, LastFrame
<1>4. /\ DOMAIN conns'[k] = DOMAIN conns[k] /\ ~ Live(conns'[k][n])
      /\ \A i \in DOMAIN conns[k] : i # n => conns'[k][i] = conns[k][i]
  BY <1>2, <1>3 DEF TypeOK, Live, Gone
<1>5. \A c \in Clients : c # k => conns'[c] = conns[c]
  BY <1>2 DEF TypeOK
<1> HIDE DEF n
<1>6. \A a : IsObject(a)' => IsObject(a) /\ ~ (a[2] = k /\ a[3] = n)
  BY <1>4, <1>5 DEF IsObject
<1>7. Owners' \subseteq Owners /\ \A a \in Owners' : ~ (a[1] = "object" /\ a[2] = k /\ a[3] = n)
  BY <1>6, OwnersAre DEF ExplicitClose, CloseInHandler, IsAcceptor, IsTask
<1>8. QED
  BY <1>1, <1>7, Closed DEF ExplicitClose, CloseInHandler, n

LEMMA DestroyOwned ==
  ASSUME TypeOK, Owned, NEW k \in Clients, Destroy(k)
  PROVE  Owned'
<1> DEFINE n == Len(conns[k])
<1>1. conns[k] \in Seq(Object) /\ conns[k] # <<>> /\ n \in Nat \ {0} /\ DOMAIN conns[k] = 1 .. n
  BY LastFrame DEF Destroy, TypeOK
<1>2. conns'[k] = Front(conns[k])
  BY DEF Destroy, TypeOK
<1>3. DOMAIN conns'[k] = 1 .. n - 1 /\ \A i \in 1 .. n - 1 : conns'[k][i] = conns[k][i]
  BY <1>1, <1>2, FrontProperties
<1>4. \A c \in Clients : c # k => conns'[c] = conns[c]
  BY DEF Destroy, TypeOK
<1>5. ASSUME NEW i \in DOMAIN conns'[k]
      PROVE  i \in DOMAIN conns[k] /\ i # n /\ conns'[k][i] = conns[k][i]
  BY <1>1, <1>3, <1>5
<1> HIDE DEF n
<1>6. \A a : IsObject(a)' => IsObject(a) /\ ~ (a[2] = k /\ a[3] = n)
  BY <1>4, <1>5 DEF IsObject
<1>7. Owners' \subseteq Owners /\ \A a \in Owners' : ~ (a[1] = "object" /\ a[2] = k /\ a[3] = n)
  BY <1>6, OwnersAre DEF Destroy, IsAcceptor, IsTask
<1>8. QED
  BY <1>1, <1>7, Closed DEF Destroy, n

\* The other steps hand no descriptor on.
LEMMA SameOwned ==
  ASSUME Owned, Owners' \subseteq Owners, socket' = socket
  PROVE  Owned'
  BY Fewer

LEMMA NextOwned == Inv /\ Owned /\ [Next]_vars => Owned'
<1> SUFFICES ASSUME Inv, Owned, [Next]_vars PROVE Owned'
  OBVIOUS
<1>1. CASE Accept
  BY <1>1, AcceptOwned DEF Inv
<1>2. ASSUME NEW s \in Scheds, Dispatch(s) \/ Start(s) PROVE Owned'
  BY <1>2, DispatchOwned, StartOwned DEF Inv
<1>3. ASSUME NEW k \in Clients, PeerGone(k) \/ ExplicitClose(k) \/ Destroy(k) PROVE Owned'
  BY <1>3, PeerGoneOwned, ExplicitCloseOwned, DestroyOwned DEF Inv
<1>4. ASSUME NEW k \in Clients, Connect(k) \/ Return(k) PROVE Owned'
  <2>1. UNCHANGED <<acceptor, socket, inbox, conns>>
    BY <1>4 DEF Connect, Return
  <2>2. QED
    BY <2>1, OwnersAre, SameOwned DEF IsAcceptor, IsTask, IsObject
<1>5. CASE Wake \/ AcceptNone \/ AcceptError
  <2>1. acceptor'.at # "dispatch" /\ UNCHANGED <<socket, inbox, conns>>
    BY <1>5 DEF Wake, AcceptNone, AcceptError, AcceptFails
  <2>2. QED
    BY <2>1, OwnersAre, SameOwned DEF IsAcceptor, IsTask, IsObject
<1>6. CASE UNCHANGED vars
  <2>1. UNCHANGED <<acceptor, socket, inbox, conns>>
    BY <1>6 DEF vars
  <2>2. QED
    BY <2>1, OwnersAre, SameOwned DEF IsAcceptor, IsTask, IsObject
<1>7. QED
  BY <1>1, <1>2, <1>3, <1>4, <1>5, <1>6 DEF Next, AcceptLoop, Serve

LEMMA AlwaysOwned == Spec => []Owned
<1>1. Inv /\ Owned /\ [Next]_vars => Owned'
  BY NextOwned
<1>2. QED
  BY <1>1, InitOwned, AlwaysInv, PTL DEF Spec

\* No descriptor number is used or closed by two parts of the program: what
\* accept_loop, its tasks and the Connection objects hand on, they let go of.
THEOREM OneOwnerAlways == Spec => []OneOwner
  BY AlwaysOwned, PTL DEF Owned

\* Whoever owns a number can use it for its own client: the number was not
\* closed and given to another one behind its back.
THEOREM OwnSocketAlways == Spec => []OwnSocket
  BY AlwaysOwned, PTL DEF Owned
=============================================================================
