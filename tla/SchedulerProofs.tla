-------------------------- MODULE SchedulerProofs --------------------------
(***************************************************************************)
(* Theorems about the Scheduler, for any number of coroutines,             *)
(* descriptors, posters and bytes in the pipe.                             *)
(*                                                                         *)
(* None of the safety properties is inductive.  Placed, below, is: it says *)
(* where the pointer of a coroutine is for each value of its state, and    *)
(* that waitFd names the wait_event frame of a waiting coroutine.          *)
(***************************************************************************)
EXTENDS Scheduler, SequenceTheorems, TLAPS

-----------------------------------------------------------------------------
(* Sequences as queues without repetition.                                 *)

\* push_back adds one element to what a queue holds.
LEMMA RangeAppend ==
  ASSUME NEW S, NEW s \in Seq(S), NEW e \in S
  PROVE  Range(Append(s, e)) = Range(s) \cup {e}
<1>1. Append(s, e) = s \o <<e>>
  BY AppendIsConcat
<1>2. <<e>> \in Seq(S) /\ Range(<<e>>) = {e}
  BY DEF Range
<1>3. Range(s \o <<e>>) = Range(s) \cup Range(<<e>>)
  BY <1>2, RangeConcatenation
<1>4. QED
  BY <1>1, <1>2, <1>3

\* push_back of something new keeps a queue free of repetitions.
LEMMA InjectiveAppend ==
  ASSUME NEW S, NEW s \in Seq(S), NEW e \in S, IsInjective(s), e \notin Range(s)
  PROVE  IsInjective(Append(s, e))
<1> DEFINE t == Append(s, e)
<1>1. /\ t \in Seq(S)
      /\ DOMAIN t = 1 .. Len(s) + 1
      /\ \A i \in 1 .. Len(s) : t[i] = s[i] /\ s[i] # e
      /\ t[Len(s) + 1] = e
      /\ DOMAIN s = 1 .. Len(s) /\ Len(s) \in Nat
  BY AppendProperties, LenProperties DEF Range
<1>2. \A i, j \in 1 .. Len(s) : s[i] = s[j] => i = j
  BY <1>1 DEF IsInjective
<1> HIDE DEF t
<1>3. SUFFICES ASSUME NEW i \in DOMAIN t, NEW j \in DOMAIN t, t[i] = t[j]
               PROVE  i = j
  BY DEF IsInjective, t
<1>4. CASE i = Len(s) + 1
  BY <1>1, <1>3, <1>4
<1>5. CASE j = Len(s) + 1
  BY <1>1, <1>3, <1>5
<1>6. CASE i \in 1 .. Len(s) /\ j \in 1 .. Len(s)
  BY <1>1, <1>2, <1>3, <1>6
<1>7. QED
  BY <1>1, <1>4, <1>5, <1>6

\* pop_front removes the front, and nothing else.
LEMMA TailOfInjective ==
  ASSUME NEW S, NEW s \in Seq(S), s # <<>>, IsInjective(s)
  PROVE  /\ Head(s) \in Range(s)
         /\ Range(Tail(s)) = Range(s) \ {Head(s)}
         /\ IsInjective(Tail(s))
<1> DEFINE t == Tail(s)
<1>1. /\ t \in Seq(S) /\ Len(s) \in Nat \ {0} /\ Len(t) = Len(s) - 1
      /\ DOMAIN s = 1 .. Len(s) /\ DOMAIN t = 1 .. Len(s) - 1
      /\ \A i \in 1 .. Len(s) - 1 : t[i] = s[i + 1]
      /\ Head(s) = s[1]
  BY HeadTailProperties, LenProperties, EmptySeq
<1>2. \A i, j \in 1 .. Len(s) : s[i] = s[j] => i = j
  BY <1>1 DEF IsInjective
<1> HIDE DEF t
<1>3. Head(s) \in Range(s)
  BY <1>1 DEF Range
<1>4. ASSUME NEW x \in Range(t) PROVE x \in Range(s) \ {Head(s)}
  <2>1. PICK i \in 1 .. Len(s) - 1 : x = t[i]
    BY <1>1 DEF Range
  <2>2. x = s[i + 1] /\ i + 1 \in 1 .. Len(s) /\ i + 1 # 1 /\ 1 \in 1 .. Len(s)
    BY <1>1, <2>1
  <2>3. QED
    BY <1>1, <1>2, <2>2 DEF Range
<1>5. ASSUME NEW x \in Range(s) \ {Head(s)} PROVE x \in Range(t)
  <2>1. PICK i \in 1 .. Len(s) : x = s[i]
    BY <1>1 DEF Range
  <2>2. i - 1 \in 1 .. Len(s) - 1 /\ (i - 1) + 1 = i
    BY <1>1, <2>1
  <2>3. x = t[i - 1]
    BY <1>1, <2>1, <2>2
  <2>4. QED
    BY <1>1, <2>2, <2>3 DEF Range
<1>6. \A i, j \in DOMAIN t : t[i] = t[j] => i = j
  BY <1>1, <1>2
<1>7. QED
  BY <1>3, <1>4, <1>5, <1>6 DEF IsInjective, t

\* Two queues without repetition and without a common element make a queue
\* without repetition.
LEMMA InjectiveConcat ==
  ASSUME NEW S, NEW s \in Seq(S), NEW t \in Seq(S), IsInjective(s), IsInjective(t),
         Range(s) \cap Range(t) = {}
  PROVE  IsInjective(s \o t)
<1> DEFINE u == s \o t
<1>1. /\ DOMAIN u = 1 .. Len(s) + Len(t)
      /\ \A i \in 1 .. Len(s) + Len(t) :
           u[i] = IF i <= Len(s) THEN s[i] ELSE t[i - Len(s)]
      /\ Len(s) \in Nat /\ Len(t) \in Nat
      /\ DOMAIN s = 1 .. Len(s) /\ DOMAIN t = 1 .. Len(t)
  BY ConcatProperties, LenProperties
<1>2. /\ \A i, j \in 1 .. Len(s) : s[i] = s[j] => i = j
      /\ \A i, j \in 1 .. Len(t) : t[i] = t[j] => i = j
  BY <1>1 DEF IsInjective
<1>3. \A i \in 1 .. Len(s), j \in 1 .. Len(t) : s[i] # t[j]
  BY <1>1 DEF Range
<1> HIDE DEF u
<1>4. SUFFICES ASSUME NEW i \in DOMAIN u, NEW j \in DOMAIN u, u[i] = u[j]
               PROVE  i = j
  BY DEF IsInjective, u
<1>5. CASE i <= Len(s) /\ j <= Len(s)
  BY <1>1, <1>2, <1>4, <1>5
<1>6. CASE i > Len(s) /\ j > Len(s)
  <2>1. /\ i - Len(s) \in 1 .. Len(t) /\ j - Len(s) \in 1 .. Len(t)
        /\ t[i - Len(s)] = t[j - Len(s)]
    BY <1>1, <1>4, <1>6
  <2>2. i - Len(s) = j - Len(s)
    BY <1>2, <2>1
  <2>3. QED
    BY <1>1, <2>2
<1>7. CASE i <= Len(s) /\ j > Len(s)
  BY <1>1, <1>3, <1>4, <1>7
<1>8. CASE i > Len(s) /\ j <= Len(s)
  BY <1>1, <1>3, <1>4, <1>8
<1>9. QED
  BY <1>1, <1>5, <1>6, <1>7, <1>8

-----------------------------------------------------------------------------
(* Type correctness.                                                       *)

LEMMA InitTypeOK == Init => TypeOK
<1> SUFFICES ASSUME Init PROVE TypeOK
  OBVIOUS
<1>1. ready \in Seq(Coros)
  <2>1. CASE ready = <<>>
    BY <2>1
  <2>2. CASE \E c \in Coros : ready = <<c>>
    BY <2>2
  <2>3. QED
    BY <2>1, <2>2 DEF Init
<1>2. postQueue \in Seq(Coros)
  BY DEF Init
<1>3. state \in [Coros -> {"none", "READY", "RUNNING", "WAITING", "freed"}]
  BY DEF Init
<1>4. QED
  BY <1>1, <1>2, <1>3, SchedulerAssumption DEF Init, TypeOK, Stages, Entry

\* One step per actor: the posting threads, the kernel, the coroutine that has
\* the thread, and the thread in run().
LEMMA NextTypeOK == TypeOK /\ [Next]_vars => TypeOK'
<1> SUFFICES ASSUME TypeOK, [Next]_vars PROVE TypeOK'
  OBVIOUS
<1> USE SchedulerAssumption
<1> USE DEF TypeOK, coroVars, queueVars, loopVars, epollVars, remoteVars
<1>1. ASSUME NEW p \in Posters, Poster(p) PROVE TypeOK'
  <2>1. CASE WriteByte(p)
    BY <2>1 DEF WriteByte, WriteAs
  <2>2. ASSUME NEW c \in Coros, PushTask(p, c) PROVE TypeOK'
    <3>1. postQueue' \in Seq(Coros)
      BY <2>2, AppendProperties DEF PushTask
    <3>2. poster' \in [Posters -> {"idle", "write"}]
      BY <2>2 DEF PushTask
    <3>3. QED
      BY <2>2, <3>1, <3>2 DEF PushTask
  <2>3. QED
    BY <1>1, <2>1, <2>2 DEF Poster
<1>2. CASE Kernel
  <2>1. CASE Tick
    BY <2>1 DEF Tick
  <2>2. ASSUME NEW fd \in Fds, NEW ev \in Events, PeerActivity(fd, ev)
        PROVE  TypeOK'
    <3>1. level' \in [Fds -> SUBSET Events]
      <4>1. level[fd] \cup {ev} \in SUBSET Events
        OBVIOUS
      <4>2. QED
        BY <2>2, <4>1 DEF PeerActivity
    <3>2. QED
      BY <2>2, <3>1 DEF PeerActivity
  <2>3. QED
    BY <1>2, <2>1, <2>2 DEF Kernel
<1>3. ASSUME NEW c \in Coros, Coroutine(c) PROVE TypeOK'
  <2>1. ASSUME NEW fd \in Fds, NEW ev \in Events, WaitEvent(c, fd, ev)
        PROVE  TypeOK'
    <3>1. /\ registered' \subseteq Fds /\ mask' \in [Fds -> SUBSET Events]
          /\ refused' \subseteq Fds /\ cut' \subseteq Fds
      <4>1. {ev} \in SUBSET Events
        OBVIOUS
      <4>2. Register(fd, ev)
        BY <2>1 DEF WaitEvent
      <4>3. CASE Arm(fd, ev)
        BY <4>1, <4>3 DEF Arm
      <4>4. CASE refused' \in {refused, refused \cup {fd}} /\ UNCHANGED <<registered, mask, cut>>
        BY <4>4
      <4>5. QED
        BY <4>2, <4>3, <4>4 DEF Register
    <3>2. /\ state' \in [Coros -> {"none", "READY", "RUNNING", "WAITING", "freed"}]
          /\ waitFd' \in [Coros -> Fds \cup {None}]
          /\ waitingMap' \in [Fds -> Coros \cup {None}]
          /\ replaced' \subseteq Coros
      BY <2>1 DEF WaitEvent, SwitchBack
    <3>3. QED
      BY <2>1, <3>1, <3>2 DEF WaitEvent, Stages, SwitchBack
  <2>2. ASSUME NEW ms \in 1 .. MaxTime, Sleep(c, ms) PROVE TypeOK'
    <3>1. [co |-> c, expire |-> now + ms] \in Entry
      BY <2>2 DEF Sleep, Entry, PushTimer, SwitchBack
    <3>2. timers' \subseteq Entry
      BY <2>2, <3>1 DEF Sleep, PushTimer, SwitchBack
    <3>3. QED
      BY <2>2, <3>2 DEF Sleep, Stages, PushTimer, SwitchBack
  <2>3. CASE Finish(c)
    BY <2>3 DEF Finish, Stages, SwitchBack
  <2>4. CASE Yield(c)
    <3>1. ready' \in Seq(Coros)
      BY <2>4, AppendProperties DEF Yield, SwitchBack
    <3>2. QED
      BY <2>4, <3>1 DEF Yield, Stages, SwitchBack
  <2>5. ASSUME NEW d \in Coros, Spawn(c, d) PROVE TypeOK'
    <3>1. ready' \in Seq(Coros)
      BY <2>5, AppendProperties DEF Spawn
    <3>2. QED
      BY <2>5, <3>1 DEF Spawn
  <2>6. ASSUME NEW fd \in Fds, NEW ev \in Events, Consume(c, fd, ev)
        PROVE  TypeOK'
    BY <2>6 DEF Consume
  <2>7. QED
    BY <1>3, <2>1, <2>2, <2>3, <2>4, <2>5, <2>6 DEF Coroutine, Leave
<1>4. CASE Run
  <2>1. CASE Resume
    <3>1. Head(ready) \in Coros /\ ready' \in Seq(Coros)
      BY <2>1, HeadTailProperties DEF Resume
    <3>2. QED
      BY <2>1, <3>1 DEF Resume, Stages
  <2>2. CASE ReadyEmpty
    BY <2>2 DEF ReadyEmpty, Stages, GoFire
  <2>3. CASE FireTimer
    <3>1. PICK e \in timers :
            /\ timers' = timers \ {e}
            /\ state' = [state EXCEPT ![e.co] = "READY"]
            /\ ready' = Append(ready, e.co)
      BY <2>3 DEF FireTimer, FireFrom, Front
    <3>2. e.co \in Coros
      BY DEF Entry
    <3>3. ready' \in Seq(Coros)
      BY <3>1, <3>2, AppendProperties
    <3>4. QED
      BY <2>3, <3>1, <3>2, <3>3 DEF FireTimer, FireFrom, Front
  <2>4. CASE FireDone
    <3>1. wake' \in Nat
      <4>1. ASSUME NEW t \in -(MaxInt + 1) .. MaxInt PROVE now + Wait(t) \in Nat
        BY DEF Wait
      <4>2. QED
        BY <2>4, <4>1 DEF FireDone
    <3>2. QED
      BY <2>4, <3>1 DEF FireDone, Stages
  <2>5. CASE PollEvents
    <3>1. batch' \subseteq Fds \cup {PipeFd}
      BY <2>5 DEF PollEvents, Reportable
    <3>2. QED
      BY <2>5, <3>1 DEF PollEvents, Stages
  <2>6. CASE PollTimeout
    BY <2>6 DEF PollTimeout, Stages, GoFire
  <2>7. ASSUME NEW fd \in Fds, HandleFd(fd) PROVE TypeOK'
    <3>1. CASE waitingMap[fd] = None
      BY <2>7, <3>1 DEF HandleFd, WakeWaiter
    <3>2. CASE waitingMap[fd] # None
      <4>1. waitingMap[fd] \in Coros
        BY <3>2
      <4>2. ready' = Append(ready, waitingMap[fd])
        BY <2>7, <3>2 DEF HandleFd, WakeWaiter
      <4>3. ready' \in Seq(Coros)
        BY <4>1, <4>2, AppendProperties
      <4>4. QED
        BY <2>7, <3>2, <4>1, <4>3 DEF HandleFd, WakeWaiter
    <3>3. QED
      BY <3>1, <3>2
  <2>8. CASE ReadPipe
    BY <2>8 DEF ReadPipe, Stages
  <2>9. CASE DrainPostQueue
    <3>1. ready' \in Seq(Coros)
      BY <2>9, ConcatProperties DEF DrainPostQueue, DrainAs
    <3>2. postQueue' \in Seq(Coros)
      BY <2>9 DEF DrainPostQueue, DrainAs
    <3>3. QED
      BY <2>9, <3>1, <3>2 DEF DrainPostQueue, Stages, DrainAs
  <2>10. CASE EventsDone
    BY <2>10 DEF EventsDone, Stages, GoFire
  <2>11. QED
    BY <1>4, <2>1, <2>2, <2>3, <2>4, <2>5, <2>6, <2>7, <2>8, <2>9, <2>10 DEF Run
<1>5. CASE PollInterrupted \/ PollError
  BY <1>5 DEF PollInterrupted, PollError, Stages, PollFails
<1>6. CASE Destroy
  <2>1. state' \in [Coros -> {"none", "READY", "RUNNING", "WAITING", "freed"}]
    BY <1>6 DEF Destroy
  <2>2. waitFd' \in [Coros -> Fds \cup {None}]
    BY <1>6 DEF Destroy
  <2>3. ready' \in Seq(Coros) /\ postQueue' \in Seq(Coros) /\ pipe' \in 0 .. PipeCap
    BY <1>6 DEF Destroy
  <2>4. QED
    BY <1>6, <2>1, <2>2, <2>3 DEF Destroy, Stages
<1>7. CASE UNCHANGED vars
  BY <1>7 DEF vars
<1>8. QED
  BY <1>1, <1>2, <1>3, <1>4, <1>5, <1>6, <1>7 DEF Next

\* Every variable keeps its type, in particular the pipe its capacity and
\* the queues their elements.
THEOREM TypeCorrect == Spec => []TypeOK
  BY InitTypeOK, NextTypeOK, PTL DEF Spec

-----------------------------------------------------------------------------
(* Where the pointer of a coroutine is.                                    *)

\* In the ready queue, once, exactly while READY.
Queued ==
  /\ IsInjective(ready)
  /\ \A c \in Coros : c \in Range(ready) <=> state[c] = "READY"

\* In running_coro exactly while RUNNING, which is while run() is in its call
\* of swapcontext.
OnThread ==
  /\ \A c \in Coros : running = c <=> state[c] = "RUNNING"
  /\ running # None <=> loop = "running"

\* Behind an fd only if suspended in wait_event for that fd.
AwaitingFd ==
  \A fd \in Fds : waitingMap[fd] # None =>
    state[waitingMap[fd]] = "WAITING" /\ waitFd[waitingMap[fd]] = fd

\* In the heap, once, only if suspended in sleep.
Sleeping ==
  /\ \A e \in timers : state[e.co] = "WAITING" /\ waitFd[e.co] = None
  /\ \A e, f \in timers : e.co = f.co => e = f

\* A posted closure is no coroutine yet.
Posted ==
  /\ IsInjective(postQueue)
  /\ \A c \in Range(postQueue) : state[c] = "none"

\* A wait_event frame belongs to a coroutine that has not been resumed since.
InFrame ==
  \A c \in Coros : waitFd[c] # None =>
    state[c] \in {"WAITING", "READY"} /\ waitFd[c] \in Access[c]

Placed ==
  /\ Queued
  /\ OnThread
  /\ AwaitingFd
  /\ Sleeping
  /\ Posted
  /\ InFrame

\* evs[] has entries only while run() handles them, and who waits is armed.
Armed ==
  /\ batch # {} => loop \in {"events", "drain"}
  /\ WaiterIsArmed

\* What suspends is held by the structure its frame names, until another one
\* takes its place there.
Held ==
  \A c \in Coros \ replaced : state[c] = "WAITING" =>
    IF waitFd[c] = None THEN \E e \in timers : e.co = c
                        ELSE waitingMap[waitFd[c]] = c

\* No coroutine loses its map entry or its registration to another one.
Undisturbed == replaced = {} /\ cut = {}

-----------------------------------------------------------------------------
(* Placed is inductive.                                                    *)

LEMMA InitPlaced == Init => Placed
<1> SUFFICES ASSUME Init PROVE Placed
  OBVIOUS
<1>1. \A c \in Coros : state[c] \in {"READY", "none"} /\ waitFd[c] = None
  BY DEF Init
<1>2. IsInjective(ready)
  BY DEF Init, IsInjective
<1>3. Queued
  BY <1>2 DEF Init, Queued
<1>4. Posted
  BY DEF Init, Posted, IsInjective, Range
<1>5. OnThread
  BY <1>1, SchedulerAssumption DEF Init, OnThread
<1>6. AwaitingFd /\ Sleeping /\ InFrame
  BY <1>1 DEF Init, AwaitingFd, Sleeping, InFrame
<1>7. QED
  BY <1>3, <1>4, <1>5, <1>6 DEF Placed

\* Whoever wakes or creates a coroutine does the same two things.
LEMMA MakeReady ==
  ASSUME TypeOK, Queued, NEW c \in Coros, state[c] # "READY",
         state' = [state EXCEPT ![c] = "READY"], ready' = Append(ready, c)
  PROVE  Queued'
<1>1. ready \in Seq(Coros) /\ IsInjective(ready) /\ c \notin Range(ready)
  BY DEF TypeOK, Queued
<1>2. IsInjective(ready') /\ Range(ready') = Range(ready) \cup {c}
  BY <1>1, RangeAppend, InjectiveAppend
<1>3. \A d \in Coros : state'[d] = IF d = c THEN "READY" ELSE state[d]
  BY DEF TypeOK
<1>4. QED
  BY <1>2, <1>3 DEF Queued

\* Nothing that Placed speaks of changes.
LEMMA StutterPlaced ==
  ASSUME Placed, UNCHANGED <<state, waitFd, ready, running, waitingMap, timers,
                             loop, postQueue>>
  PROVE  Placed'
  BY DEF Placed, Queued, OnThread, AwaitingFd, Sleeping, Posted, InFrame

\* The thread in run() goes from one stage to another.
LEMMA StagePlaced ==
  ASSUME Placed, loop # "running", loop' # "running",
         UNCHANGED <<state, waitFd, ready, running, waitingMap, timers, postQueue>>
  PROVE  Placed'
  BY DEF Placed, Queued, OnThread, AwaitingFd, Sleeping, Posted, InFrame

\* post(): the closure is new.
LEMMA PushTaskPlaced ==
  ASSUME TypeOK, Placed, NEW p \in Posters, NEW c \in Coros, PushTask(p, c)
  PROVE  Placed'
<1>1. UNCHANGED <<state, waitFd, ready, running, waitingMap, timers, loop>>
  BY DEF PushTask, coroVars, queueVars, loopVars
<1>2. /\ postQueue \in Seq(Coros) /\ IsInjective(postQueue)
      /\ state[c] = "none" /\ c \notin Range(postQueue)
      /\ postQueue' = Append(postQueue, c)
  BY DEF PushTask, Fresh, TypeOK, Placed, Posted
<1>3. /\ IsInjective(postQueue')
      /\ Range(postQueue') = Range(postQueue) \cup {c}
  BY <1>2, RangeAppend, InjectiveAppend
<1>4. Posted'
  BY <1>1, <1>2, <1>3 DEF Placed, Posted
<1>5. QED
  BY <1>1, <1>4 DEF Placed, Queued, OnThread, AwaitingFd, Sleeping, InFrame

\* create() from a coroutine: the new one is nowhere yet.
LEMMA SpawnPlaced ==
  ASSUME TypeOK, Placed, NEW c \in Coros, NEW d \in Coros, Spawn(c, d)
  PROVE  Placed'
<1>1. /\ UNCHANGED <<waitFd, running, waitingMap, timers, loop, postQueue>>
      /\ state' = [state EXCEPT ![d] = "READY"] /\ ready' = Append(ready, d)
      /\ state[d] = "none" /\ d \notin Range(postQueue)
  BY DEF Spawn, Fresh, loopVars, remoteVars
<1>2. \A x \in Coros : state'[x] = IF x = d THEN "READY" ELSE state[x]
  BY <1>1 DEF TypeOK
<1>3. Queued'
  BY <1>1, MakeReady DEF Placed
<1>4. OnThread'
  BY <1>1, <1>2 DEF Placed, OnThread
<1>5. AwaitingFd' /\ InFrame'
  BY <1>1, <1>2 DEF Placed, AwaitingFd, InFrame, TypeOK
<1>6. Sleeping'
  BY <1>1, <1>2 DEF Placed, Sleeping, TypeOK, Entry
<1>7. Posted'
  <2>1. \A x \in Range(postQueue) : x \in Coros
    BY RangeOfSeq DEF TypeOK
  <2>2. QED
    BY <1>1, <1>2, <2>1 DEF Placed, Posted
<1>8. QED
  BY <1>3, <1>4, <1>5, <1>6, <1>7 DEF Placed

\* yield(): from running_coro to the back of the ready queue.
LEMMA YieldPlaced ==
  ASSUME TypeOK, Placed, NEW c \in Coros, Yield(c)
  PROVE  Placed'
<1>1. /\ UNCHANGED <<waitFd, waitingMap, timers, postQueue>>
      /\ state' = [state EXCEPT ![c] = "READY"] /\ ready' = Append(ready, c)
      /\ running = c /\ running' = None /\ loop' = "dispatch"
  BY DEF Yield, remoteVars, SwitchBack
<1>2. \A x \in Coros : state'[x] = IF x = c THEN "READY" ELSE state[x]
  BY <1>1 DEF TypeOK
<1>3. state[c] = "RUNNING"
  BY <1>1 DEF Placed, OnThread
<1>4. Queued'
  BY <1>1, <1>3, MakeReady DEF Placed
<1>5. OnThread'
  BY <1>1, <1>2, SchedulerAssumption DEF Placed, OnThread
<1>6. AwaitingFd' /\ InFrame'
  BY <1>1, <1>2, <1>3 DEF Placed, AwaitingFd, InFrame, TypeOK
<1>7. Sleeping'
  BY <1>1, <1>2, <1>3 DEF Placed, Sleeping, TypeOK, Entry
<1>8. Posted'
  <2>1. \A x \in Range(postQueue) : x \in Coros
    BY RangeOfSeq DEF TypeOK
  <2>2. QED
    BY <1>1, <1>2, <1>3, <2>1 DEF Placed, Posted
<1>9. QED
  BY <1>4, <1>5, <1>6, <1>7, <1>8 DEF Placed

\* wait_event: whoever waited for fd before loses its map entry, and its
\* frame stays.
LEMMA WaitEventPlaced ==
  ASSUME TypeOK, Placed, NEW c \in Coros, NEW fd \in Fds, NEW ev \in Events,
         WaitEvent(c, fd, ev)
  PROVE  Placed'
<1>1. /\ UNCHANGED <<ready, timers, postQueue>>
      /\ state' = [state EXCEPT ![c] = "WAITING"]
      /\ waitFd' = [waitFd EXCEPT ![c] = fd]
      /\ waitingMap' = [waitingMap EXCEPT ![fd] = c]
      /\ running = c /\ running' = None /\ loop' = "dispatch"
      /\ fd \in Access[c]
  BY DEF WaitEvent, remoteVars, SwitchBack
<1>2. \A x \in Coros : /\ state'[x] = IF x = c THEN "WAITING" ELSE state[x]
                       /\ waitFd'[x] = IF x = c THEN fd ELSE waitFd[x]
  BY <1>1 DEF TypeOK
<1>3. \A gd \in Fds : waitingMap'[gd] = IF gd = fd THEN c ELSE waitingMap[gd]
  BY <1>1 DEF TypeOK
<1>4. state[c] = "RUNNING"
  BY <1>1 DEF Placed, OnThread
<1>5. Queued'
  BY <1>1, <1>2, <1>4 DEF Placed, Queued
<1>6. OnThread'
  BY <1>1, <1>2, SchedulerAssumption DEF Placed, OnThread
<1>7. AwaitingFd'
  <2> SUFFICES ASSUME NEW gd \in Fds, waitingMap'[gd] # None
               PROVE  state'[waitingMap'[gd]] = "WAITING" /\ waitFd'[waitingMap'[gd]] = gd
    BY DEF AwaitingFd
  <2>1. CASE gd = fd
    BY <1>2, <1>3, <2>1
  <2>2. CASE gd # fd
    <3>1. /\ waitingMap'[gd] = waitingMap[gd] /\ waitingMap[gd] \in Coros
          /\ state[waitingMap[gd]] = "WAITING" /\ waitFd[waitingMap[gd]] = gd
      BY <1>3, <2>2 DEF Placed, AwaitingFd, TypeOK
    <3>2. QED
      BY <1>2, <1>4, <3>1
  <2>3. QED
    BY <2>1, <2>2
<1>8. InFrame'
  BY <1>1, <1>2 DEF Placed, InFrame
<1>9. Sleeping'
  BY <1>1, <1>2, <1>4 DEF Placed, Sleeping, TypeOK, Entry
<1>10. Posted'
  <2>1. \A x \in Range(postQueue) : x \in Coros
    BY RangeOfSeq DEF TypeOK
  <2>2. QED
    BY <1>1, <1>2, <1>4, <2>1 DEF Placed, Posted
<1>11. QED
  BY <1>5, <1>6, <1>7, <1>8, <1>9, <1>10 DEF Placed

\* sleep: the running coroutine is in no other structure.
LEMMA SleepPlaced ==
  ASSUME TypeOK, Placed, NEW c \in Coros, NEW ms \in 1 .. MaxTime, Sleep(c, ms)
  PROVE  Placed'
<1> DEFINE new == [co |-> c, expire |-> now + ms]
<1>1. /\ UNCHANGED <<waitFd, ready, waitingMap, postQueue>>
      /\ state' = [state EXCEPT ![c] = "WAITING"]
      /\ timers' = timers \cup {new}
      /\ running = c /\ running' = None /\ loop' = "dispatch"
  BY DEF Sleep, remoteVars, PushTimer, SwitchBack
<1>2. \A x \in Coros : state'[x] = IF x = c THEN "WAITING" ELSE state[x]
  BY <1>1 DEF TypeOK
<1>3. state[c] = "RUNNING"
  BY <1>1 DEF Placed, OnThread
<1>4. waitFd[c] = None
  BY <1>3 DEF Placed, InFrame
<1>5. Queued'
  BY <1>1, <1>2, <1>3 DEF Placed, Queued
<1>6. OnThread'
  BY <1>1, <1>2, SchedulerAssumption DEF Placed, OnThread
<1>7. AwaitingFd' /\ InFrame'
  BY <1>1, <1>2, <1>3 DEF Placed, AwaitingFd, InFrame, TypeOK
<1>8. Sleeping'
  <2>1. \A e \in timers : e.co \in Coros /\ state[e.co] = "WAITING" /\ waitFd[e.co] = None
    BY DEF Placed, Sleeping, TypeOK, Entry
  <2>2. new.co = c /\ \A e \in timers : e.co # c
    BY <1>3, <2>1
  <2>3. \A e \in timers' : state'[e.co] = "WAITING" /\ waitFd'[e.co] = None
    BY <1>1, <1>2, <1>4, <2>1, <2>2
  <2>4. \A e, f \in timers' : e.co = f.co => e = f
    BY <1>1, <2>2 DEF Placed, Sleeping
  <2>5. QED
    BY <2>3, <2>4 DEF Sleeping
<1>9. Posted'
  <2>1. \A x \in Range(postQueue) : x \in Coros
    BY RangeOfSeq DEF TypeOK
  <2>2. QED
    BY <1>1, <1>2, <1>3, <2>1 DEF Placed, Posted
<1>10. QED
  BY <1>5, <1>6, <1>7, <1>8, <1>9 DEF Placed

\* The delete in run(): nothing else holds the pointer.
LEMMA FinishPlaced ==
  ASSUME TypeOK, Placed, NEW c \in Coros, Finish(c)
  PROVE  Placed'
<1>1. /\ UNCHANGED <<waitFd, ready, waitingMap, timers, postQueue>>
      /\ state' = [state EXCEPT ![c] = "freed"]
      /\ running = c /\ running' = None /\ loop' = "dispatch"
  BY DEF Finish, remoteVars, SwitchBack
<1>2. \A x \in Coros : state'[x] = IF x = c THEN "freed" ELSE state[x]
  BY <1>1 DEF TypeOK
<1>3. state[c] = "RUNNING"
  BY <1>1 DEF Placed, OnThread
<1>4. Queued'
  BY <1>1, <1>2, <1>3 DEF Placed, Queued
<1>5. OnThread'
  BY <1>1, <1>2, SchedulerAssumption DEF Placed, OnThread
<1>6. AwaitingFd' /\ InFrame'
  BY <1>1, <1>2, <1>3 DEF Placed, AwaitingFd, InFrame, TypeOK
<1>7. Sleeping'
  BY <1>1, <1>2, <1>3 DEF Placed, Sleeping, TypeOK, Entry
<1>8. Posted'
  <2>1. \A x \in Range(postQueue) : x \in Coros
    BY RangeOfSeq DEF TypeOK
  <2>2. QED
    BY <1>1, <1>2, <1>3, <2>1 DEF Placed, Posted
<1>9. QED
  BY <1>4, <1>5, <1>6, <1>7, <1>8 DEF Placed

\* The front of the ready queue gets the thread and leaves its frame.
LEMMA ResumePlaced ==
  ASSUME TypeOK, Placed, Resume
  PROVE  Placed'
<1> DEFINE c == Head(ready)
<1>1. /\ UNCHANGED <<waitingMap, timers, postQueue>>
      /\ loop = "dispatch" /\ loop' = "running"
      /\ ready # <<>> /\ ready' = Tail(ready) /\ running' = c
      /\ state' = [state EXCEPT ![c] = "RUNNING"]
      /\ waitFd' = [waitFd EXCEPT ![c] = None]
  BY DEF Resume, remoteVars
<1>2. /\ c \in Coros /\ c \in Range(ready)
      /\ IsInjective(ready') /\ Range(ready') = Range(ready) \ {c}
  BY <1>1, TailOfInjective, HeadTailProperties DEF Placed, Queued, TypeOK
<1>3. state[c] = "READY"
  BY <1>2 DEF Placed, Queued
<1> HIDE DEF c
<1>4. \A x \in Coros : /\ state'[x] = IF x = c THEN "RUNNING" ELSE state[x]
                       /\ waitFd'[x] = IF x = c THEN None ELSE waitFd[x]
  BY <1>1 DEF TypeOK
<1>5. Queued'
  BY <1>2, <1>4 DEF Placed, Queued
<1>6. OnThread'
  BY <1>1, <1>2, <1>4, SchedulerAssumption DEF Placed, OnThread
<1>7. AwaitingFd' /\ InFrame'
  BY <1>1, <1>3, <1>4 DEF Placed, AwaitingFd, InFrame, TypeOK
<1>8. Sleeping'
  BY <1>1, <1>3, <1>4 DEF Placed, Sleeping, TypeOK, Entry
<1>9. Posted'
  <2>1. \A x \in Range(postQueue) : x \in Coros
    BY RangeOfSeq DEF TypeOK
  <2>2. QED
    BY <1>1, <1>3, <1>4, <2>1 DEF Placed, Posted
<1>10. QED
  BY <1>5, <1>6, <1>7, <1>8, <1>9 DEF Placed

\* A due entry leaves the heap and its coroutine enters the ready queue.
LEMMA FireTimerPlaced ==
  ASSUME TypeOK, Placed, FireTimer
  PROVE  Placed'
<1>1. PICK e \in timers : /\ timers' = timers \ {e}
                          /\ state' = [state EXCEPT ![e.co] = "READY"]
                          /\ ready' = Append(ready, e.co)
  BY DEF FireTimer, FireFrom, Front
<1>2. /\ UNCHANGED <<waitFd, running, waitingMap, loop, postQueue>>
      /\ loop # "running"
  BY DEF FireTimer, loopVars, remoteVars, FireFrom, Front
<1>3. e.co \in Coros /\ state[e.co] = "WAITING" /\ waitFd[e.co] = None
  BY DEF TypeOK, Entry, Placed, Sleeping
<1>4. \A x \in Coros : state'[x] = IF x = e.co THEN "READY" ELSE state[x]
  BY <1>1 DEF TypeOK
<1>5. Queued'
  BY <1>1, <1>3, MakeReady DEF Placed
<1>6. OnThread'
  BY <1>2, <1>3, <1>4 DEF Placed, OnThread
<1>7. AwaitingFd'
  <2> SUFFICES ASSUME NEW fd \in Fds, waitingMap'[fd] # None
               PROVE  /\ state'[waitingMap'[fd]] = "WAITING"
                      /\ waitFd'[waitingMap'[fd]] = fd
    BY DEF AwaitingFd
  <2>1. /\ waitingMap[fd] \in Coros /\ waitingMap'[fd] = waitingMap[fd]
        /\ state[waitingMap[fd]] = "WAITING" /\ waitFd[waitingMap[fd]] = fd
    BY <1>2 DEF Placed, AwaitingFd, TypeOK
  <2>2. waitingMap[fd] # e.co
    BY <1>3, <2>1, SchedulerAssumption
  <2>3. QED
    BY <1>2, <1>4, <2>1, <2>2
<1>8. InFrame'
  BY <1>2, <1>3, <1>4 DEF Placed, InFrame
<1>9. Sleeping'
  BY <1>1, <1>2, <1>3, <1>4 DEF Placed, Sleeping, TypeOK, Entry
<1>10. Posted'
  <2>1. \A x \in Range(postQueue) : x \in Coros
    BY RangeOfSeq DEF TypeOK
  <2>2. QED
    BY <1>2, <1>3, <1>4, <2>1 DEF Placed, Posted
<1>11. QED
  BY <1>5, <1>6, <1>7, <1>8, <1>9, <1>10 DEF Placed

\* A report for a descriptor that is waited for erases the map entry and
\* wakes the coroutine it held.
LEMMA HandleFdPlaced ==
  ASSUME TypeOK, Placed, NEW fd \in Fds, HandleFd(fd)
  PROVE  Placed'
<1> DEFINE c == waitingMap[fd]
<1>1. CASE c = None
  <2>1. waitingMap' = waitingMap
    BY <1>1 DEF HandleFd, WakeWaiter, TypeOK
  <2>2. QED
    BY <1>1, <2>1, StutterPlaced DEF HandleFd, remoteVars, WakeWaiter
<1>2. CASE c # None
  <2>1. /\ UNCHANGED <<waitFd, running, timers, loop, postQueue>>
        /\ waitingMap' = [waitingMap EXCEPT ![fd] = None]
        /\ state' = [state EXCEPT ![c] = "READY"] /\ ready' = Append(ready, c)
    BY <1>2 DEF HandleFd, remoteVars, WakeWaiter
  <2>2. c \in Coros /\ state[c] = "WAITING" /\ waitFd[c] = fd
    BY <1>2 DEF TypeOK, Placed, AwaitingFd
  <2> HIDE DEF c
  <2>3. \A x \in Coros : state'[x] = IF x = c THEN "READY" ELSE state[x]
    BY <2>1 DEF TypeOK
  <2>4. Queued'
    BY <2>1, <2>2, MakeReady DEF Placed
  <2>5. OnThread'
    BY <2>1, <2>2, <2>3 DEF Placed, OnThread
  <2>6. AwaitingFd'
    <3> SUFFICES ASSUME NEW gd \in Fds, waitingMap'[gd] # None
                 PROVE  /\ state'[waitingMap'[gd]] = "WAITING"
                        /\ waitFd'[waitingMap'[gd]] = gd
      BY DEF AwaitingFd
    <3>1. gd # fd /\ waitingMap'[gd] = waitingMap[gd]
      BY <2>1 DEF TypeOK
    <3>2. /\ waitingMap[gd] \in Coros
          /\ state[waitingMap[gd]] = "WAITING" /\ waitFd[waitingMap[gd]] = gd
      BY <3>1 DEF Placed, AwaitingFd, TypeOK
    <3>3. QED
      BY <2>1, <2>2, <2>3, <3>1, <3>2
  <2>7. InFrame'
    BY <2>1, <2>2, <2>3 DEF Placed, InFrame
  <2>8. Sleeping'
    <3>1. \A e \in timers : e.co \in Coros /\ e.co # c
      BY <2>2, SchedulerAssumption DEF TypeOK, Entry, Placed, Sleeping
    <3>2. QED
      BY <2>1, <2>3, <3>1 DEF Placed, Sleeping
  <2>9. Posted'
    <3>1. \A x \in Range(postQueue) : x \in Coros
      BY RangeOfSeq DEF TypeOK
    <3>2. QED
      BY <2>1, <2>2, <2>3, <3>1 DEF Placed, Posted
  <2>10. QED
    BY <2>4, <2>5, <2>6, <2>7, <2>8, <2>9 DEF Placed
<1>3. QED
  BY <1>1, <1>2

\* The swap and the create() calls: the tasks join the ready queue in order.
LEMMA DrainPlaced ==
  ASSUME TypeOK, Placed, DrainPostQueue
  PROVE  Placed'
<1>1. /\ UNCHANGED <<waitFd, running, waitingMap, timers>>
      /\ ready' = ready \o postQueue /\ postQueue' = <<>>
      /\ loop = "drain" /\ loop' = "events"
      /\ \A c \in Coros :
           state'[c] = IF c \in Range(postQueue) THEN "READY" ELSE state[c]
  BY DEF DrainPostQueue, DrainAs
<1>2. /\ ready \in Seq(Coros) /\ postQueue \in Seq(Coros)
      /\ Range(postQueue) \subseteq Coros
  BY RangeOfSeq DEF TypeOK
<1>3. /\ IsInjective(ready) /\ IsInjective(postQueue)
      /\ \A c \in Range(postQueue) : state[c] = "none" /\ c \notin Range(ready)
  BY <1>2 DEF Placed, Queued, Posted
<1>4. IsInjective(ready') /\ Range(ready') = Range(ready) \cup Range(postQueue)
  BY <1>1, <1>2, <1>3, InjectiveConcat, RangeConcatenation
<1>5. Queued'
  BY <1>1, <1>4 DEF Placed, Queued
<1>6. OnThread'
  BY <1>1, <1>3 DEF Placed, OnThread
<1>7. AwaitingFd'
  BY <1>1, <1>3 DEF Placed, AwaitingFd, TypeOK
<1>8. InFrame'
  BY <1>1, <1>3 DEF Placed, InFrame
<1>9. Sleeping'
  BY <1>1, <1>3 DEF Placed, Sleeping, TypeOK, Entry
<1>10. Posted'
  BY <1>1 DEF Posted, IsInjective, Range
<1>11. QED
  BY <1>5, <1>6, <1>7, <1>8, <1>9, <1>10 DEF Placed

\* ~Scheduler: the ready queue holds all that is READY, and nothing runs.
LEMMA DestroyPlaced ==
  ASSUME TypeOK, Placed, Destroy
  PROVE  Placed'
<1>1. /\ loop = "stopped" /\ loop' = "destroyed" /\ UNCHANGED running
      /\ ready' = <<>> /\ timers' = {} /\ postQueue' = <<>>
      /\ waitingMap' = [fd \in Fds |-> None]
      /\ \A c \in Coros :
           /\ state'[c] = IF c \in Deleted THEN "freed" ELSE state[c]
           /\ waitFd'[c] = IF c \in Deleted THEN None ELSE waitFd[c]
  BY DEF Destroy
<1>2. Range(ready) \subseteq Deleted
  BY DEF Deleted, DeletedButTimers
<1>3. running = None /\ \A c \in Coros : state[c] # "RUNNING" /\ c # None
  BY <1>1, SchedulerAssumption DEF Placed, OnThread
<1>4. Queued'
  BY <1>1, <1>2 DEF Placed, Queued, IsInjective, Range
<1>5. OnThread'
  BY <1>1, <1>3 DEF OnThread
<1>6. AwaitingFd' /\ Sleeping'
  BY <1>1 DEF AwaitingFd, Sleeping
<1>7. InFrame'
  BY <1>1 DEF Placed, InFrame
<1>8. Posted'
  BY <1>1 DEF Posted, IsInjective, Range
<1>9. QED
  BY <1>4, <1>5, <1>6, <1>7, <1>8 DEF Placed

LEMMA NextPlaced == TypeOK /\ Placed /\ [Next]_vars => Placed'
<1> SUFFICES ASSUME TypeOK, Placed, [Next]_vars PROVE Placed'
  OBVIOUS
<1> USE DEF coroVars, queueVars, loopVars, remoteVars
<1>1. ASSUME NEW p \in Posters, Poster(p) PROVE Placed'
  <2>1. CASE WriteByte(p)
    BY <2>1, StutterPlaced DEF WriteByte, WriteAs
  <2>2. QED
    BY <1>1, <2>1, PushTaskPlaced DEF Poster
<1>2. CASE Kernel
  BY <1>2, StutterPlaced DEF Kernel, Tick, PeerActivity
<1>3. ASSUME NEW c \in Coros, Coroutine(c) PROVE Placed'
  <2>1. ASSUME NEW fd \in Fds, NEW ev \in Events, Consume(c, fd, ev) PROVE Placed'
    BY <2>1, StutterPlaced DEF Consume
  <2>2. CASE Leave(c)
    BY <2>2, WaitEventPlaced, SleepPlaced, FinishPlaced DEF Leave
  <2>3. QED
    BY <1>3, <2>1, <2>2, YieldPlaced, SpawnPlaced DEF Coroutine
<1>4. CASE Run
  <2>1. CASE ReadyEmpty
    BY <2>1, StagePlaced DEF ReadyEmpty, GoFire
  <2>2. CASE FireDone
    BY <2>2, StagePlaced DEF FireDone
  <2>3. CASE PollEvents
    BY <2>3, StagePlaced DEF PollEvents
  <2>4. CASE PollTimeout
    BY <2>4, StagePlaced DEF PollTimeout, GoFire
  <2>5. CASE ReadPipe
    BY <2>5, StagePlaced DEF ReadPipe
  <2>6. CASE EventsDone
    BY <2>6, StagePlaced DEF EventsDone, GoFire
  <2>7. QED
    BY <1>4, <2>1, <2>2, <2>3, <2>4, <2>5, <2>6, ResumePlaced, FireTimerPlaced,
       HandleFdPlaced, DrainPlaced DEF Run
<1>5. CASE PollInterrupted \/ PollError
  BY <1>5, StagePlaced DEF PollInterrupted, PollError, PollFails
<1>6. CASE UNCHANGED vars
  BY <1>6, StutterPlaced DEF vars
<1>7. QED
  BY <1>1, <1>2, <1>3, <1>4, <1>5, <1>6, DestroyPlaced DEF Next

LEMMA AlwaysPlaced == Spec => [](TypeOK /\ Placed)
<1>1. Init => TypeOK /\ Placed
  BY InitTypeOK, InitPlaced
<1>2. TypeOK /\ Placed /\ [Next]_vars => (TypeOK /\ Placed)'
  BY NextTypeOK, NextPlaced
<1>3. QED
  BY <1>1, <1>2, PTL DEF Spec

\* A Coroutine pointer is in one structure at most, in the state that goes
\* with it, whatever the coroutines do with whatever descriptors: a second
\* waiter on an fd drops the first one from the map but never duplicates it.
THEOREM OnePlaceAlways == Spec => []OnePlace
<1>1. TypeOK /\ Placed => OnePlace
  <2> SUFFICES ASSUME TypeOK, Placed PROVE OnePlace
    OBVIOUS
  <2>1. IsInjective(ready) /\ \A c \in Range(ready) : state[c] = "READY"
    BY RangeOfSeq DEF TypeOK, Placed, Queued
  <2>2. running # None => state[running] = "RUNNING"
    BY DEF TypeOK, Placed, OnThread
  <2>3. ASSUME NEW fd \in Fds, waitingMap[fd] # None
        PROVE  /\ state[waitingMap[fd]] = "WAITING"
               /\ \A gd \in Fds : waitingMap[gd] = waitingMap[fd] => gd = fd
    BY <2>3 DEF Placed, AwaitingFd
  <2>4. ASSUME NEW e \in timers
        PROVE  /\ state[e.co] = "WAITING"
               /\ \A fd \in Fds : waitingMap[fd] # e.co
               /\ \A f \in timers : f.co = e.co => f = e
    <3>1. e.co \in Coros /\ state[e.co] = "WAITING" /\ waitFd[e.co] = None
      BY DEF TypeOK, Entry, Placed, Sleeping
    <3>2. \A fd \in Fds : waitingMap[fd] # e.co
      BY <3>1, SchedulerAssumption DEF Placed, AwaitingFd
    <3>3. QED
      BY <3>1, <3>2 DEF Placed, Sleeping
  <2>5. QED
    BY <2>1, <2>2, <2>3, <2>4 DEF OnePlace
<1>2. QED
  BY <1>1, AlwaysPlaced, PTL

-----------------------------------------------------------------------------
(* No lost post.                                                           *)

\* post() pushes before it writes and run() reads before it swaps, so that no
\* interleaving of the two leaves a task in the queue without a wake-up.
THEOREM NoLostPostAlways == Spec => []NoLostPost
<1>1. Init => NoLostPost
  BY DEF Init, NoLostPost
<1>2. TypeOK /\ Placed /\ NoLostPost /\ [Next]_vars => NoLostPost'
  <2> SUFFICES ASSUME TypeOK, Placed, NoLostPost, [Next]_vars PROVE NoLostPost'
    OBVIOUS
  <2> USE DEF coroVars, queueVars, loopVars, epollVars, remoteVars
  <2>1. ASSUME NEW p \in Posters, Poster(p) PROVE NoLostPost'
    <3>1. CASE WriteByte(p)
      <4>1. pipe' > 0
        BY <3>1, SchedulerAssumption DEF WriteByte, TypeOK, WriteAs
      <4>2. QED
        BY <4>1 DEF NoLostPost
    <3>2. ASSUME NEW c \in Coros, PushTask(p, c) PROVE NoLostPost'
      <4>1. poster'[p] = "write"
        BY <3>2 DEF PushTask, TypeOK
      <4>2. QED
        BY <4>1 DEF NoLostPost
    <3>3. QED
      BY <2>1, <3>1, <3>2 DEF Poster
  <2>2. CASE Kernel
    BY <2>2 DEF Kernel, Tick, PeerActivity, NoLostPost
  <2>3. ASSUME NEW c \in Coros, Coroutine(c) PROVE NoLostPost'
    <3>1. running = c /\ UNCHANGED <<pipe, postQueue, poster>>
      BY <2>3 DEF Coroutine, Leave, WaitEvent, Sleep, Finish, Yield, Spawn, Consume,
           SwitchBack, PushTimer
    <3>2. loop = "running"
      BY <3>1, SchedulerAssumption DEF Placed, OnThread
    <3>3. QED
      BY <3>1, <3>2 DEF NoLostPost
  <2>4. CASE Run
    <3>1. CASE ReadPipe
      BY <3>1 DEF ReadPipe, NoLostPost
    <3>2. CASE DrainPostQueue
      BY <3>2 DEF DrainPostQueue, NoLostPost, DrainAs
    <3>3. CASE \/ Resume \/ ReadyEmpty \/ FireTimer \/ FireDone \/ PollEvents
               \/ PollTimeout \/ EventsDone \/ \E fd \in Fds : HandleFd(fd)
      <4>1. UNCHANGED <<pipe, postQueue, poster>> /\ loop # "drain"
        BY <3>3 DEF Resume, ReadyEmpty, FireTimer, FireDone, PollEvents, PollTimeout,
             EventsDone, HandleFd, GoFire, FireFrom, Front, WakeWaiter
      <4>2. QED
        BY <4>1 DEF NoLostPost
    <3>4. QED
      BY <2>4, <3>1, <3>2, <3>3 DEF Run
  <2>5. CASE PollInterrupted \/ PollError \/ Destroy
    BY <2>5 DEF PollInterrupted, PollError, Destroy, NoLostPost, PollFails
  <2>6. CASE UNCHANGED vars
    BY <2>6 DEF vars, NoLostPost
  <2>7. QED
    BY <2>1, <2>2, <2>3, <2>4, <2>5, <2>6 DEF Next
<1>3. QED
  BY <1>1, <1>2, AlwaysPlaced, PTL DEF Spec

-----------------------------------------------------------------------------
(* Whoever waits is armed, whether or not coroutines share descriptors.    *)

\* wait_event arms its fd, unless the ADD is refused, or a waiter is there
\* already and was refused or cut off itself.
LEMMA WaitEventArmed ==
  ASSUME TypeOK, Placed, Armed,
         NEW c \in Coros, NEW fd \in Fds, NEW ev \in Events, WaitEvent(c, fd, ev)
  PROVE  Armed'
<1>1. /\ UNCHANGED batch
      /\ waitingMap' = [waitingMap EXCEPT ![fd] = c]
      /\ running = c /\ Register(fd, ev)
  BY DEF WaitEvent, SwitchBack
<1>2. loop = "running"
  BY <1>1, SchedulerAssumption DEF Placed, OnThread
<1>3. batch = {} /\ batch' = {}
  BY <1>1, <1>2 DEF Armed
<1>4. ASSUME NEW gd \in Fds \ {fd}, waitingMap'[gd] # None
      PROVE  (gd \in registered' /\ mask'[gd] # {}) \/ gd \in refused' \cup cut'
  <2>1. (gd \in registered /\ mask[gd] # {}) \/ gd \in refused \cup cut
    BY <1>1, <1>3, <1>4 DEF Armed, WaiterIsArmed, TypeOK
  <2>2. /\ registered \subseteq registered' /\ mask'[gd] = mask[gd]
        /\ refused \ {fd} \subseteq refused' /\ cut \ {fd} \subseteq cut'
    BY <1>1, <1>4 DEF Register, Arm, TypeOK
  <2>3. QED
    BY <2>1, <2>2
<1>5. (fd \in registered' /\ mask'[fd] # {}) \/ fd \in refused' \cup cut'
  <2>1. CASE Arm(fd, ev)
    BY <2>1 DEF Arm, TypeOK
  <2>2. CASE waitingMap[fd] = None /\ refused' = refused \cup {fd}
    BY <2>2
  <2>3. CASE waitingMap[fd] # None /\ fd \notin registered /\ UNCHANGED <<refused, cut>>
    BY <1>3, <2>3 DEF Armed, WaiterIsArmed
  <2>4. QED
    BY <1>1, <2>1, <2>2, <2>3 DEF Register
<1>6. WaiterIsArmed'
  BY <1>4, <1>5 DEF WaiterIsArmed
<1>7. QED
  BY <1>3, <1>6 DEF Armed

\* The EPOLL_CTL_DEL after wait_event's swapcontext leaves whoever is behind
\* the fd by then without a registration, and says so in cut.
LEMMA ResumeArmed ==
  ASSUME TypeOK, Armed, Resume
  PROVE  Armed'
<1> DEFINE c == Head(ready)
<1>1. /\ UNCHANGED <<waitingMap, batch, refused>>
      /\ loop = "dispatch"
      /\ registered' = registered \ {waitFd[c]}
      /\ mask' = [fd \in Fds |-> IF fd = waitFd[c] THEN {} ELSE mask[fd]]
      /\ cut' = cut \cup {fd \in Fds : fd = waitFd[c] /\ waitingMap[fd] # None}
  BY DEF Resume
<1> HIDE DEF c
<1>2. batch = {} /\ batch' = {}
  BY <1>1 DEF Armed
<1>3. ASSUME NEW fd \in Fds, waitingMap[fd] # None
      PROVE  (fd \in registered' /\ mask'[fd] # {}) \/ fd \in refused' \cup cut'
  <2>1. CASE fd = waitFd[c]
    BY <1>1, <1>3, <2>1
  <2>2. CASE fd # waitFd[c]
    BY <1>1, <1>2, <1>3, <2>2 DEF Armed, WaiterIsArmed
  <2>3. QED
    BY <2>1, <2>2
<1>4. QED
  BY <1>1, <1>2, <1>3 DEF Armed, WaiterIsArmed

\* All other steps of the coroutines leave epoll and the map alone.
LEMMA CoroutineArmed ==
  ASSUME TypeOK, Placed, Armed, NEW c \in Coros, Coroutine(c)
  PROVE  Armed'
<1> USE DEF coroVars, queueVars, loopVars, epollVars, remoteVars
<1>1. CASE Finish(c) \/ Yield(c) \/ \E ms \in 1 .. MaxTime : Sleep(c, ms)
  <2>1. UNCHANGED <<waitingMap, batch, epollVars>> /\ running = c
    BY <1>1 DEF Finish, Yield, Sleep, PushTimer, SwitchBack
  <2>2. loop = "running"
    BY <2>1, SchedulerAssumption DEF Placed, OnThread
  <2>3. batch' = {}
    BY <2>1, <2>2 DEF Armed
  <2>4. QED
    BY <2>1, <2>3 DEF Armed, WaiterIsArmed
<1>2. CASE \/ \E d \in Coros : Spawn(c, d)
           \/ \E fd \in Fds, ev \in Events : Consume(c, fd, ev)
  BY <1>2 DEF Spawn, Consume, Armed, WaiterIsArmed
<1>3. QED
  BY <1>1, <1>2, WaitEventArmed DEF Coroutine, Leave

\* A report moves an fd from the epoll instance to evs[], and the entry of
\* evs[] takes the waiter out of the map.
LEMMA RunArmed ==
  ASSUME TypeOK, Armed, Run
  PROVE  Armed'
<1> USE DEF coroVars, queueVars, loopVars, epollVars, remoteVars
<1>1. CASE FireTimer
  BY <1>1 DEF FireTimer, FireFrom, Armed, WaiterIsArmed
<1>2. CASE PollEvents
  <2>1. /\ UNCHANGED <<waitingMap, registered, refused, cut>>
        /\ loop = "poll" /\ loop' = "events"
        /\ mask' = [fd \in Fds |-> IF fd \in batch' THEN {} ELSE mask[fd]]
    BY <1>2 DEF PollEvents
  <2>2. batch = {}
    BY <2>1 DEF Armed
  <2>3. QED
    BY <2>1, <2>2 DEF Armed, WaiterIsArmed
<1>3. ASSUME NEW fd \in Fds, HandleFd(fd) PROVE Armed'
  <2>1. /\ UNCHANGED <<loop, epollVars>>
        /\ batch' = batch \ {fd} /\ loop = "events"
        /\ waitingMap' = [waitingMap EXCEPT ![fd] = None]
    BY <1>3 DEF HandleFd, WakeWaiter
  <2>2. QED
    BY <2>1 DEF Armed, WaiterIsArmed, TypeOK
<1>4. CASE ReadPipe
  <2>1. /\ UNCHANGED <<waitingMap, epollVars>>
        /\ batch' = batch \ {PipeFd} /\ loop' = "drain"
    BY <1>4 DEF ReadPipe
  <2>2. \A fd \in Fds : fd \in batch => fd \in batch'
    BY <2>1, SchedulerAssumption
  <2>3. QED
    BY <2>1, <2>2 DEF Armed, WaiterIsArmed
<1>5. CASE DrainPostQueue
  BY <1>5 DEF DrainPostQueue, DrainAs, Armed, WaiterIsArmed
<1>6. CASE ReadyEmpty \/ FireDone \/ PollTimeout \/ EventsDone
  <2>1. /\ UNCHANGED <<waitingMap, batch, epollVars>>
        /\ loop # "events" \/ batch = {}
        /\ loop # "drain"
    BY <1>6 DEF ReadyEmpty, FireDone, PollTimeout, EventsDone, GoFire
  <2>2. batch' = {}
    BY <2>1 DEF Armed
  <2>3. QED
    BY <2>1, <2>2 DEF Armed, WaiterIsArmed
<1>7. QED
  BY <1>1, <1>2, <1>3, <1>4, <1>5, <1>6, ResumeArmed DEF Run

LEMMA NextArmed == TypeOK /\ Placed /\ Armed /\ [Next]_vars => Armed'
<1> SUFFICES ASSUME TypeOK, Placed, Armed, [Next]_vars PROVE Armed'
  OBVIOUS
<1> USE DEF coroVars, queueVars, loopVars, epollVars, remoteVars
<1>1. CASE \E p \in Posters : Poster(p)
  BY <1>1 DEF Poster, WriteByte, PushTask, Armed, WaiterIsArmed, WriteAs
<1>2. CASE Kernel
  BY <1>2 DEF Kernel, Tick, PeerActivity, Armed, WaiterIsArmed
<1>3. CASE PollInterrupted \/ PollError
  BY <1>3 DEF PollInterrupted, PollError, Armed, WaiterIsArmed, PollFails
<1>4. CASE Destroy
  BY <1>4 DEF Destroy, Armed, WaiterIsArmed
<1>5. CASE UNCHANGED vars
  BY <1>5 DEF vars, Armed, WaiterIsArmed
<1>6. QED
  BY <1>1, <1>2, <1>3, <1>4, <1>5, CoroutineArmed, RunArmed DEF Next

\* No lost wake-up but for the two known ways, for any number of coroutines on
\* one descriptor.
THEOREM WaiterIsArmedAlways == Spec => []WaiterIsArmed
<1>1. Init => Armed
  BY DEF Init, Armed, WaiterIsArmed
<1>2. Armed => WaiterIsArmed
  BY DEF Armed
<1>3. QED
  BY <1>1, <1>2, NextArmed, AlwaysPlaced, PTL DEF Spec

-----------------------------------------------------------------------------
(* Waiting coroutines.                                                     *)

LEMMA InitHeld == Init => Held
  BY DEF Init, Held

\* wait_event puts the coroutine behind an fd, and whoever was behind it counts
\* as replaced.
LEMMA WaitEventHeld ==
  ASSUME TypeOK, Held,
         NEW c \in Coros, NEW fd \in Fds, NEW ev \in Events, WaitEvent(c, fd, ev)
  PROVE  Held'
<1>1. /\ UNCHANGED timers
      /\ state' = [state EXCEPT ![c] = "WAITING"]
      /\ waitFd' = [waitFd EXCEPT ![c] = fd]
      /\ waitingMap' = [waitingMap EXCEPT ![fd] = c]
      /\ replaced' = replaced \cup ({waitingMap[fd]} \ {None})
  BY DEF WaitEvent, SwitchBack
<1>2. \A x \in Coros : /\ state'[x] = IF x = c THEN "WAITING" ELSE state[x]
                       /\ waitFd'[x] = IF x = c THEN fd ELSE waitFd[x]
  BY <1>1 DEF TypeOK
<1>3. \A gd \in Fds : waitingMap'[gd] = IF gd = fd THEN c ELSE waitingMap[gd]
  BY <1>1 DEF TypeOK
<1>4. ASSUME NEW x \in Coros \ replaced', state'[x] = "WAITING"
      PROVE  IF waitFd'[x] = None THEN \E e \in timers' : e.co = x
                                  ELSE waitingMap'[waitFd'[x]] = x
  <2>1. CASE x = c
    BY <1>2, <1>3, <2>1, SchedulerAssumption
  <2>2. CASE x # c
    <3>1. /\ x \in Coros \ replaced /\ state[x] = "WAITING" /\ waitFd'[x] = waitFd[x]
          /\ x # waitingMap[fd]
      BY <1>1, <1>2, <1>4, <2>2, SchedulerAssumption
    <3>2. CASE waitFd[x] = None
      BY <1>1, <3>1, <3>2 DEF Held
    <3>3. CASE waitFd[x] # None
      <4>1. waitFd[x] \in Fds /\ waitingMap[waitFd[x]] = x
        BY <3>1, <3>3 DEF Held, TypeOK
      <4>2. waitFd[x] # fd
        BY <3>1, <4>1
      <4>3. QED
        BY <1>3, <3>1, <3>3, <4>1, <4>2
    <3>4. QED
      BY <3>2, <3>3
  <2>3. QED
    BY <2>1, <2>2
<1>5. QED
  BY <1>4 DEF Held

\* Who is resumed has left the map and the heap before.
LEMMA ResumeHeld ==
  ASSUME TypeOK, Placed, Held, Resume
  PROVE  Held'
<1> DEFINE c == Head(ready)
<1>1. /\ UNCHANGED <<waitingMap, timers, replaced>>
      /\ ready # <<>>
      /\ state' = [state EXCEPT ![c] = "RUNNING"]
      /\ waitFd' = [waitFd EXCEPT ![c] = None]
  BY DEF Resume
<1>2. c \in Coros /\ state[c] = "READY"
  BY <1>1, TailOfInjective, HeadTailProperties DEF Placed, Queued, TypeOK
<1> HIDE DEF c
<1>3. \A x \in Coros : /\ state'[x] = IF x = c THEN "RUNNING" ELSE state[x]
                       /\ waitFd'[x] = IF x = c THEN None ELSE waitFd[x]
  BY <1>1 DEF TypeOK
<1>4. ASSUME NEW x \in Coros \ replaced, state'[x] = "WAITING"
      PROVE  IF waitFd'[x] = None THEN \E e \in timers' : e.co = x
                                  ELSE waitingMap'[waitFd'[x]] = x
  <2>1. x # c /\ state[x] = "WAITING" /\ waitFd'[x] = waitFd[x]
    BY <1>2, <1>3, <1>4
  <2>2. QED
    BY <1>1, <2>1 DEF Held
<1>5. QED
  BY <1>1, <1>4 DEF Held

\* The running coroutine changes its own state, and is behind no fd.
LEMMA CoroutineHeld ==
  ASSUME TypeOK, Placed, Held, NEW c \in Coros, Coroutine(c)
  PROVE  Held'
<1> USE DEF coroVars, queueVars, loopVars, epollVars, remoteVars
<1>1. CASE Finish(c) \/ Yield(c)
  <2>1. /\ UNCHANGED <<waitFd, waitingMap, timers, replaced>>
        /\ running = c /\ \E s \in {"freed", "READY"} : state' = [state EXCEPT ![c] = s]
    BY <1>1 DEF Finish, Yield, SwitchBack
  <2>2. \A x \in Coros : state'[x] = "WAITING" => state[x] = "WAITING"
    BY <2>1 DEF TypeOK
  <2>3. QED
    BY <2>1, <2>2 DEF Held
<1>2. ASSUME NEW d \in Coros, Spawn(c, d) PROVE Held'
  <2>1. /\ UNCHANGED <<waitFd, waitingMap, timers, replaced>>
        /\ state' = [state EXCEPT ![d] = "READY"]
    BY <1>2 DEF Spawn
  <2>2. \A x \in Coros : state'[x] = "WAITING" => state[x] = "WAITING"
    BY <2>1 DEF TypeOK
  <2>3. QED
    BY <2>1, <2>2 DEF Held
<1>3. ASSUME NEW ms \in 1 .. MaxTime, Sleep(c, ms) PROVE Held'
  <2>1. /\ UNCHANGED <<waitFd, waitingMap, replaced>>
        /\ running = c /\ state' = [state EXCEPT ![c] = "WAITING"]
        /\ timers' = timers \cup {[co |-> c, expire |-> now + ms]}
    BY <1>3 DEF Sleep, PushTimer, SwitchBack
  <2>2. state[c] = "RUNNING"
    BY <2>1, SchedulerAssumption DEF Placed, OnThread
  <2>3. waitFd[c] = None
    BY <2>2 DEF Placed, InFrame
  <2>4. \A x \in Coros : state'[x] = IF x = c THEN "WAITING" ELSE state[x]
    BY <2>1 DEF TypeOK
  <2>5. \E e \in timers' : e.co = c
    <3>1. [co |-> c, expire |-> now + ms].co = c
      OBVIOUS
    <3>2. QED
      BY <2>1, <3>1
  <2>6. QED
    BY <2>1, <2>3, <2>4, <2>5 DEF Held
<1>4. ASSUME NEW fd \in Fds, NEW ev \in Events, Consume(c, fd, ev) PROVE Held'
  BY <1>4 DEF Consume, Held
<1>5. QED
  BY <1>1, <1>2, <1>3, <1>4, WaitEventHeld DEF Coroutine, Leave

\* An entry of evs[] wakes whoever is behind the fd, and a due timer its sleeper.
LEMMA RunHeld ==
  ASSUME TypeOK, Placed, Held, Run
  PROVE  Held'
<1> USE DEF coroVars, queueVars, loopVars, epollVars, remoteVars
<1>1. CASE FireTimer
  <2>1. PICK e \in timers : /\ timers' = timers \ {e}
                            /\ state' = [state EXCEPT ![e.co] = "READY"]
    BY <1>1 DEF FireTimer, FireFrom, Front
  <2>2. UNCHANGED <<waitFd, waitingMap, replaced>>
    BY <1>1 DEF FireTimer, FireFrom, Front
  <2>3. e.co \in Coros
    BY DEF TypeOK, Entry
  <2>4. \A x \in Coros : state'[x] = IF x = e.co THEN "READY" ELSE state[x]
    BY <2>1 DEF TypeOK
  <2>5. ASSUME NEW x \in Coros \ replaced, state'[x] = "WAITING"
        PROVE  IF waitFd'[x] = None THEN \E f \in timers' : f.co = x
                                    ELSE waitingMap'[waitFd'[x]] = x
    BY <2>1, <2>2, <2>4, <2>5 DEF Held
  <2>6. QED
    BY <2>2, <2>5 DEF Held
<1>2. CASE \/ PollEvents \/ ReadPipe \/ ReadyEmpty \/ FireDone \/ PollTimeout \/ EventsDone
  BY <1>2 DEF PollEvents, ReadPipe, ReadyEmpty, FireDone, PollTimeout, EventsDone, GoFire, Held
<1>3. ASSUME NEW fd \in Fds, HandleFd(fd) PROVE Held'
  <2>1. UNCHANGED <<waitFd, timers, replaced>>
    BY <1>3 DEF HandleFd, WakeWaiter
  <2>2. waitingMap' = [waitingMap EXCEPT ![fd] = None]
    BY <1>3 DEF HandleFd, TypeOK, WakeWaiter
  <2>3. ASSUME NEW x \in Coros \ replaced, state'[x] = "WAITING"
        PROVE  IF waitFd'[x] = None THEN \E e \in timers' : e.co = x
                                    ELSE waitingMap'[waitFd'[x]] = x
    <3>1. state[x] = "WAITING" /\ x # waitingMap[fd]
      <4>1. CASE waitingMap[fd] = None
        BY <1>3, <2>3, <4>1, SchedulerAssumption DEF HandleFd, WakeWaiter
      <4>2. CASE waitingMap[fd] # None
        <5>1. waitingMap[fd] \in Coros
          BY <4>2 DEF TypeOK
        <5>2. state'[waitingMap[fd]] = "READY" /\ (x # waitingMap[fd] => state'[x] = state[x])
          BY <1>3, <4>2, <5>1 DEF HandleFd, TypeOK, WakeWaiter
        <5>3. QED
          BY <2>3, <5>2
      <4>3. QED
        BY <4>1, <4>2
    <3>2. CASE waitFd[x] = None
      BY <2>1, <3>1, <3>2 DEF Held
    <3>3. CASE waitFd[x] # None
      <4>1. waitFd[x] \in Fds /\ waitingMap[waitFd[x]] = x
        BY <3>1, <3>3 DEF Held, TypeOK
      <4>2. waitFd[x] # fd
        BY <3>1, <4>1
      <4>3. QED
        BY <2>1, <2>2, <3>3, <4>1, <4>2 DEF TypeOK
    <3>4. QED
      BY <3>2, <3>3
  <2>4. QED
    BY <2>1, <2>3 DEF Held
<1>4. CASE DrainPostQueue
  <2>1. /\ UNCHANGED <<waitFd, waitingMap, timers, replaced>>
        /\ \A c \in Coros : state'[c] = "WAITING" => state[c] = "WAITING"
    BY <1>4 DEF DrainPostQueue, DrainAs
  <2>2. QED
    BY <2>1 DEF Held
<1>5. QED
  BY <1>1, <1>2, <1>3, <1>4, ResumeHeld DEF Run

\* ~Scheduler deletes whatever waits.
LEMMA DestroyHeld ==
  ASSUME TypeOK, Placed, Held, Destroy
  PROVE  Held'
<1>1. /\ UNCHANGED replaced
      /\ \A c \in Coros : state'[c] = IF c \in Deleted THEN "freed" ELSE state[c]
  BY DEF Destroy
<1>2. \A c \in Coros \ replaced : state[c] = "WAITING" => c \in Deleted
  BY DEF Held, Deleted, DeletedButTimers, TypeOK
<1>3. \A c \in Coros \ replaced : state'[c] # "WAITING"
  BY <1>1, <1>2
<1>4. QED
  BY <1>1, <1>3 DEF Held

LEMMA NextHeld ==
  TypeOK /\ Placed /\ Held /\ [Next]_vars => Held'
<1> SUFFICES ASSUME TypeOK, Placed, Held, [Next]_vars PROVE Held'
  OBVIOUS
<1> USE DEF coroVars, queueVars, loopVars, epollVars, remoteVars
<1>1. CASE \E p \in Posters : Poster(p)
  BY <1>1 DEF Poster, WriteByte, PushTask, Held, WriteAs
<1>2. CASE Kernel
  BY <1>2 DEF Kernel, Tick, PeerActivity, Held
<1>3. CASE PollInterrupted \/ PollError
  BY <1>3 DEF PollInterrupted, PollError, Held, PollFails
<1>4. CASE UNCHANGED vars
  BY <1>4 DEF vars, Held
<1>5. QED
  BY <1>1, <1>2, <1>3, <1>4, CoroutineHeld, RunHeld, DestroyHeld DEF Next

LEMMA AlwaysHeld == Spec => []Held
<1>1. TypeOK /\ Placed /\ Held /\ [Next]_vars => Held'
  BY NextHeld
<1>2. QED
  BY <1>1, InitHeld, AlwaysPlaced, PTL DEF Spec

\* What suspends stays reachable from the structures that wake it, until another
\* coroutine waits for the same descriptor.
THEOREM NoLostCoroutineAlways == Spec => []NoLostCoroutine
<1>1. TypeOK /\ Held => NoLostCoroutine
  <2> SUFFICES ASSUME TypeOK, Held, NEW c \in Coros \ replaced, state[c] = "WAITING"
               PROVE  \/ \E fd \in Fds : waitingMap[fd] = c
                      \/ \E e \in timers : e.co = c
    BY DEF NoLostCoroutine
  <2>1. QED
    BY DEF Held, TypeOK
<1>2. QED
  BY <1>1, AlwaysPlaced, AlwaysHeld, PTL

-----------------------------------------------------------------------------
(* One coroutine per descriptor.                                           *)

\* The owner of a frame is the only one that can be behind its fd.
LEMMA OwnFd ==
  ASSUME TypeOK, Placed, ExclusiveFds,
         NEW c \in Coros, NEW fd \in Access[c], fd \in Fds, waitingMap[fd] # None
  PROVE  waitingMap[fd] = c
<1>1. /\ waitingMap[fd] \in Coros /\ waitFd[waitingMap[fd]] = fd
  BY DEF TypeOK, Placed, AwaitingFd
<1>2. fd \in Access[waitingMap[fd]]
  BY <1>1, SchedulerAssumption DEF Placed, InFrame
<1>3. QED
  BY <1>1, <1>2 DEF ExclusiveFds

\* Who calls wait_event finds nobody behind the fd.
LEMMA WaitEventUndisturbed ==
  ASSUME TypeOK, Placed, Undisturbed, ExclusiveFds,
         NEW c \in Coros, NEW fd \in Fds, NEW ev \in Events, WaitEvent(c, fd, ev)
  PROVE  Undisturbed'
<1>1. /\ cut' \subseteq cut
      /\ replaced' = replaced \cup ({waitingMap[fd]} \ {None})
      /\ running = c /\ fd \in Access[c]
  BY DEF WaitEvent, SwitchBack, Register, Arm
<1>2. state[c] = "RUNNING"
  BY <1>1, SchedulerAssumption DEF Placed, OnThread
<1>3. waitingMap[fd] = None
  <2>1. SUFFICES ASSUME waitingMap[fd] # None PROVE FALSE
    OBVIOUS
  <2>2. waitingMap[fd] = c /\ state[waitingMap[fd]] = "WAITING"
    BY <1>1, <2>1, OwnFd DEF Placed, AwaitingFd
  <2>3. QED
    BY <1>2, <2>2
<1>4. QED
  BY <1>1, <1>3 DEF Undisturbed

\* The EPOLL_CTL_DEL after wait_event's swapcontext concerns an fd that nobody
\* is behind any more.
LEMMA ResumeUndisturbed ==
  ASSUME TypeOK, Placed, Undisturbed, ExclusiveFds, Resume
  PROVE  Undisturbed'
<1> DEFINE c == Head(ready)
<1>1. /\ UNCHANGED replaced
      /\ ready # <<>>
      /\ cut' = cut \cup {fd \in Fds : fd = waitFd[c] /\ waitingMap[fd] # None}
  BY DEF Resume
<1>2. c \in Coros /\ state[c] = "READY"
  BY <1>1, TailOfInjective, HeadTailProperties DEF Placed, Queued, TypeOK
<1> HIDE DEF c
<1>3. cut' = {}
  <2>1. SUFFICES ASSUME NEW fd \in Fds, fd = waitFd[c], waitingMap[fd] # None PROVE FALSE
    BY <1>1 DEF Undisturbed
  <2>2. fd \in Access[c]
    BY <1>2, <2>1, SchedulerAssumption DEF Placed, InFrame
  <2>3. waitingMap[fd] = c
    BY <1>2, <2>1, <2>2, OwnFd
  <2>4. state[c] = "WAITING"
    BY <2>1, <2>3 DEF Placed, AwaitingFd
  <2>5. QED
    BY <1>2, <2>4
<1>4. QED
  BY <1>1, <1>3 DEF Undisturbed

LEMMA NextUndisturbed ==
  ASSUME ExclusiveFds
  PROVE  TypeOK /\ Placed /\ Undisturbed /\ [Next]_vars => Undisturbed'
<1> SUFFICES ASSUME TypeOK, Placed, Undisturbed, [Next]_vars PROVE Undisturbed'
  OBVIOUS
<1> USE DEF coroVars, queueVars, loopVars, epollVars, remoteVars
<1>1. CASE UNCHANGED <<replaced, cut>>
  BY <1>1 DEF Undisturbed
<1>2. ASSUME NEW c \in Coros, Coroutine(c) PROVE Undisturbed'
  <2>1. CASE Finish(c) \/ Yield(c) \/ (\E d \in Coros : Spawn(c, d))
             \/ (\E ms \in 1 .. MaxTime : Sleep(c, ms))
             \/ (\E fd \in Fds, ev \in Events : Consume(c, fd, ev))
    BY <1>1, <2>1 DEF Finish, Yield, Spawn, Sleep, PushTimer, Consume
  <2>2. QED
    BY <1>2, <2>1, WaitEventUndisturbed DEF Coroutine, Leave
<1>3. CASE Run
  <2>1. CASE \/ ReadyEmpty \/ FireTimer \/ FireDone \/ PollEvents \/ PollTimeout
             \/ ReadPipe \/ DrainPostQueue \/ EventsDone \/ \E fd \in Fds : HandleFd(fd)
    BY <1>1, <2>1 DEF ReadyEmpty, FireTimer, FireFrom, FireDone, PollEvents, PollTimeout,
       ReadPipe, DrainPostQueue, DrainAs, EventsDone, HandleFd, WakeWaiter, GoFire
  <2>2. QED
    BY <1>3, <2>1, ResumeUndisturbed DEF Run
<1>4. CASE \/ \E p \in Posters : Poster(p)
           \/ Kernel \/ PollInterrupted \/ PollError \/ Destroy \/ UNCHANGED vars
  BY <1>1, <1>4 DEF Poster, WriteByte, WriteAs, PushTask, Kernel, Tick, PeerActivity,
     PollInterrupted, PollError, PollFails, Destroy, vars
<1>5. QED
  BY <1>2, <1>3, <1>4 DEF Next

\* When no two coroutines use the same descriptor, as TcpServer gives each
\* connection to one, the exceptions that NoLostCoroutine, WaiterIsArmed and
\* NothingLeaks make for a coroutine that is replaced or cut off never occur.
THEOREM UndisturbedAlways == ASSUME ExclusiveFds PROVE Spec => []Undisturbed
<1>1. Init => Undisturbed
  BY DEF Init, Undisturbed
<1>2. TypeOK /\ Placed /\ Undisturbed /\ [Next]_vars => Undisturbed'
  BY NextUndisturbed
<1>3. QED
  BY <1>1, <1>2, AlwaysPlaced, PTL DEF Spec

-----------------------------------------------------------------------------
(* Timers.                                                                 *)

\* The local `now' of fire_timers() is never ahead of the clock.
NowRead == fireNow <= now

\* An entry leaves the heap at its deadline or later, and before every entry
\* with a later deadline.
THEOREM SleepHonouredAlways == Spec => SleepHonoured
<1>1. Init => NowRead
  BY DEF Init, NowRead
<1>2. TypeOK /\ NowRead /\ [Next]_vars => NowRead'
  <2> SUFFICES ASSUME TypeOK, NowRead, [Next]_vars PROVE NowRead'
    OBVIOUS
  <2> USE DEF coroVars, queueVars, loopVars, epollVars, remoteVars
  <2>1. CASE Tick
    BY <2>1 DEF Tick, TypeOK, NowRead
  <2>2. CASE ReadyEmpty \/ PollTimeout \/ EventsDone
    BY <2>2 DEF ReadyEmpty, PollTimeout, EventsDone, TypeOK, NowRead, GoFire
  <2>3. CASE FireDone
    BY <2>3 DEF FireDone, TypeOK, NowRead
  <2>4. CASE UNCHANGED <<fireNow, now>>
    BY <2>4 DEF NowRead
  <2>5. ASSUME NEW p \in Posters, Poster(p) PROVE UNCHANGED <<fireNow, now>>
    BY <2>5 DEF Poster, WriteByte, PushTask, WriteAs
  <2>6. ASSUME NEW c \in Coros, Coroutine(c) PROVE UNCHANGED <<fireNow, now>>
    BY <2>6 DEF Coroutine, Leave, WaitEvent, Sleep, Finish, Yield, Spawn, Consume,
         SwitchBack, PushTimer
  <2>7. CASE Run
    <3>1. CASE \/ Resume \/ FireTimer \/ PollEvents \/ ReadPipe \/ DrainPostQueue
               \/ \E fd \in Fds : HandleFd(fd)
      BY <2>4, <3>1 DEF Resume, FireTimer, PollEvents, ReadPipe, DrainPostQueue,
           HandleFd, FireFrom, Front, DrainAs, WakeWaiter
    <3>2. QED
      BY <2>2, <2>3, <2>7, <3>1 DEF Run
  <2>8. CASE Kernel
    BY <2>1, <2>4, <2>8 DEF Kernel, PeerActivity
  <2>9. CASE PollInterrupted \/ PollError \/ Destroy
    BY <2>4, <2>9 DEF PollInterrupted, PollError, Destroy, PollFails
  <2>10. CASE UNCHANGED vars
    BY <2>4, <2>10 DEF vars
  <2>11. QED
    BY <2>4, <2>5, <2>6, <2>7, <2>8, <2>9, <2>10 DEF Next
<1> DEFINE Honoured ==
      loop' # "destroyed" =>
        \A e \in timers \ timers' :
          e.expire <= now /\ \A f \in timers' : e.expire <= f.expire
<1>3. TypeOK /\ NowRead /\ [Next]_vars => [Honoured]_vars
  <2> SUFFICES ASSUME TypeOK, NowRead, Next PROVE Honoured
    OBVIOUS
  <2> USE DEF coroVars, queueVars, loopVars, epollVars, remoteVars
  <2>1. CASE FireTimer
    <3>1. PICK e \in timers : /\ e.expire <= fireNow
                              /\ \A f \in timers : e.expire <= f.expire
                              /\ timers' = timers \ {e}
      BY <2>1 DEF FireTimer, FireFrom, Front
    <3>2. e.expire \in Nat /\ fireNow \in Nat /\ now \in Nat
      BY SchedulerAssumption DEF TypeOK, Entry
    <3>3. e.expire <= now
      BY <3>1, <3>2 DEF NowRead
    <3>4. QED
      BY <3>1, <3>3
  <2>2. CASE timers \subseteq timers'
    BY <2>2
  <2>3. ASSUME NEW p \in Posters, Poster(p) PROVE UNCHANGED timers
    BY <2>3 DEF Poster, WriteByte, PushTask, WriteAs
  <2>4. ASSUME NEW c \in Coros, Coroutine(c) PROVE timers \subseteq timers'
    BY <2>4 DEF Coroutine, Leave, WaitEvent, Sleep, Finish, Yield, Spawn, Consume,
         SwitchBack, PushTimer
  <2>5. CASE Kernel \/ PollInterrupted \/ PollError
    BY <2>2, <2>5 DEF Kernel, Tick, PeerActivity, PollInterrupted, PollError, PollFails
  <2>6. CASE Run
    <3>1. CASE \/ Resume \/ ReadyEmpty \/ FireDone \/ PollEvents \/ PollTimeout
               \/ ReadPipe \/ DrainPostQueue \/ EventsDone \/ \E fd \in Fds : HandleFd(fd)
      <4>1. UNCHANGED timers
        BY <3>1 DEF Resume, ReadyEmpty, FireDone, PollEvents, PollTimeout, ReadPipe,
             DrainPostQueue, EventsDone, HandleFd, GoFire, DrainAs, WakeWaiter
      <4>2. QED
        BY <2>2, <4>1
    <3>2. QED
      BY <2>1, <2>6, <3>1 DEF Run
  <2>7. CASE Destroy
    BY <2>7 DEF Destroy
  <2>8. QED
    BY <2>2, <2>3, <2>4, <2>5, <2>6, <2>7 DEF Next
<1>4. QED
  BY <1>1, <1>2, <1>3, TypeCorrect, PTL DEF Spec, SleepHonoured

\* Whatever the cast to int makes of the time to a timer, epoll_wait gets a
\* timeout that is no longer.
LEMMA WaitNotLonger ==
  ASSUME NEW n \in Nat
  PROVE  Wait(ToInt(n)) <= n
<1> DEFINE m == 2 * (MaxInt + 1)
           r == n % m
<1>1. m \in Nat \ {0} /\ m > 2 * MaxInt
  BY SchedulerAssumption
<1>2. r \in 0 .. m - 1 /\ r <= n
  <2> HIDE DEF m
  <2>1. r \in 0 .. m - 1
    BY <1>1
  <2>2. CASE n < m
    <3>1. r = n
      BY <1>1, <2>2
    <3>2. QED
      BY <2>1, <3>1
  <2>3. CASE n >= m
    BY <1>1, <2>1, <2>3
  <2>4. QED
    BY <1>1, <2>2, <2>3
<1>3. ToInt(n) = IF r > MaxInt THEN r - m ELSE r
  BY DEF ToInt
<1> HIDE DEF r
<1>4. CASE r > MaxInt
  <2>1. ToInt(n) < 0 /\ IdleWait <= r
    BY <1>2, <1>3, <1>4, SchedulerAssumption
  <2>2. QED
    BY <1>2, <2>1, SchedulerAssumption DEF Wait
<1>5. CASE r <= MaxInt
  BY <1>2, <1>3, <1>5, SchedulerAssumption DEF Wait
<1>6. QED
  BY <1>2, <1>4, <1>5, SchedulerAssumption

\* A call of epoll_wait ends before the next timer is due, or at once.
THEOREM NoOversleepAlways == Spec => []NoOversleep
<1>1. Init => NoOversleep
  BY DEF Init, NoOversleep
<1>2. TypeOK /\ Placed /\ NoOversleep /\ [Next]_vars => NoOversleep'
  <2> SUFFICES ASSUME TypeOK, Placed, NoOversleep, [Next]_vars PROVE NoOversleep'
    OBVIOUS
  <2> USE DEF coroVars, queueVars, loopVars, epollVars, remoteVars
  <2>1. CASE FireDone
    <3> SUFFICES ASSUME loop' = "poll", NEW e \in timers
                 PROVE  wake' <= e.expire \/ wake' <= now
      BY <2>1 DEF FireDone, NoOversleep
    <3>1. PICK t \in -(MaxInt + 1) .. MaxInt : NextTimeout(t) /\ wake' = now + Wait(t)
      BY <2>1 DEF FireDone
    <3>2. PICK f \in Front : t = ToInt(IF f.expire > now THEN f.expire - now ELSE 0)
      BY <3>1 DEF NextTimeout
    <3>3. f.expire <= e.expire /\ f.expire \in Nat /\ e.expire \in Nat /\ now \in Nat
      BY SchedulerAssumption DEF Front, TypeOK, Entry
    <3>4. CASE f.expire > now
      <4>1. f.expire - now \in Nat /\ t = ToInt(f.expire - now)
        BY <3>2, <3>3, <3>4
      <4>2. Wait(t) <= f.expire - now
        BY <4>1, WaitNotLonger
      <4>3. Wait(t) \in Int
        BY SchedulerAssumption DEF Wait
      <4>4. QED
        BY <3>1, <3>3, <4>2, <4>3
    <3>5. CASE ~ (f.expire > now)
      <4>1. Wait(t) <= 0
        BY <3>2, <3>5, WaitNotLonger
      <4>2. Wait(t) \in Int
        BY SchedulerAssumption DEF Wait
      <4>3. QED
        BY <3>1, <3>3, <4>1, <4>2
    <3>6. QED
      BY <3>4, <3>5
  <2>2. CASE UNCHANGED <<loop, timers, wake>> /\ (now' = now \/ now' = now + 1)
    BY <2>2, SchedulerAssumption DEF NoOversleep, TypeOK
  <2>3. CASE loop' # "poll"
    BY <2>3 DEF NoOversleep
  <2>4. ASSUME NEW p \in Posters, Poster(p) PROVE NoOversleep'
    BY <2>2, <2>4 DEF Poster, WriteByte, WriteAs, PushTask
  <2>5. CASE Kernel \/ UNCHANGED vars
    BY <2>2, <2>5 DEF Kernel, Tick, PeerActivity, vars
  <2>6. ASSUME NEW c \in Coros, Coroutine(c) PROVE NoOversleep'
    <3>1. running = c /\ (UNCHANGED loop \/ loop' = "dispatch")
      BY <2>6 DEF Coroutine, Leave, WaitEvent, Sleep, Finish, Yield, Spawn, Consume,
           SwitchBack, PushTimer
    <3>2. loop = "running"
      BY <3>1, SchedulerAssumption DEF Placed, OnThread
    <3>3. QED
      BY <2>3, <3>1, <3>2
  <2>7. CASE Run
    <3>1. CASE \/ Resume \/ ReadyEmpty \/ FireTimer \/ PollEvents \/ PollTimeout
               \/ ReadPipe \/ DrainPostQueue \/ EventsDone \/ \E fd \in Fds : HandleFd(fd)
      BY <2>3, <3>1 DEF Resume, ReadyEmpty, FireTimer, PollEvents, PollTimeout, ReadPipe,
           DrainPostQueue, EventsDone, HandleFd, GoFire, FireFrom, DrainAs, WakeWaiter
    <3>2. QED
      BY <2>1, <2>7, <3>1 DEF Run
  <2>8. CASE PollInterrupted \/ PollError \/ Destroy
    BY <2>3, <2>8 DEF PollInterrupted, PollError, PollFails, Destroy
  <2>9. QED
    BY <2>4, <2>5, <2>6, <2>7, <2>8 DEF Next
<1>3. QED
  BY <1>1, <1>2, AlwaysPlaced, PTL DEF Spec

-----------------------------------------------------------------------------
(* After ~Scheduler.                                                       *)

\* The containers are empty and stay so.
Emptied ==
  loop = "destroyed" =>
    ready = <<>> /\ waitingMap = [fd \in Fds |-> None] /\ timers = {}

LEMMA AlwaysEmptied == Spec => []Emptied
<1>1. Init => Emptied
  BY DEF Init, Emptied
<1>2. TypeOK /\ Placed /\ Emptied /\ [Next]_vars => Emptied'
  <2> SUFFICES ASSUME TypeOK, Placed, Emptied, [Next]_vars PROVE Emptied'
    OBVIOUS
  <2> USE DEF coroVars, queueVars, loopVars, epollVars, remoteVars
  <2>1. CASE UNCHANGED <<loop, queueVars>>
    BY <2>1 DEF Emptied
  <2>2. CASE loop' # "destroyed"
    BY <2>2 DEF Emptied
  <2>3. CASE Destroy
    BY <2>3 DEF Destroy, Emptied
  <2>4. ASSUME NEW p \in Posters, Poster(p) PROVE Emptied'
    BY <2>1, <2>4 DEF Poster, WriteByte, WriteAs, PushTask
  <2>5. CASE Kernel \/ UNCHANGED vars
    BY <2>1, <2>5 DEF Kernel, Tick, PeerActivity, vars
  <2>6. ASSUME NEW c \in Coros, Coroutine(c) PROVE Emptied'
    <3>1. running = c /\ (UNCHANGED loop \/ loop' = "dispatch")
      BY <2>6 DEF Coroutine, Leave, WaitEvent, Sleep, Finish, Yield, Spawn, Consume,
           SwitchBack, PushTimer
    <3>2. loop = "running"
      BY <3>1, SchedulerAssumption DEF Placed, OnThread
    <3>3. QED
      BY <2>2, <3>1, <3>2
  <2>7. CASE Run \/ PollInterrupted \/ PollError
    BY <2>2, <2>7 DEF Run, Resume, ReadyEmpty, FireTimer, FireDone, PollEvents,
         PollTimeout, ReadPipe, DrainPostQueue, EventsDone, HandleFd, GoFire, FireFrom,
         DrainAs, WakeWaiter, PollInterrupted, PollError, PollFails
  <2>8. QED
    BY <2>3, <2>4, <2>5, <2>6, <2>7 DEF Next
<1>3. QED
  BY <1>1, <1>2, AlwaysPlaced, PTL DEF Spec

\* ~Scheduler finds every coroutine that did not end and did not lose its map
\* entry to another one.
THEOREM NothingLeaksAlways == Spec => []NothingLeaks
<1>1. TypeOK /\ Placed /\ Held /\ Emptied => NothingLeaks
  <2> SUFFICES ASSUME TypeOK, Placed, Held, Emptied, loop = "destroyed",
                      NEW c \in Coros \ replaced
               PROVE  state[c] \in {"none", "freed"}
    BY DEF NothingLeaks
  <2>1. ready = <<>> /\ waitingMap = [fd \in Fds |-> None] /\ timers = {}
    BY DEF Emptied
  <2>2. state[c] # "READY"
    BY <2>1 DEF Placed, Queued, Range
  <2>3. state[c] # "RUNNING"
    BY SchedulerAssumption DEF Placed, OnThread
  <2>4. state[c] # "WAITING"
    <3>1. SUFFICES ASSUME state[c] = "WAITING" PROVE FALSE
      OBVIOUS
    <3>2. waitFd[c] # None /\ waitFd[c] \in Fds /\ waitingMap[waitFd[c]] = c
      BY <2>1, <3>1 DEF Held, TypeOK
    <3>3. QED
      BY <2>1, <3>2, SchedulerAssumption
  <2>5. QED
    BY <2>2, <2>3, <2>4 DEF TypeOK
<1>2. QED
  BY <1>1, AlwaysPlaced, AlwaysHeld, AlwaysEmptied, PTL

-----------------------------------------------------------------------------
(* The Scheduler implements the Executor.                                  *)

Blocked == {c \in Coros : state[c] = "WAITING"}
Gone == {c \in Coros : state[c] = "freed"}

LEMMA InitImplements == Init => Exec!Init
<1> SUFFICES ASSUME Init PROVE Exec!Init
  OBVIOUS
<1>1. \A c \in Coros : state[c] \in {"READY", "none"}
  BY DEF Init
<1>2. Blocked = {} /\ Gone = {}
  BY <1>1 DEF Blocked, Gone
<1>3. QED
  BY <1>2 DEF Init, Exec!Init, Blocked, Gone

\* A coroutine without a Coroutine object and without a closure in the queue
\* is one that the Executor has not seen.
LEMMA FreshIsUnknown ==
  ASSUME TypeOK, Placed, NEW c \in Coros, Fresh(c)
  PROVE  ~ Exec!Known(c)
<1>1. state[c] = "none" /\ c \notin Range(postQueue)
  BY DEF Fresh
<1>2. c \notin Range(ready) /\ running # c
  BY <1>1 DEF Placed, Queued, OnThread
<1>3. c \notin Blocked /\ c \notin Gone
  BY <1>1 DEF Blocked, Gone
<1>4. c \notin Exec!Range(postQueue) /\ c \notin Exec!Range(ready)
  BY <1>1, <1>2 DEF Exec!Range, Range
<1>5. QED
  BY <1>1, <1>2, <1>3, <1>4 DEF Exec!Known, Blocked, Gone

\* Every wake-up, from epoll or from the heap, is an Unblock.
LEMMA WakeImplements ==
  ASSUME TypeOK, NEW c \in Coros, state[c] = "WAITING",
         state' = [state EXCEPT ![c] = "READY"], ready' = Append(ready, c),
         UNCHANGED <<running, postQueue>>
  PROVE  Exec!Next
<1>1. \A x \in Coros : state'[x] = IF x = c THEN "READY" ELSE state[x]
  BY DEF TypeOK
<1>2. c \in Blocked /\ Blocked' = Blocked \ {c} /\ Gone' = Gone
  BY <1>1 DEF Blocked, Gone
<1>3. Exec!Unblock(c)
  BY <1>2 DEF Exec!Unblock, Blocked, Gone
<1>4. QED
  BY <1>3 DEF Exec!Next

\* Steps of the coroutines: Fork, Pause, Block, End, or nothing.
LEMMA CoroutineImplements ==
  ASSUME TypeOK, Placed, NEW c \in Coros, Coroutine(c)
  PROVE  [Exec!Next]_(Exec!vars)
<1> USE DEF coroVars, queueVars, loopVars, epollVars, remoteVars
<1>1. running = c
  BY DEF Coroutine, Leave, WaitEvent, Sleep, Finish, Yield, Spawn, Consume, SwitchBack,
       PushTimer
<1>2. running # None /\ state[c] = "RUNNING"
  BY <1>1, SchedulerAssumption DEF Placed, OnThread
<1>3. ASSUME NEW d \in Coros, Spawn(c, d) PROVE Exec!Next
  <2>1. /\ ready' = Append(ready, d) /\ UNCHANGED <<running, postQueue>>
        /\ state' = [state EXCEPT ![d] = "READY"] /\ state[d] = "none"
    BY <1>3 DEF Spawn, Fresh
  <2>2. ~ Exec!Known(d)
    BY <1>3, FreshIsUnknown DEF Spawn
  <2>3. \A x \in Coros : state'[x] = IF x = d THEN "READY" ELSE state[x]
    BY <2>1 DEF TypeOK
  <2>4. Blocked' = Blocked /\ Gone' = Gone
    BY <2>1, <2>3 DEF Blocked, Gone
  <2>5. Exec!Fork(d)
    BY <1>2, <2>1, <2>2, <2>4 DEF Exec!Fork, Blocked, Gone
  <2>6. QED
    BY <2>5 DEF Exec!Next
<1>4. CASE Yield(c)
  <2>1. /\ ready' = Append(ready, c) /\ running' = None /\ UNCHANGED postQueue
        /\ state' = [state EXCEPT ![c] = "READY"]
    BY <1>4 DEF Yield, SwitchBack
  <2>2. \A x \in Coros : state'[x] = IF x = c THEN "READY" ELSE state[x]
    BY <2>1 DEF TypeOK
  <2>3. Blocked' = Blocked /\ Gone' = Gone
    BY <1>2, <2>2 DEF Blocked, Gone
  <2>4. Exec!Pause
    BY <1>1, <1>2, <2>1, <2>3 DEF Exec!Pause, Blocked, Gone
  <2>5. QED
    BY <2>4 DEF Exec!Next
<1>5. CASE \/ \E fd \in Fds, ev \in Events : WaitEvent(c, fd, ev)
           \/ \E ms \in 1 .. MaxTime : Sleep(c, ms)
  <2>1. /\ running' = None /\ UNCHANGED <<ready, postQueue>>
        /\ state' = [state EXCEPT ![c] = "WAITING"]
    BY <1>5 DEF WaitEvent, Sleep, SwitchBack, PushTimer
  <2>2. \A x \in Coros : state'[x] = IF x = c THEN "WAITING" ELSE state[x]
    BY <2>1 DEF TypeOK
  <2>3. Blocked' = Blocked \cup {c} /\ Gone' = Gone
    BY <1>2, <2>2 DEF Blocked, Gone
  <2>4. Exec!Block
    BY <1>1, <1>2, <2>1, <2>3 DEF Exec!Block, Blocked, Gone
  <2>5. QED
    BY <2>4 DEF Exec!Next
<1>6. CASE Finish(c)
  <2>1. /\ running' = None /\ UNCHANGED <<ready, postQueue>>
        /\ state' = [state EXCEPT ![c] = "freed"]
    BY <1>6 DEF Finish, SwitchBack
  <2>2. \A x \in Coros : state'[x] = IF x = c THEN "freed" ELSE state[x]
    BY <2>1 DEF TypeOK
  <2>3. Blocked' = Blocked /\ Gone' = Gone \cup {c}
    BY <1>2, <2>2 DEF Blocked, Gone
  <2>4. Exec!End
    BY <1>1, <1>2, <2>1, <2>3 DEF Exec!End, Blocked, Gone
  <2>5. QED
    BY <2>4 DEF Exec!Next
<1>7. ASSUME NEW fd \in Fds, NEW ev \in Events, Consume(c, fd, ev)
      PROVE  UNCHANGED Exec!vars
  <2>1. UNCHANGED <<state, ready, running, postQueue>>
    BY <1>7 DEF Consume
  <2>2. Blocked' = Blocked /\ Gone' = Gone
    BY <2>1 DEF Blocked, Gone
  <2>3. QED
    BY <2>1, <2>2 DEF Exec!vars, Blocked, Gone
<1>8. QED
  BY <1>3, <1>4, <1>5, <1>6, <1>7 DEF Coroutine, Leave

\* Steps of run(): Start, Unblock, Admit, or nothing.
LEMMA RunImplements ==
  ASSUME TypeOK, Placed, Run
  PROVE  [Exec!Next]_(Exec!vars)
<1> USE DEF coroVars, queueVars, loopVars, epollVars, remoteVars
<1>1. CASE Resume
  <2>1. /\ loop = "dispatch" /\ ready # <<>> /\ UNCHANGED postQueue
        /\ running' = Head(ready) /\ ready' = Tail(ready)
        /\ state' = [state EXCEPT ![Head(ready)] = "RUNNING"]
    BY <1>1 DEF Resume
  <2>2. Head(ready) \in Coros /\ state[Head(ready)] = "READY"
    BY <2>1, TailOfInjective, HeadTailProperties DEF Placed, Queued, TypeOK
  <2>3. \A x \in Coros : state'[x] = IF x = Head(ready) THEN "RUNNING" ELSE state[x]
    BY <2>1 DEF TypeOK
  <2>4. Blocked' = Blocked /\ Gone' = Gone
    BY <2>2, <2>3 DEF Blocked, Gone
  <2>5. running = None
    BY <2>1 DEF Placed, OnThread
  <2>6. Exec!Start
    BY <2>1, <2>4, <2>5 DEF Exec!Start, Blocked, Gone
  <2>7. QED
    BY <2>6 DEF Exec!Next
<1>2. CASE FireTimer
  <2>1. PICK e \in timers : /\ state' = [state EXCEPT ![e.co] = "READY"]
                            /\ ready' = Append(ready, e.co)
    BY <1>2 DEF FireTimer, FireFrom, Front
  <2>2. e.co \in Coros /\ state[e.co] = "WAITING"
    BY DEF TypeOK, Entry, Placed, Sleeping
  <2>3. UNCHANGED <<running, postQueue>>
    BY <1>2 DEF FireTimer, FireFrom, Front
  <2>4. QED
    BY <2>1, <2>2, <2>3, WakeImplements
<1>3. ASSUME NEW fd \in Fds, HandleFd(fd), waitingMap[fd] # None PROVE Exec!Next
  <2>1. waitingMap[fd] \in Coros /\ state[waitingMap[fd]] = "WAITING"
    BY <1>3 DEF TypeOK, Placed, AwaitingFd
  <2>2. /\ state' = [state EXCEPT ![waitingMap[fd]] = "READY"]
        /\ ready' = Append(ready, waitingMap[fd])
        /\ UNCHANGED <<running, postQueue>>
    BY <1>3 DEF HandleFd, WakeWaiter
  <2>3. QED
    BY <2>1, <2>2, WakeImplements
<1>4. CASE DrainPostQueue /\ postQueue # <<>>
  <2>1. /\ ready' = ready \o postQueue /\ postQueue' = <<>> /\ UNCHANGED running
        /\ \A c \in Coros :
             state'[c] = IF c \in Range(postQueue) THEN "READY" ELSE state[c]
    BY <1>4 DEF DrainPostQueue, DrainAs
  <2>2. \A c \in Range(postQueue) : state[c] = "none"
    BY DEF Placed, Posted
  <2>3. Blocked' = Blocked /\ Gone' = Gone
    BY <2>1, <2>2 DEF Blocked, Gone
  <2>4. Exec!Admit
    BY <1>4, <2>1, <2>3 DEF Exec!Admit, Blocked, Gone
  <2>5. QED
    BY <2>4 DEF Exec!Next
<1>5. CASE DrainPostQueue /\ postQueue = <<>>
  <2>1. UNCHANGED <<ready, postQueue, running>>
    BY <1>5, ConcatEmptySeq DEF DrainPostQueue, TypeOK, DrainAs
  <2>2. \A c \in Coros : state'[c] = state[c]
    BY <1>5 DEF DrainPostQueue, Range, DrainAs
  <2>3. Blocked' = Blocked /\ Gone' = Gone
    BY <2>2 DEF Blocked, Gone
  <2>4. QED
    BY <2>1, <2>3 DEF Exec!vars, Blocked, Gone
<1>6. CASE \/ ReadyEmpty \/ FireDone \/ PollEvents \/ PollTimeout \/ ReadPipe
           \/ EventsDone \/ \E fd \in Fds : HandleFd(fd) /\ waitingMap[fd] = None
  <2>1. UNCHANGED <<state, ready, running, postQueue>>
    BY <1>6 DEF ReadyEmpty, FireDone, PollEvents, PollTimeout, ReadPipe, EventsDone,
         HandleFd, GoFire, WakeWaiter
  <2>2. Blocked' = Blocked /\ Gone' = Gone
    BY <2>1 DEF Blocked, Gone
  <2>3. QED
    BY <2>1, <2>2 DEF Exec!vars, Blocked, Gone
<1>7. QED
  BY <1>1, <1>2, <1>3, <1>4, <1>5, <1>6 DEF Run

\* ~Scheduler is a Shutdown.
LEMMA DestroyImplements ==
  ASSUME TypeOK, Placed, Destroy
  PROVE  Exec!Next
<1>1. /\ loop = "stopped" /\ UNCHANGED running /\ ready' = <<>> /\ postQueue' = <<>>
      /\ \A c \in Coros : state'[c] = IF c \in Deleted THEN "freed" ELSE state[c]
  BY DEF Destroy
<1>2. running = None
  BY <1>1 DEF Placed, OnThread
<1>3. Blocked' \in SUBSET Blocked
  BY <1>1 DEF Blocked
<1>4. Range(ready) \subseteq Coros /\ Range(ready) \subseteq Deleted
  BY RangeOfSeq DEF TypeOK, Deleted, DeletedButTimers
<1>5. ASSUME NEW c \in Coros, c \in Deleted
      PROVE  c \in Range(ready) \/ state[c] = "WAITING"
  BY <1>5, SchedulerAssumption DEF Deleted, DeletedButTimers, Placed, AwaitingFd, Sleeping
<1>6. \A c \in Range(ready) : state[c] = "READY"
  BY <1>4 DEF Placed, Queued
<1>7. Gone' = Gone \cup Range(ready) \cup (Blocked \ Blocked')
  <2>1. \A c \in Coros : c \in Blocked \ Blocked' <=> state[c] = "WAITING" /\ c \in Deleted
    BY <1>1 DEF Blocked
  <2>2. \A c \in Coros : c \in Gone' <=> state[c] = "freed" \/ c \in Deleted
    BY <1>1 DEF Gone
  <2>3. Blocked \subseteq Coros /\ Gone \subseteq Coros /\ Gone' \subseteq Coros
        /\ \A c \in Coros : c \in Gone <=> state[c] = "freed"
    BY DEF Blocked, Gone
  <2>4. QED
    BY <1>4, <1>5, <2>1, <2>2, <2>3
<1>8. Exec!Range(ready) = Range(ready)
  BY DEF Exec!Range, Range
<1>9. Exec!Shutdown
  BY <1>1, <1>2, <1>3, <1>7, <1>8 DEF Exec!Shutdown, Blocked, Gone
<1>10. QED
  BY <1>9 DEF Exec!Next

\* Whatever the coroutines, the posters and the kernel do, tasks are admitted
\* in the order of submission and run first come first served, one at a time,
\* each until it gives the thread up.
THEOREM ImplementsExecutor == Spec => ExecutorSafety
<1>1. TypeOK /\ Placed /\ [Next]_vars => [Exec!Next]_(Exec!vars)
  <2> SUFFICES ASSUME TypeOK, Placed, [Next]_vars PROVE [Exec!Next]_(Exec!vars)
    OBVIOUS
  <2> USE DEF coroVars, queueVars, loopVars, epollVars, remoteVars
  <2>1. CASE UNCHANGED <<state, ready, running, postQueue>>
    <3>1. Blocked' = Blocked /\ Gone' = Gone
      BY <2>1 DEF Blocked, Gone
    <3>2. QED
      BY <2>1, <3>1 DEF Exec!vars, Blocked, Gone
  <2>2. ASSUME NEW p \in Posters, NEW c \in Coros, PushTask(p, c) PROVE Exec!Next
    <3>1. /\ UNCHANGED <<state, ready, running>>
          /\ postQueue' = Append(postQueue, c)
          /\ ~ Exec!Known(c)
      BY <2>2, FreshIsUnknown DEF PushTask
    <3>2. Blocked' = Blocked /\ Gone' = Gone
      BY <3>1 DEF Blocked, Gone
    <3>3. Exec!Submit(c)
      BY <3>1, <3>2 DEF Exec!Submit, Blocked, Gone
    <3>4. QED
      BY <3>3 DEF Exec!Next
  <2>3. CASE Kernel \/ PollInterrupted \/ PollError \/ UNCHANGED vars
             \/ \E p \in Posters : WriteByte(p)
    BY <2>1, <2>3 DEF Kernel, Tick, PeerActivity, PollInterrupted, PollError, vars,
         WriteByte, PollFails, WriteAs
  <2>4. QED
    BY <2>2, <2>3, CoroutineImplements, RunImplements, DestroyImplements
       DEF Next, Poster
<1>2. QED
  BY <1>1, InitImplements, AlwaysPlaced, PTL DEF Spec, ExecutorSafety, Exec!Spec
=============================================================================
