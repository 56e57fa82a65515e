----------------------------- MODULE Scheduler -----------------------------
(***************************************************************************)
(* One Scheduler of core/coroutine.{h,cpp}: a thread that multiplexes      *)
(* coroutines over a ready queue, an epoll instance and a timer heap, and  *)
(* takes tasks posted by other threads through a queue and a wake-up pipe. *)
(*                                                                         *)
(* The actors are the thread inside run(), the coroutine it is running,    *)
(* the threads that call post(), the kernel (readiness of descriptors) and *)
(* the clock.  A coroutine stands for its closure too: c is in postQueue   *)
(* while only its closure exists, and a Coroutine object once create() ran.*)
(***************************************************************************)
EXTENDS Integers, Sequences, FiniteSets, Functions

CONSTANTS
  Coros,      \* the coroutines that may ever be created
  Fds,        \* descriptors that coroutines wait on
  Events,     \* EPOLLIN, EPOLLOUT
  Access,     \* Access[c]: the descriptors the code of coroutine c uses
  Posters,    \* threads that call post()
  PipeFd,     \* pipe_read_fd_
  None,       \* the null pointer
  PipeCap,    \* bytes the pipe holds (65536 on Linux)
  MaxEvents,  \* length of evs[] in run() (64)
  MaxInt,     \* the largest int, in ticks
  IdleWait,   \* what epoll_wait waits without a timer (50 ms), in ticks
  MaxTime     \* bound: the clock, in ticks, stops here

ASSUME SchedulerAssumption ==
  /\ Access \in [Coros -> SUBSET Fds]
  /\ PipeFd \notin Fds
  /\ None \notin Coros \cup Fds
  /\ PipeCap \in Nat \ {0}
  /\ MaxEvents \in Nat \ {0}
  /\ MaxInt \in Nat /\ IdleWait \in 1 .. MaxInt + 1
  /\ MaxTime \in Nat

VARIABLES
  state,       \* Coroutine::state; "none" before create(), "freed" after delete
  waitFd,      \* the fd in whose wait_event frame the coroutine is suspended
  ready,       \* ready_queue
  running,     \* running_coro
  waitingMap,  \* waiting_map; None where the map has no entry
  timers,      \* timer_heap
  loop,        \* where run() is
  batch,       \* entries of evs[] not handled yet
  fireNow,     \* the local `now' of fire_timers()
  wake,        \* when the epoll_wait under way gives up; 0 outside of it
  registered,  \* fds in the epoll instance
  mask,        \* events an fd is armed for; {} once EPOLLONESHOT disarmed it
  level,       \* events the kernel has pending for an fd
  pipe,        \* bytes in the wake-up pipe
  postQueue,   \* post_queue_
  poster,      \* per posting thread: before the push, or before the write
  now,         \* steady_clock, in ticks
  \* History, which the code does not keep:
  refused,     \* fds that are waited on since an EPOLL_CTL_ADD that failed
  cut,         \* fds removed from epoll since, with a coroutine behind them
  replaced     \* coroutines whose map entry another one took over

coroVars   == <<state, waitFd, replaced>>
epollVars  == <<registered, mask, refused, cut>>
loopVars   == <<loop, batch, fireNow, wake>>
queueVars  == <<ready, running, waitingMap, timers>>
remoteVars == <<pipe, postQueue, poster>>
vars == <<coroVars, queueVars, loopVars, epollVars, level, remoteVars, now>>

Entry == [co : Coros, expire : 0 .. MaxTime]    \* TimerEntry
Stages == {"dispatch", "running", "fireBefore", "poll", "events", "drain", "fireAfter",
           "stopped", "destroyed"}

TypeOK ==
  /\ state \in [Coros -> {"none", "READY", "RUNNING", "WAITING", "freed"}]
  /\ waitFd \in [Coros -> Fds \cup {None}]
  /\ ready \in Seq(Coros)
  /\ running \in Coros \cup {None}
  /\ waitingMap \in [Fds -> Coros \cup {None}]
  /\ timers \subseteq Entry
  /\ loop \in Stages
  /\ batch \subseteq Fds \cup {PipeFd}
  /\ fireNow \in 0 .. MaxTime
  /\ wake \in Nat
  /\ registered \subseteq Fds
  /\ mask \in [Fds -> SUBSET Events]
  /\ level \in [Fds -> SUBSET Events]
  /\ pipe \in 0 .. PipeCap
  /\ postQueue \in Seq(Coros)
  /\ poster \in [Posters -> {"idle", "write"}]
  /\ now \in 0 .. MaxTime
  /\ refused \subseteq Fds
  /\ cut \subseteq Fds
  /\ replaced \subseteq Coros

(***************************************************************************)
(* Before run(): main() has created the accept coroutine on scheduler 0    *)
(* and nothing on the others.                                              *)
(***************************************************************************)
Init ==
  /\ ready \in {<<>>} \cup {<<c>> : c \in Coros}
  /\ state = [c \in Coros |-> IF c \in Range(ready) THEN "READY" ELSE "none"]
  /\ waitFd = [c \in Coros |-> None]
  /\ running = None
  /\ waitingMap = [fd \in Fds |-> None]
  /\ timers = {}
  /\ loop = "dispatch"
  /\ batch = {}
  /\ fireNow = 0
  /\ wake = 0
  /\ registered = {}
  /\ mask = [fd \in Fds |-> {}]
  /\ level \in [Fds -> SUBSET Events]
  /\ pipe = 0
  /\ postQueue = <<>>
  /\ poster = [p \in Posters |-> "idle"]
  /\ now = 0
  /\ refused = {}
  /\ cut = {}
  /\ replaced = {}

-----------------------------------------------------------------------------
(* Other threads: post() pushes under post_mutex_, then writes one byte.   *)

Fresh(c) == state[c] = "none" /\ c \notin Range(postQueue)

PushTask(p, c) ==
  /\ poster[p] = "idle"
  /\ loop # "destroyed"
  /\ Fresh(c)
  /\ postQueue' = Append(postQueue, c)
  /\ poster' = [poster EXCEPT ![p] = "write"]
  /\ UNCHANGED <<coroVars, queueVars, loopVars, epollVars, level, pipe, now>>

WriteAs(p, bytes) ==
  /\ poster[p] = "write"
  /\ pipe' = bytes
  /\ poster' = [poster EXCEPT ![p] = "idle"]
  /\ UNCHANGED <<coroVars, queueVars, loopVars, epollVars, level, postQueue, now>>

\* Mutant of WriteByte: no byte at all, as if the 50 ms timeout of epoll_wait
\* made it unnecessary.
WriteNothing(p) == WriteAs(p, pipe)

\* A full O_NONBLOCK pipe rejects the byte and post() ignores the error.
WriteByte(p) == WriteAs(p, IF pipe < PipeCap THEN pipe + 1 ELSE pipe)

-----------------------------------------------------------------------------
(* The kernel and the clock.                                               *)

\* The peer sends, closes, or drains its buffer: an event becomes pending.
PeerActivity(fd, ev) ==
  /\ ev \notin level[fd]
  /\ level' = [level EXCEPT ![fd] = @ \cup {ev}]
  /\ UNCHANGED <<coroVars, queueVars, loopVars, epollVars, remoteVars, now>>

Tick ==
  /\ now < MaxTime
  /\ now' = now + 1
  /\ UNCHANGED <<coroVars, queueVars, loopVars, epollVars, level, remoteVars>>

\* What epoll_wait can report.  An fd is armed by ADD or MOD and disarmed by
\* the report itself, so EPOLLET never hides an event that is pending.
Reportable ==
  {fd \in registered : mask[fd] \cap level[fd] # {}}
    \cup (IF pipe > 0 THEN {PipeFd} ELSE {})

-----------------------------------------------------------------------------
(* The running coroutine.  Every way of giving up the thread ends in       *)
(* swapcontext to run(), which finds running_coro null and loops.          *)

\* recv/send/accept until EAGAIN: the event is no longer pending.
Consume(c, fd, ev) ==
  /\ running = c
  /\ fd \in Access[c]
  /\ ev \in level[fd]
  /\ level' = [level EXCEPT ![fd] = @ \ {ev}]
  /\ UNCHANGED <<coroVars, queueVars, loopVars, epollVars, remoteVars, now>>

Spawn(c, d) ==
  /\ running = c
  /\ Fresh(d)
  /\ state' = [state EXCEPT ![d] = "READY"]
  /\ ready' = Append(ready, d)
  /\ UNCHANGED <<waitFd, replaced, running, waitingMap, timers, loopVars, epollVars, level,
                 remoteVars, now>>

\* swapcontext to main_ctx, with running_coro cleared.
SwitchBack(c, st) ==
  /\ running = c
  /\ state' = [state EXCEPT ![c] = st]
  /\ running' = None
  /\ loop' = "dispatch"
  /\ UNCHANGED <<batch, fireNow, wake, level, remoteVars, now>>

Yield(c) ==
  /\ SwitchBack(c, "READY")
  /\ ready' = Append(ready, c)
  /\ UNCHANGED <<waitFd, replaced, waitingMap, timers, epollVars>>

\* What an ADD or a MOD that succeeds does.
Arm(fd, ev) ==
  /\ registered' = registered \cup {fd}
  /\ mask' = [mask EXCEPT ![fd] = {ev}]
  /\ refused' = refused \ {fd}
  /\ cut' = cut \ {fd}

\* Mutant of Register: ADD without the MOD after EEXIST.
RegisterAddOnly(fd, ev) ==
  IF fd \in registered /\ waitingMap[fd] = None THEN UNCHANGED epollVars ELSE Arm(fd, ev)

\* MOD for an fd that has a map entry, otherwise ADD, and MOD if that answers
\* EEXIST.  All other errors are ignored: a MOD of an fd that is not in the
\* epoll instance does nothing, and neither does an ADD that is refused
\* (ENOMEM, ENOSPC, EPERM); the waiter is recorded all the same.
Register(fd, ev) ==
  \/ /\ waitingMap[fd] = None \/ fd \in registered
     /\ Arm(fd, ev)
  \/ /\ fd \notin registered
     /\ refused' = IF waitingMap[fd] = None THEN refused \cup {fd} ELSE refused
     /\ UNCHANGED <<registered, mask, cut>>

WaitEvent(c, fd, ev) ==
  /\ SwitchBack(c, "WAITING")
  /\ fd \in Access[c]
  /\ Register(fd, ev)
  /\ waitFd' = [waitFd EXCEPT ![c] = fd]
  /\ waitingMap' = [waitingMap EXCEPT ![fd] = c]
  /\ replaced' = replaced \cup ({waitingMap[fd]} \ {None})
  /\ UNCHANGED <<ready, timers>>

PushTimer(c, ms, others) ==
  /\ SwitchBack(c, "WAITING")
  /\ now + ms <= MaxTime
  /\ timers' = others \cup {[co |-> c, expire |-> now + ms]}
  /\ UNCHANGED <<waitFd, replaced, ready, waitingMap, epollVars>>

\* Mutant of Sleep: one sleeper per deadline, as in a map keyed by expire_ms.
SleepKeyed(c, ms) == PushTimer(c, ms, {e \in timers : e.expire # now + ms})

\* sleep(ms) with ms > 0; sleep(0) is Yield.
Sleep(c, ms) == PushTimer(c, ms, timers)

\* func returns or throws: co_entry marks it DONE and run() deletes it.
Finish(c) ==
  /\ SwitchBack(c, "freed")
  /\ UNCHANGED <<waitFd, replaced, ready, waitingMap, timers, epollVars>>

-----------------------------------------------------------------------------
(* The thread in run().                                                    *)

\* Pop the front and switch to it; a coroutine suspended in wait_event first
\* removes its fd from the epoll instance.
Resume ==
  /\ loop = "dispatch"
  /\ ready # <<>>
  /\ LET c == Head(ready) IN
       /\ ready' = Tail(ready)
       /\ running' = c
       /\ state' = [state EXCEPT ![c] = "RUNNING"]
       /\ waitFd' = [waitFd EXCEPT ![c] = None]
       /\ registered' = registered \ {waitFd[c]}
       /\ mask' = [fd \in Fds |-> IF fd = waitFd[c] THEN {} ELSE mask[fd]]
       /\ cut' = cut \cup {fd \in Fds : fd = waitFd[c] /\ waitingMap[fd] # None}
  /\ loop' = "running"
  /\ UNCHANGED <<waitingMap, timers, batch, fireNow, wake, level, refused, replaced,
                 remoteVars, now>>

\* From one stage of run() to another that starts with fire_timers().
GoFire(stage) ==
  /\ loop' = stage
  /\ fireNow' = now
  /\ wake' = 0
  /\ UNCHANGED <<coroVars, queueVars, batch, epollVars, level, remoteVars, now>>

ReadyEmpty == loop = "dispatch" /\ ready = <<>> /\ GoFire("fireBefore")

\* The entries that the heap may have on top.
Front == {e \in timers : \A f \in timers : e.expire <= f.expire}

FireFrom(entries) ==
  /\ loop \in {"fireBefore", "fireAfter"}
  /\ \E e \in entries :
       /\ e.expire <= fireNow
       /\ timers' = timers \ {e}
       /\ state' = [state EXCEPT ![e.co] = "READY"]
       /\ ready' = Append(ready, e.co)
  /\ UNCHANGED <<waitFd, replaced, running, waitingMap, loopVars, epollVars, level,
                 remoteVars, now>>

\* Mutant of FireTimer: the heap without its comparator.
FireTimerUnordered == FireFrom(timers)

\* One round of the loop in fire_timers(): pop the heap's top if it is due.
FireTimer == FireFrom(Front)

\* static_cast<int>: the width is that of an int, a sign bit included.
ToInt(n) ==
  LET r == n % (2 * (MaxInt + 1)) IN IF r > MaxInt THEN r - 2 * (MaxInt + 1) ELSE r

\* Mutant of NextTimeout: the timers do not shorten the wait.
NextTimeoutIdle(t) == t = -1

\* What next_timeout_ms() returns.  The clock that stands still between its
\* now_ms() and epoll_wait leaves out a delay of a few instructions.
NextTimeout(t) ==
  \/ timers = {} /\ t = -1
  \/ \E e \in Front : t = ToInt(IF e.expire > now THEN e.expire - now ELSE 0)

\* Mutant of Wait: a negative timeout goes to epoll_wait, which waits for ever.
WaitForever(t) == IF t < 0 THEN MaxTime + 1 ELSE t

Wait(t) == IF t < 0 THEN IdleWait ELSE t

FireDone ==
  /\ loop \in {"fireBefore", "fireAfter"}
  /\ \A e \in timers : e.expire > fireNow
  /\ IF loop = "fireBefore" /\ ready = <<>>
       THEN /\ loop' = "poll"
            /\ \E t \in -(MaxInt + 1) .. MaxInt : NextTimeout(t) /\ wake' = now + Wait(t)
       ELSE loop' = "dispatch" /\ wake' = 0
  /\ fireNow' = 0
  /\ UNCHANGED <<coroVars, queueVars, batch, epollVars, level, remoteVars, now>>

\* epoll_wait fills evs[] and disarms what it reports (EPOLLONESHOT).
PollEvents ==
  /\ loop = "poll"
  /\ Reportable # {}
  /\ batch' \in {b \in SUBSET Reportable :
                   /\ Cardinality(b) <= MaxEvents
                   /\ b = Reportable \/ Cardinality(b) = MaxEvents}
  /\ mask' = [fd \in Fds |-> IF fd \in batch' THEN {} ELSE mask[fd]]
  /\ loop' = "events"
  /\ wake' = 0
  /\ UNCHANGED <<coroVars, queueVars, fireNow, registered, refused, cut, level,
                 remoteVars, now>>

\* n = 0 when the time is up.
PollTimeout ==
  loop = "poll" /\ Reportable = {} /\ wake <= now /\ GoFire("fireAfter")

\* n < 0: EINTR goes on, every other error ends run() and the thread.
PollFails(stage) ==
  /\ loop = "poll"
  /\ loop' = stage
  /\ wake' = 0
  /\ UNCHANGED <<coroVars, queueVars, batch, fireNow, epollVars, level, remoteVars, now>>

PollInterrupted == PollFails("dispatch")

PollError == PollFails("stopped")

WakeWaiter(fd, newMap, newReady) ==
  /\ loop = "events"
  /\ fd \in batch
  /\ batch' = batch \ {fd}
  /\ waitingMap' = newMap
  /\ IF waitingMap[fd] = None
       THEN UNCHANGED <<state, ready>>
       ELSE state' = [state EXCEPT ![waitingMap[fd]] = "READY"] /\ ready' = newReady
  /\ UNCHANGED <<waitFd, replaced, running, timers, loop, fireNow, wake, epollVars, level,
                 remoteVars, now>>

\* Mutants of HandleFd: the map entry is not erased; the coroutine is not
\* put into the ready queue.
HandleFdKeepEntry(fd) ==
  WakeWaiter(fd, waitingMap, Append(ready, waitingMap[fd]))

HandleFdNoPush(fd) ==
  WakeWaiter(fd, [waitingMap EXCEPT ![fd] = None], ready)

HandleFd(fd) ==
  WakeWaiter(fd, [waitingMap EXCEPT ![fd] = None], Append(ready, waitingMap[fd]))

\* Empty the pipe, and only then take the queue.
ReadPipe ==
  /\ loop = "events"
  /\ PipeFd \in batch
  /\ batch' = batch \ {PipeFd}
  /\ pipe' = 0
  /\ loop' = "drain"
  /\ UNCHANGED <<coroVars, queueVars, fireNow, wake, epollVars, level, postQueue,
                 poster, now>>

DrainAs(tasks, left, newReady) ==
  /\ loop = "drain"
  /\ loop' = "events"
  /\ state' = [c \in Coros |-> IF c \in Range(tasks) THEN "READY" ELSE state[c]]
  /\ ready' = newReady
  /\ postQueue' = left
  /\ UNCHANGED <<waitFd, replaced, running, waitingMap, timers, batch, fireNow, wake,
                 epollVars, level, pipe, poster, now>>

\* Mutants of DrainPostQueue: one task per wake-up; new tasks first.
DrainOne ==
  LET first == SubSeq(postQueue, 1, 1)
  IN  DrainAs(first, SubSeq(postQueue, 2, Len(postQueue)), ready \o first)

DrainToFront == DrainAs(postQueue, <<>>, postQueue \o ready)

\* Swap the queue out under post_mutex_ and create() a coroutine per task.
DrainPostQueue == DrainAs(postQueue, <<>>, ready \o postQueue)

EventsDone == loop = "events" /\ batch = {} /\ GoFire("fireAfter")

-----------------------------------------------------------------------------
(* ~Scheduler, once the thread has ended and MultiScheduler::run() has     *)
(* joined all others, so that nobody posts any more.                       *)

\* Mutant of Deleted: the timer heap is forgotten.
DeletedButTimers == Range(ready) \cup {waitingMap[fd] : fd \in Fds}

\* The coroutines that the three containers hold.
Deleted == DeletedButTimers \cup {e.co : e \in timers}

Destroy ==
  /\ loop = "stopped"
  /\ \A p \in Posters : poster[p] = "idle"
  /\ loop' = "destroyed"
  /\ state' = [c \in Coros |-> IF c \in Deleted THEN "freed" ELSE state[c]]
  /\ waitFd' = [c \in Coros |-> IF c \in Deleted THEN None ELSE waitFd[c]]
  /\ ready' = <<>>
  /\ waitingMap' = [fd \in Fds |-> None]
  /\ timers' = {}
  /\ registered' = {}
  /\ mask' = [fd \in Fds |-> {}]
  /\ pipe' = 0
  /\ postQueue' = <<>>
  /\ UNCHANGED <<running, batch, fireNow, wake, level, refused, cut, replaced, poster, now>>

-----------------------------------------------------------------------------

Poster(p) == WriteByte(p) \/ \E c \in Coros : PushTask(p, c)

Kernel == Tick \/ \E fd \in Fds, ev \in Events : PeerActivity(fd, ev)

\* The ways in which the running coroutine leaves the ready loop.
Leave(c) ==
  \/ \E fd \in Fds, ev \in Events : WaitEvent(c, fd, ev)
  \/ \E ms \in 1 .. MaxTime : Sleep(c, ms)
  \/ Finish(c)

Coroutine(c) ==
  \/ Leave(c)
  \/ Yield(c)
  \/ \E d \in Coros : Spawn(c, d)
  \/ \E fd \in Fds, ev \in Events : Consume(c, fd, ev)

Run ==
  \/ Resume \/ ReadyEmpty \/ FireTimer \/ FireDone
  \/ PollEvents \/ PollTimeout
  \/ \E fd \in Fds : HandleFd(fd)
  \/ ReadPipe \/ DrainPostQueue \/ EventsDone

Next ==
  \/ \E p \in Posters : Poster(p)
  \/ Kernel
  \/ \E c \in Coros : Coroutine(c)
  \/ Run
  \/ PollInterrupted \/ PollError
  \/ Destroy

Spec == Init /\ [][Next]_vars

(***************************************************************************)
(* Fairness.  The operating system keeps the threads and the clock going;  *)
(* no signal is needed for progress, an epoll_wait that could report is    *)
(* not interrupted for ever, and what did not fit into evs[] is reported   *)
(* before what comes later (the ready list of epoll is a queue).  The last *)
(* two conjuncts are about the code of the coroutines: one that has the    *)
(* thread gives it up, and (CooperativeSpec only) does not come back with  *)
(* yield() every time.                                                     *)
(***************************************************************************)
FairSpec ==
  /\ Spec
  /\ WF_vars(Run)
  /\ \A fd \in Fds \cup {PipeFd} : SF_vars(PollEvents /\ fd \in batch')
  /\ WF_vars(Tick)
  /\ \A p \in Posters : WF_vars(WriteByte(p))
  /\ \A c \in Coros : SF_vars(Leave(c) \/ Yield(c))

CooperativeSpec == FairSpec /\ \A c \in Coros : SF_vars(Leave(c))

-----------------------------------------------------------------------------
(* Safety.                                                                 *)

\* A Coroutine pointer is held in at most one place, once, and never after
\* the delete in run(): nothing is resumed twice or after it was freed, and
\* ~Scheduler, which deletes what the three containers hold, deletes nothing
\* twice.
OnePlace ==
  /\ IsInjective(ready)
  /\ \A c \in Range(ready) : state[c] = "READY"
  /\ running # None => state[running] = "RUNNING"
  /\ \A fd \in Fds : waitingMap[fd] # None =>
        /\ state[waitingMap[fd]] = "WAITING"
        /\ \A gd \in Fds : waitingMap[gd] = waitingMap[fd] => gd = fd
  /\ \A e \in timers :
        /\ state[e.co] = "WAITING"
        /\ \A fd \in Fds : waitingMap[fd] # e.co
        /\ \A f \in timers : f.co = e.co => f = e

\* Each descriptor is used by the code of one coroutine.
ExclusiveFds ==
  \A c, d \in Coros : c # d => Access[c] \cap Access[d] = {}

\* A suspended coroutine is reachable from the structures that wake it, unless
\* another one has come to wait for the same descriptor: the map has one entry.
NoLostCoroutine ==
  \A c \in Coros : state[c] = "WAITING" =>
    \/ \E fd \in Fds : waitingMap[fd] = c
    \/ \E e \in timers : e.co = c
    \/ c \in replaced

\* No lost wake-up but for two known ways: what waits for a descriptor has it
\* armed in epoll, or its report is in hand, or the ADD was refused, or another
\* coroutine that came back from waiting for the same descriptor removed it.
\* wait_event tests, registers and records in three steps, and a descriptor
\* that two coroutines wait for is there already (EEXIST) or has a map entry.
WaiterIsArmed ==
  \A fd \in Fds : waitingMap[fd] # None =>
    \/ fd \in registered /\ mask[fd] # {}
    \/ fd \in batch
    \/ fd \in refused \cup cut

\* No lost post: a task left in the queue always has a byte in the pipe, a
\* poster about to write one, or a drain that comes after the read.  Needs the
\* push before the write in post() and the read before the swap in run().
NoLostPost ==
  postQueue # <<>> =>
    pipe > 0 \/ loop = "drain" \/ \E p \in Posters : poster[p] = "write"

\* sleep(ms): an entry leaves the heap when it is due, and no entry that is
\* due earlier stays behind, as long as there is a Scheduler.
SleepHonoured ==
  [][loop' # "destroyed" =>
       \A e \in timers \ timers' :
         e.expire <= now /\ \A f \in timers' : e.expire <= f.expire]_vars

\* epoll_wait does not sleep past a timer, although its timeout is the time to
\* the timer cut to an int: a wait that comes out wrong is always too short.
NoOversleep ==
  loop = "poll" => \A e \in timers : wake <= e.expire \/ wake <= now

\* ~Scheduler leaves no Coroutine object behind: whatever was created and did
\* not end is in one of the three containers that it goes through, or has lost
\* its map entry to another one.
NothingLeaks ==
  loop = "destroyed" => \A c \in Coros \ replaced : state[c] \in {"none", "freed"}

-----------------------------------------------------------------------------
(* Liveness, until an error of epoll_wait ends run().                      *)

Stopped == loop \in {"stopped", "destroyed"}

\* A closure given to post() becomes a coroutine and runs.
PostedRuns ==
  \A c \in Coros : c \in Range(postQueue) ~> running = c \/ Stopped

\* A sleeper whose time has come runs.
SleeperRuns ==
  \A c \in Coros : (\E e \in timers : e.co = c) ~> running = c \/ Stopped

\* c waits for fd, and there is nothing to report: the events it is armed for are
\* not pending, or were taken by another coroutine that uses fd.
Quiet(c, fd) ==
  waitingMap[fd] = c /\ mask[fd] # {} /\ mask[fd] \cap level[fd] = {}

\* A coroutine that waits for a descriptor with an event pending runs, unless it
\* is not armed for the known reasons, or another one takes the event or comes to
\* wait for the same descriptor.
WaiterRuns ==
  \A c \in Coros, fd \in Fds :
    waitingMap[fd] = c /\ fd \notin refused \cup cut /\ ~ Quiet(c, fd)
    ~> running = c \/ Quiet(c, fd) \/ c \in replaced \/ fd \in cut \/ Stopped

\* The Scheduler implements the Executor: tasks start in the order in which
\* post(), create(), yield() and the events put them in line.
Exec == INSTANCE Executor
  WITH Tasks <- Coros, inbox <- postQueue, line <- ready, cur <- running,
       blocked <- {c \in Coros : state[c] = "WAITING"},
       done <- {c \in Coros : state[c] = "freed"}

ExecutorSafety == Exec!Spec

\* The loop of the README's flow chart, which goes on while there is a ready
\* task, an I/O wait or a timer.  The code does not keep it: run() polls for ever.
LoopCondition ==
  loop = "poll" =>
    ready # <<>> \/ (\E fd \in Fds : waitingMap[fd] # None) \/ timers # {}
=============================================================================
