------------------------------ MODULE Channel ------------------------------
(***************************************************************************)
(* Channel<T> of core/coroutine.h on one scheduler.  The scheduler is      *)
(* reduced to its ready queue and running coroutine, which send() and      *)
(* recv() manipulate as friends of Scheduler; the coroutines send and      *)
(* receive on the channels that Senders and Receivers give them, and yield *)
(* in between.                                                             *)
(***************************************************************************)
EXTENDS Integers, FiniteSets, Sequences, SequencesExt, Functions

CONSTANTS
  Coros,
  Channels,
  Senders,    \* Senders[ch]: the coroutines whose code sends on ch
  Receivers,  \* Receivers[ch]: the coroutines whose code receives on ch
  None,       \* the null pointer; T{}
  MaxSends    \* bound: values sent on a channel

ASSUME ChannelAssumption ==
  /\ Senders \in [Channels -> SUBSET Coros]
  /\ Receivers \in [Channels -> SUBSET Coros]
  /\ IsFiniteSet(Coros)
  /\ None \notin Coros
  /\ None \notin Coros \X Int
  /\ MaxSends \in Nat

VARIABLES
  ready,    \* ready_queue
  running,  \* running_coro
  frame,    \* where a coroutine is: in its own code, or in send() or recv()
  chan,     \* the members of each Channel
  result,   \* the local `result' of recv(), where recv_slot_ points
  sends,    \* per channel: how often send() was called
  taken     \* per channel: what the calls of recv() returned, in that order

vars == <<ready, running, frame, chan, result, sends, taken>>

Values == Coros \X (1 .. MaxSends)
Frames == [at : {"own"}] \cup [at : {"sendYield", "sendWait", "recvWait"}, ch : Channels]
Own == [at |-> "own"]
Slots == [sendWaiter : Coros \cup {None}, sendVal : Values \cup {None},
          recvWaiter : Coros \cup {None}, recvSlot : Coros \cup {None}]

TypeOK ==
  /\ ready \in Seq(Coros)
  /\ running \in Coros \cup {None}
  /\ frame \in [Coros -> Frames]
  /\ chan \in [Channels -> Slots]
  /\ result \in [Coros -> Values \cup {None}]
  /\ sends \in [Channels -> 0 .. MaxSends]
  /\ taken \in [Channels -> Seq(Values \cup {None})]

\* create() was called for the coroutines in some order.
Orders == {order \in [1 .. Cardinality(Coros) -> Coros] : Range(order) = Coros}

Init ==
  /\ ready \in Orders
  /\ running = None
  /\ frame = [c \in Coros |-> Own]
  /\ chan = [ch \in Channels |-> [sendWaiter |-> None, sendVal |-> None,
                                  recvWaiter |-> None, recvSlot |-> None]]
  /\ result = [c \in Coros |-> None]
  /\ sends = [ch \in Channels |-> 0]
  /\ taken = [ch \in Channels |-> <<>>]

InOwnCode(c) == running = c /\ frame[c] = Own

-----------------------------------------------------------------------------
(* send()                                                                  *)

NextValue(c, ch) == <<c, sends[ch] + 1>>

MaySend(c, ch) ==
  /\ InOwnCode(c)
  /\ c \in Senders[ch]
  /\ sends[ch] < MaxSends

HandOver(c, ch, inLine) ==
  /\ MaySend(c, ch)
  /\ chan[ch].recvWaiter # None
  /\ result' = [result EXCEPT ![chan[ch].recvSlot] = NextValue(c, ch)]
  /\ chan' = [chan EXCEPT ![ch].recvWaiter = None, ![ch].recvSlot = None]
  /\ ready' = ready \o inLine
  /\ frame' = [frame EXCEPT ![c] = [at |-> "sendYield", ch |-> ch]]
  /\ running' = None
  /\ sends' = [sends EXCEPT ![ch] = @ + 1]
  /\ UNCHANGED taken

\* Mutant of SendToWaiter: the sender is queued before the receiver.
SendToWaiterAfter(c, ch) == HandOver(c, ch, <<c, chan[ch].recvWaiter>>)

\* A receiver waits: write into its frame, queue it, and yield behind it.
SendToWaiter(c, ch) == HandOver(c, ch, <<chan[ch].recvWaiter, c>>)

\* Nobody waits: leave the value and the pointer in the channel and suspend.
SendAndWait(c, ch) ==
  /\ MaySend(c, ch)
  /\ chan[ch].recvWaiter = None
  /\ chan' = [chan EXCEPT ![ch].sendVal = NextValue(c, ch), ![ch].sendWaiter = c]
  /\ frame' = [frame EXCEPT ![c] = [at |-> "sendWait", ch |-> ch]]
  /\ running' = None
  /\ sends' = [sends EXCEPT ![ch] = @ + 1]
  /\ UNCHANGED <<ready, result, taken>>

-----------------------------------------------------------------------------
(* recv()                                                                  *)

Take(ch, v) == taken' = [taken EXCEPT ![ch] = Append(@, v)]

TakeOver(c, ch, inLine) ==
  /\ InOwnCode(c)
  /\ c \in Receivers[ch]
  /\ chan[ch].sendWaiter # None
  /\ Take(ch, chan[ch].sendVal)
  /\ chan' = [chan EXCEPT ![ch].sendWaiter = None]
  /\ ready' = ready \o inLine
  /\ UNCHANGED <<running, frame, result, sends>>

\* Mutant of RecvFromWaiter: the sender is not put back into the ready queue.
RecvLeavesSender(c, ch) == TakeOver(c, ch, <<>>)

\* A sender waits: move its value out, queue it, and return without a switch.
RecvFromWaiter(c, ch) == TakeOver(c, ch, <<chan[ch].sendWaiter>>)

Await(c, ch) ==
  /\ InOwnCode(c)
  /\ c \in Receivers[ch]
  /\ result' = [result EXCEPT ![c] = None]
  /\ chan' = [chan EXCEPT ![ch].recvSlot = c, ![ch].recvWaiter = c]
  /\ frame' = [frame EXCEPT ![c] = [at |-> "recvWait", ch |-> ch]]
  /\ running' = None
  /\ UNCHANGED <<ready, sends, taken>>

\* Mutant of RecvAndWait: it does not look for a sender first.
RecvWaitsAnyway(c, ch) == Await(c, ch)

\* Nobody waits: leave the address of the result and suspend.
RecvAndWait(c, ch) == chan[ch].sendWaiter = None /\ Await(c, ch)

-----------------------------------------------------------------------------
(* The scheduler.                                                          *)

Yield(c) ==
  /\ InOwnCode(c)
  /\ ready' = Append(ready, c)
  /\ running' = None
  /\ UNCHANGED <<frame, chan, result, sends, taken>>

\* The switch returns into send() or recv(), or into the coroutine's own code.
Resume ==
  /\ running = None
  /\ ready # <<>>
  /\ running' = Head(ready)
  /\ ready' = Tail(ready)
  /\ UNCHANGED <<frame, chan, result, sends, taken>>

\* Whatever follows the switch in send() and recv(): only recv() has a result.
Return(c) ==
  /\ running = c
  /\ frame[c] # Own
  /\ frame' = [frame EXCEPT ![c] = Own]
  /\ IF frame[c].at = "recvWait" THEN Take(frame[c].ch, result[c]) ELSE UNCHANGED taken
  /\ UNCHANGED <<ready, running, chan, result, sends>>

-----------------------------------------------------------------------------

Send(c) == \E ch \in Channels : SendToWaiter(c, ch) \/ SendAndWait(c, ch)
Recv(c) == \E ch \in Channels : RecvFromWaiter(c, ch) \/ RecvAndWait(c, ch)

Next ==
  \/ Resume
  \/ \E c \in Coros : Send(c) \/ Recv(c) \/ Yield(c) \/ Return(c)

Spec == Init /\ [][Next]_vars

\* run() goes on, a coroutine that has the thread gives it up, and one that
\* receives on a channel does not put it off for ever.
FairSpec ==
  /\ Spec
  /\ WF_vars(Resume)
  /\ \A c \in Coros :
       /\ WF_vars(Return(c)) /\ SF_vars(Send(c) \/ Recv(c) \/ Yield(c))
       /\ \A ch \in Channels : SF_vars(RecvFromWaiter(c, ch) \/ RecvAndWait(c, ch))

-----------------------------------------------------------------------------

\* At most one coroutine at each end of a channel.
SingleEnds ==
  \A ch \in Channels :
    /\ \A c, d \in Senders[ch] : c = d
    /\ \A c, d \in Receivers[ch] : c = d

\* A coroutine that send() or recv() suspended can be found again: it is ready,
\* it runs, or the channel it waits on holds the pointer to it.
NobodyStranded ==
  \A c \in Coros :
    \/ c \in Range(ready) \cup {running}
    \/ frame[c].at = "sendWait" /\ chan[frame[c].ch].sendWaiter = c
    \/ frame[c].at = "recvWait" /\ chan[frame[c].ch].recvWaiter = c

\* send() returns only after a recv() has returned its value, which is what
\* makes the channel unbuffered; on the fast path only because the receiver is
\* queued before the sender.
SyncOnReturn ==
  [][\A c \in Coros :
       frame[c].at \in {"sendYield", "sendWait"} /\ frame'[c] = Own =>
         <<c, sends[frame[c].ch]>> \in Range(taken[frame[c].ch])]_vars

\* A value given to send() is received, and its sender comes back, while the
\* other end of the channel goes on receiving.
Delivered ==
  \A c \in Coros, ch \in Channels :
    (frame[c].at = "sendWait" /\ frame[c].ch = ch /\ Receivers[ch] # {})
      ~> (frame[c] = Own)

\* Who waits in front of a channel, and which values have passed it: those that
\* recv() returned, and the one that is in the frame of a receiver already.
Written(ch) ==
  {c \in Coros : frame[c].at = "recvWait" /\ frame[c].ch = ch
                   /\ chan[ch].recvWaiter # c /\ result[c] # None}

SendQueue ==
  [ch \in Channels |-> IF chan[ch].sendWaiter = None THEN <<>>
                       ELSE <<[co |-> chan[ch].sendWaiter, val |-> chan[ch].sendVal]>>]

RecvQueue ==
  [ch \in Channels |-> IF chan[ch].recvWaiter = None THEN <<>> ELSE <<chan[ch].recvWaiter>>]

Passed ==
  [ch \in Channels |-> taken[ch] \o SetToSeq({result[c] : c \in Written(ch)})]

Go == INSTANCE Rendezvous WITH sendq <- SendQueue, recvq <- RecvQueue, passed <- Passed

\* The Channel implements the Rendezvous, an unbuffered channel with a queue at
\* each end: the i-th recv() returns the value of the i-th send(), none is lost,
\* repeated or overtaken, recv() never returns the T{} of a slot nobody wrote,
\* and a sender and a receiver never both wait.
RendezvousSpec == Go!Spec
=============================================================================
