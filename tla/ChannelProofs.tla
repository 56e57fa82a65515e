--------------------------- MODULE ChannelProofs ---------------------------
(***************************************************************************)
(* Theorems about Channel for any number of coroutines and channels.       *)
(*                                                                         *)
(* A channel has one slot for a waiting sender and one for a waiting       *)
(* receiver, so NobodyStranded needs SingleEnds.  It is inductive once a   *)
(* slot is known to hold a coroutine of its own end: whoever overwrites    *)
(* the slot is then the coroutine that was in it.                          *)
(*                                                                         *)
(* SyncOnReturn follows from Sync, which says where the value of every     *)
(* suspended sender is.  Sync is inductive because a coroutine is in one   *)
(* place only (Once), so that a receiver queued before its sender also     *)
(* runs before it.                                                         *)
(*                                                                         *)
(* RendezvousSpec: send() and recv() are the abstract steps, what follows  *)
(* the switch is a stutter.  It needs SingleEnds, so that a value at most  *)
(* is in the frame of a receiver (PassedRight), and that a receiver which  *)
(* the channel does not point to any more has a value (Linked).            *)
(***************************************************************************)
EXTENDS Channel, FiniteSetTheorems, SequenceTheorems, TLAPS

OwnSlots ==
  \A ch \in Channels :
    /\ chan[ch].sendWaiter \in Senders[ch] \cup {None}
    /\ chan[ch].recvWaiter \in Receivers[ch] \cup {None}

-----------------------------------------------------------------------------
(* The ready queue.                                                        *)

LEMMA RangeAppended ==
  ASSUME NEW S, NEW q \in Seq(S), NEW v \in S
  PROVE  Range(Append(q, v)) = Range(q) \cup {v}
<1>1. /\ Append(q, v) \in Seq(S)
      /\ Len(Append(q, v)) = Len(q) + 1
      /\ \A i \in 1 .. Len(q) : Append(q, v)[i] = q[i]
      /\ Append(q, v)[Len(q) + 1] = v
  BY AppendProperties
<1>2. /\ DOMAIN q = 1 .. Len(q) /\ Len(q) \in Nat
      /\ DOMAIN Append(q, v) = 1 .. Len(q) + 1
  BY <1>1, LenProperties
<1>3. QED
  BY <1>1, <1>2 DEF Range

LEMMA RangeAppend ==
  ASSUME NEW q \in Seq(Coros), NEW c \in Coros
  PROVE  Append(q, c) \in Seq(Coros) /\ Range(Append(q, c)) = Range(q) \cup {c}
BY RangeAppended, AppendProperties

LEMMA RangeTail ==
  ASSUME NEW q \in Seq(Coros), q # <<>>
  PROVE  /\ Head(q) \in Coros /\ Tail(q) \in Seq(Coros)
         /\ \A c \in Range(q) : c = Head(q) \/ c \in Range(Tail(q))
<1>1. /\ Head(q) \in Coros /\ Tail(q) \in Seq(Coros) /\ Len(Tail(q)) = Len(q) - 1
      /\ \A i \in 1 .. Len(Tail(q)) : Tail(q)[i] = q[i + 1]
  BY HeadTailProperties
<1>2. /\ DOMAIN q = 1 .. Len(q) /\ Len(q) \in Nat \ {0}
      /\ DOMAIN Tail(q) = 1 .. Len(Tail(q))
  BY <1>1, EmptySeq, LenProperties
<1>3. Head(q) = q[1]
  OBVIOUS
<1>4. \A i \in DOMAIN q : i = 1 \/ (i - 1 \in DOMAIN Tail(q) /\ Tail(q)[i - 1] = q[i])
  BY <1>1, <1>2
<1>5. ASSUME NEW c \in Range(q), c # Head(q) PROVE c \in Range(Tail(q))
  <2>1. PICK i \in DOMAIN q : q[i] = c
    BY DEF Range
  <2>2. i - 1 \in DOMAIN Tail(q) /\ Tail(q)[i - 1] = c
    BY <1>3, <1>4, <1>5, <2>1
  <2>3. QED
    BY <2>2 DEF Range
<1>6. QED
  BY <1>1, <1>5

\* The queue behind a send: the receiver, then the sender.
LEMMA RangeTwo ==
  ASSUME NEW q \in Seq(Coros), NEW c \in Coros, NEW d \in Coros
  PROVE  q \o <<c, d>> \in Seq(Coros) /\ Range(q \o <<c, d>>) = Range(q) \cup {c, d}
<1>1. q \o <<c, d>> = Append(Append(q, c), d)
  OBVIOUS
<1>2. Append(q, c) \in Seq(Coros) /\ Range(Append(q, c)) = Range(q) \cup {c}
  BY RangeAppend
<1>3. /\ Append(Append(q, c), d) \in Seq(Coros)
      /\ Range(Append(Append(q, c), d)) = Range(Append(q, c)) \cup {d}
  BY <1>2, RangeAppend, Zenon
<1>4. QED
  BY <1>1, <1>2, <1>3

LEMMA RangeOne ==
  ASSUME NEW q \in Seq(Coros), NEW c \in Coros
  PROVE  q \o <<c>> \in Seq(Coros) /\ Range(q \o <<c>>) = Range(q) \cup {c}
<1>1. q \o <<c>> = Append(q, c)
  OBVIOUS
<1>2. QED
  BY <1>1, RangeAppend

-----------------------------------------------------------------------------
(* Type correctness.                                                       *)

Typed == TypeOK /\ OwnSlots

LEMMA InitTyped == Init => Typed /\ Range(ready) = Coros
<1> SUFFICES ASSUME Init PROVE Typed /\ Range(ready) = Coros
  OBVIOUS
<1>1. Cardinality(Coros) \in Nat
  BY FS_CardinalityType, ChannelAssumption
<1>2. ready \in Seq(Coros) /\ Range(ready) = Coros
  BY <1>1 DEF Init, Orders
<1>3. QED
  BY <1>2, ChannelAssumption DEF Init, Typed, TypeOK, OwnSlots, Frames, Own, Slots

LEMMA NextTyped == Typed /\ [Next]_vars => Typed'
<1> SUFFICES ASSUME Typed, [Next]_vars PROVE Typed'
  OBVIOUS
<1> USE ChannelAssumption DEF Typed
<1>1. ASSUME NEW c \in Coros, NEW ch \in Channels, SendToWaiter(c, ch) PROVE Typed'
  <2>1. NextValue(c, ch) \in Values /\ sends[ch] + 1 \in 0 .. MaxSends
    BY <1>1 DEF SendToWaiter, HandOver, MaySend, NextValue, Values, TypeOK
  <2>2. chan[ch].recvWaiter \in Coros
    BY <1>1 DEF SendToWaiter, HandOver, TypeOK, Slots
  <2>3. ready' \in Seq(Coros)
    BY <1>1, <2>2, RangeTwo DEF SendToWaiter, HandOver, TypeOK
  <2>4. [at |-> "sendYield", ch |-> ch] \in Frames
    BY DEF Frames
  <2>5. TypeOK'
    BY <1>1, <2>1, <2>3, <2>4 DEF SendToWaiter, HandOver, TypeOK, Slots
  <2>6. OwnSlots'
    BY <1>1 DEF SendToWaiter, HandOver, TypeOK, OwnSlots
  <2>7. QED
    BY <2>5, <2>6
<1>2. ASSUME NEW c \in Coros, NEW ch \in Channels, SendAndWait(c, ch) PROVE Typed'
  <2>1. NextValue(c, ch) \in Values /\ sends[ch] + 1 \in 0 .. MaxSends
    BY <1>2 DEF SendAndWait, MaySend, NextValue, Values, TypeOK
  <2>2. [at |-> "sendWait", ch |-> ch] \in Frames
    BY DEF Frames
  <2>3. chan' \in [Channels -> Slots]
    <3>1. DOMAIN chan' = Channels /\ \A h \in Channels : h # ch => chan'[h] = chan[h]
      BY <1>2 DEF SendAndWait, TypeOK
    <3>2. chan'[ch] \in Slots
      <4>1. chan'[ch] = [chan[ch] EXCEPT !.sendVal = NextValue(c, ch), !.sendWaiter = c]
        BY <1>2 DEF SendAndWait, TypeOK
      <4>2. chan[ch] \in Slots
        BY DEF TypeOK
      <4>3. QED
        BY <2>1, <4>1, <4>2 DEF Slots
    <3>3. chan' = [h \in Channels |-> chan'[h]]
      BY <1>2, <3>1 DEF SendAndWait
    <3>4. QED
      BY <3>1, <3>2, <3>3 DEF TypeOK
  <2>4. TypeOK'
    BY <1>2, <2>1, <2>2, <2>3 DEF SendAndWait, TypeOK
  <2>5. OwnSlots'
    BY <1>2 DEF SendAndWait, MaySend, TypeOK, OwnSlots
  <2>6. QED
    BY <2>4, <2>5
<1>3. ASSUME NEW c \in Coros, NEW ch \in Channels, RecvFromWaiter(c, ch) PROVE Typed'
  <2>1. chan[ch].sendWaiter \in Coros /\ chan[ch].sendVal \in Values \cup {None}
    BY <1>3 DEF RecvFromWaiter, TakeOver, TypeOK, Slots
  <2>2. ready' \in Seq(Coros)
    BY <1>3, <2>1, RangeOne DEF RecvFromWaiter, TakeOver, TypeOK
  <2>3. Append(taken[ch], chan[ch].sendVal) \in Seq(Values \cup {None})
    BY <2>1, AppendProperties DEF TypeOK
  <2>4. taken' \in [Channels -> Seq(Values \cup {None})]
    BY <1>3, <2>3 DEF RecvFromWaiter, TakeOver, Take, TypeOK
  <2>5. TypeOK'
    BY <1>3, <2>2, <2>4 DEF RecvFromWaiter, TakeOver, TypeOK, Slots
  <2>6. OwnSlots'
    BY <1>3 DEF RecvFromWaiter, TakeOver, TypeOK, OwnSlots
  <2>7. QED
    BY <2>5, <2>6
<1>4. ASSUME NEW c \in Coros, NEW ch \in Channels, RecvAndWait(c, ch) PROVE Typed'
  <2>1. [at |-> "recvWait", ch |-> ch] \in Frames
    BY DEF Frames
  <2>2. chan' \in [Channels -> Slots]
    <3>1. DOMAIN chan' = Channels /\ \A h \in Channels : h # ch => chan'[h] = chan[h]
      BY <1>4 DEF RecvAndWait, Await, TypeOK
    <3>2. chan'[ch] \in Slots
      <4>1. chan'[ch] = [chan[ch] EXCEPT !.recvSlot = c, !.recvWaiter = c]
        BY <1>4 DEF RecvAndWait, Await, TypeOK
      <4>2. chan[ch] \in Slots
        BY DEF TypeOK
      <4>3. QED
        BY <4>1, <4>2 DEF Slots
    <3>3. chan' = [h \in Channels |-> chan'[h]]
      BY <1>4, <3>1 DEF RecvAndWait, Await
    <3>4. QED
      BY <3>1, <3>2, <3>3 DEF TypeOK
  <2>3. TypeOK'
    BY <1>4, <2>1, <2>2 DEF RecvAndWait, Await, TypeOK
  <2>4. OwnSlots'
    BY <1>4 DEF RecvAndWait, Await, TypeOK, OwnSlots
  <2>5. QED
    BY <2>3, <2>4
<1>5. ASSUME NEW c \in Coros, Yield(c) PROVE Typed'
  <2>1. ready' \in Seq(Coros)
    BY <1>5, RangeAppend DEF Yield, TypeOK
  <2>2. QED
    BY <1>5, <2>1 DEF Yield, TypeOK, OwnSlots
<1>6. CASE Resume
  <2>1. Head(ready) \in Coros /\ Tail(ready) \in Seq(Coros)
    BY <1>6, RangeTail DEF Resume, TypeOK
  <2>2. QED
    BY <1>6, <2>1 DEF Resume, TypeOK, OwnSlots
<1>7. ASSUME NEW c \in Coros, Return(c) PROVE Typed'
  <2>1. frame' \in [Coros -> Frames]
    BY <1>7 DEF Return, TypeOK, Frames, Own, Slots
  <2>2. taken' \in [Channels -> Seq(Values \cup {None})]
    <3>1. CASE frame[c].at = "recvWait"
      <4>1. frame[c].ch \in Channels /\ result[c] \in Values \cup {None}
        BY <3>1 DEF TypeOK, Frames, Slots
      <4>2. Append(taken[frame[c].ch], result[c]) \in Seq(Values \cup {None})
        BY <4>1, AppendProperties DEF TypeOK
      <4>3. QED
        BY <1>7, <3>1, <4>2 DEF Return, Take, TypeOK
    <3>2. CASE frame[c].at # "recvWait"
      BY <1>7, <3>2 DEF Return, TypeOK
    <3>3. QED
      BY <3>1, <3>2
  <2>3. QED
    BY <1>7, <2>1, <2>2 DEF Return, TypeOK, OwnSlots
<1>8. CASE UNCHANGED vars
  BY <1>8 DEF vars, TypeOK, OwnSlots
<1>9. QED
  BY <1>1, <1>2, <1>3, <1>4, <1>5, <1>6, <1>7, <1>8 DEF Next, Send, Recv

LEMMA AlwaysTyped == Spec => []Typed
<1>1. Init => Typed
  BY InitTyped
<1>2. QED
  BY <1>1, NextTyped, PTL DEF Spec

\* send(), recv(), yield() and run() keep the types of the queue, the slots, the
\* frames and the values, whatever the coroutines do.
THEOREM TypeCorrect == Spec => []TypeOK
  BY AlwaysTyped, PTL DEF Typed

-----------------------------------------------------------------------------
(* Nobody is stranded.                                                     *)

\* A coroutine that waits at a slot, or nowhere.
Reachable(c) ==
  \/ c \in Range(ready) \cup {running}
  \/ frame[c].at = "sendWait" /\ chan[frame[c].ch].sendWaiter = c
  \/ frame[c].at = "recvWait" /\ chan[frame[c].ch].recvWaiter = c

LEMMA NextStranded ==
  ASSUME SingleEnds, Typed, NobodyStranded, [Next]_vars
  PROVE  NobodyStranded'
<1> SUFFICES ASSUME NEW e \in Coros PROVE Reachable(e)'
  BY DEF NobodyStranded, Reachable
<1> USE ChannelAssumption DEF Typed
<1>0. Reachable(e) /\ frame[e] \in Frames /\ ready \in Seq(Coros)
  BY DEF NobodyStranded, Reachable, TypeOK
<1>1. ASSUME NEW c \in Coros, NEW ch \in Channels, SendToWaiter(c, ch) PROVE Reachable(e)'
  <2> DEFINE r == chan[ch].recvWaiter
  <2>1. r \in Coros
    BY <1>1 DEF SendToWaiter, HandOver, TypeOK, Slots
  <2>2. Range(ready') = Range(ready) \cup {r, c}
    BY <1>0, <1>1, <2>1, RangeTwo DEF SendToWaiter, HandOver
  <2>3. CASE e \in Range(ready) \cup {r, c}
    BY <2>2, <2>3 DEF Reachable
  <2>4. CASE e \notin Range(ready) \cup {r, c}
    <3>1. running = c /\ frame'[e] = frame[e]
      BY <1>1, <2>4 DEF SendToWaiter, HandOver, MaySend, InOwnCode, TypeOK
    <3>2. /\ \A h \in Channels : chan'[h].sendWaiter = chan[h].sendWaiter
          /\ \A h \in Channels : chan[h].recvWaiter = e => chan'[h].recvWaiter = e
      BY <1>1, <2>4 DEF SendToWaiter, HandOver, TypeOK
    <3>3. QED
      BY <1>0, <2>4, <3>1, <3>2 DEF Reachable, Frames
  <2>5. QED
    BY <2>3, <2>4
<1>2. ASSUME NEW c \in Coros, NEW ch \in Channels, SendAndWait(c, ch) PROVE Reachable(e)'
  <2>1. CASE e = c
    BY <1>2, <2>1 DEF SendAndWait, Reachable, TypeOK
  <2>2. CASE e # c
    <3>1. chan[ch].sendWaiter # e
      BY <1>2, <2>2 DEF SendAndWait, MaySend, OwnSlots, SingleEnds
    <3>2. running = c /\ frame'[e] = frame[e] /\ ready' = ready
      BY <1>2, <2>2 DEF SendAndWait, MaySend, InOwnCode, TypeOK
    <3>3. /\ \A h \in Channels : chan[h].sendWaiter = e => chan'[h].sendWaiter = e
          /\ \A h \in Channels : chan'[h].recvWaiter = chan[h].recvWaiter
      BY <1>2, <3>1 DEF SendAndWait, TypeOK
    <3>4. QED
      BY <1>0, <2>2, <3>2, <3>3 DEF Reachable, Frames
  <2>3. QED
    BY <2>1, <2>2
<1>3. ASSUME NEW c \in Coros, NEW ch \in Channels, RecvFromWaiter(c, ch) PROVE Reachable(e)'
  <2> DEFINE s == chan[ch].sendWaiter
  <2>1. s \in Coros
    BY <1>3 DEF RecvFromWaiter, TakeOver, TypeOK, Slots
  <2>2. Range(ready') = Range(ready) \cup {s}
    BY <1>0, <1>3, <2>1, RangeOne DEF RecvFromWaiter, TakeOver
  <2>3. CASE e = s
    BY <2>2, <2>3 DEF Reachable
  <2>4. CASE e # s
    <3>1. /\ \A h \in Channels : chan[h].sendWaiter = e => chan'[h].sendWaiter = e
          /\ \A h \in Channels : chan'[h].recvWaiter = chan[h].recvWaiter
      BY <1>3, <2>4 DEF RecvFromWaiter, TakeOver, TypeOK
    <3>2. running' = running /\ frame' = frame
      BY <1>3 DEF RecvFromWaiter, TakeOver
    <3>3. QED
      BY <1>0, <2>2, <3>1, <3>2 DEF Reachable, Frames
  <2>5. QED
    BY <2>3, <2>4
<1>4. ASSUME NEW c \in Coros, NEW ch \in Channels, RecvAndWait(c, ch) PROVE Reachable(e)'
  <2>1. CASE e = c
    BY <1>4, <2>1 DEF RecvAndWait, Await, Reachable, TypeOK
  <2>2. CASE e # c
    <3>1. chan[ch].recvWaiter # e
      BY <1>4, <2>2 DEF RecvAndWait, Await, OwnSlots, SingleEnds
    <3>2. running = c /\ frame'[e] = frame[e] /\ ready' = ready
      BY <1>4, <2>2 DEF RecvAndWait, Await, InOwnCode, TypeOK
    <3>3. /\ \A h \in Channels : chan'[h].sendWaiter = chan[h].sendWaiter
          /\ \A h \in Channels : chan[h].recvWaiter = e => chan'[h].recvWaiter = e
      BY <1>4, <3>1 DEF RecvAndWait, Await, TypeOK
    <3>4. QED
      BY <1>0, <2>2, <3>2, <3>3 DEF Reachable, Frames
  <2>3. QED
    BY <2>1, <2>2
<1>5. ASSUME NEW c \in Coros, Yield(c) PROVE Reachable(e)'
  <2>1. Range(ready') = Range(ready) \cup {c}
    BY <1>0, <1>5, RangeAppend DEF Yield
  <2>2. QED
    BY <1>0, <1>5, <2>1 DEF Yield, InOwnCode, Reachable
<1>6. CASE Resume
  <2>1. e \in Range(ready) => e = running' \/ e \in Range(ready')
    BY <1>0, <1>6, RangeTail DEF Resume
  <2>2. e # running
    BY <1>6 DEF Resume
  <2>3. QED
    BY <1>0, <1>6, <2>1, <2>2 DEF Resume, Reachable
<1>7. ASSUME NEW c \in Coros, Return(c) PROVE Reachable(e)'
  BY <1>0, <1>7 DEF Return, Reachable, TypeOK
<1>8. CASE UNCHANGED vars
  BY <1>0, <1>8 DEF vars, Reachable
<1>9. QED
  BY <1>1, <1>2, <1>3, <1>4, <1>5, <1>6, <1>7, <1>8 DEF Next, Send, Recv

\* Between one sender and one receiver per channel, no coroutine that send() or
\* recv() suspended is forgotten: the one slot at each end is enough.
THEOREM NobodyStrandedAlways == ASSUME SingleEnds PROVE Spec => []NobodyStranded
<1>1. Init => NobodyStranded
  BY InitTyped DEF NobodyStranded
<1>2. Typed /\ NobodyStranded /\ [Next]_vars => NobodyStranded'
  BY NextStranded
<1>3. QED
  BY <1>1, <1>2, AlwaysTyped, PTL DEF Spec

-----------------------------------------------------------------------------
(* send() returns after the recv() that took its value.                    *)

OnceAt(ch) ==
  /\ chan[ch].sendWaiter # None =>
       /\ chan[ch].sendWaiter \notin Range(ready) \cup {running}
       /\ frame[chan[ch].sendWaiter] = [at |-> "sendWait", ch |-> ch]
  /\ chan[ch].recvWaiter # None =>
       /\ chan[ch].recvWaiter \notin Range(ready) \cup {running}
       /\ frame[chan[ch].recvWaiter] = [at |-> "recvWait", ch |-> ch]
       /\ chan[ch].recvSlot = chan[ch].recvWaiter

\* A coroutine is in one place: once in the ready queue, on the thread, or
\* suspended at the slot that its frame tells.
Once ==
  /\ IsInjective(ready)
  /\ running \notin Range(ready)
  /\ \A ch \in Channels : OnceAt(ch)

\* r is queued before c.
Before(q, r, c) == \E i, j \in DOMAIN q : i < j /\ q[i] = r /\ q[j] = c

\* The receiver whom c has given its value has it and comes first.
Handed(c, ch) ==
  \E r \in Coros :
    /\ frame[r] = [at |-> "recvWait", ch |-> ch]
    /\ result[r] = <<c, sends[ch]>>
    /\ running = r \/ Before(ready, r, c)

Taken(c, ch) == <<c, sends[ch]>> \in Range(taken[ch])

\* A sender that send() suspended: its value is taken, or in the hands of a
\* receiver that runs first, or in the slot next to its own pointer.
SyncAt(c, ch) ==
  /\ frame[c] = [at |-> "sendYield", ch |-> ch] =>
       c \in Senders[ch] /\ (Taken(c, ch) \/ Handed(c, ch))
  /\ frame[c] = [at |-> "sendWait", ch |-> ch] =>
       /\ c \in Senders[ch]
       /\ \/ Taken(c, ch)
          \/ chan[ch].sendWaiter = c /\ chan[ch].sendVal = <<c, sends[ch]>>

Sync == \A c \in Coros, ch \in Channels : SyncAt(c, ch)

LEMMA QueueGrows ==
  ASSUME NEW q \in Seq(Coros), NEW c \in Coros
  PROVE  /\ c \notin Range(q) /\ IsInjective(q) => IsInjective(Append(q, c))
         /\ \A r, d \in Coros : Before(q, r, d) => Before(Append(q, c), r, d)
         /\ \A r \in Range(q) : Before(Append(q, c), r, c)
<1>1. /\ Append(q, c) \in Seq(Coros)
      /\ Len(Append(q, c)) = Len(q) + 1
      /\ \A i \in 1 .. Len(q) : Append(q, c)[i] = q[i]
      /\ Append(q, c)[Len(q) + 1] = c
  BY AppendProperties
<1>2. /\ DOMAIN q = 1 .. Len(q) /\ Len(q) \in Nat
      /\ DOMAIN Append(q, c) = 1 .. Len(q) + 1
  BY <1>1, LenProperties
<1>3. c \notin Range(q) /\ IsInjective(q) => IsInjective(Append(q, c))
  BY <1>1, <1>2 DEF Range, IsInjective
<1>4. ASSUME NEW r \in Coros, NEW d \in Coros, Before(q, r, d)
      PROVE  Before(Append(q, c), r, d)
  <2>1. PICK i \in DOMAIN q, j \in DOMAIN q : i < j /\ q[i] = r /\ q[j] = d
    BY <1>4 DEF Before
  <2>2. i \in DOMAIN Append(q, c) /\ j \in DOMAIN Append(q, c)
    BY <1>2
  <2>3. Append(q, c)[i] = r /\ Append(q, c)[j] = d
    BY <1>1, <1>2, <2>1
  <2>4. QED
    BY <2>1, <2>2, <2>3 DEF Before
<1>5. ASSUME NEW r \in Range(q) PROVE Before(Append(q, c), r, c)
  <2>1. PICK i \in DOMAIN q : q[i] = r
    BY DEF Range
  <2>2. /\ i \in DOMAIN Append(q, c) /\ Len(q) + 1 \in DOMAIN Append(q, c)
        /\ i < Len(q) + 1
    BY <1>2
  <2>3. Append(q, c)[i] = r
    BY <1>1, <1>2, <2>1
  <2>4. QED
    BY <1>1, <2>2, <2>3 DEF Before
<1>6. QED
  BY <1>3, <1>4, <1>5

LEMMA QueueMoves ==
  ASSUME NEW q \in Seq(Coros), q # <<>>, IsInjective(q)
  PROVE  /\ IsInjective(Tail(q))
         /\ Range(q) = {Head(q)} \cup Range(Tail(q)) /\ Head(q) \notin Range(Tail(q))
         /\ \A r, d \in Coros : Before(q, r, d) => r = Head(q) \/ Before(Tail(q), r, d)
<1>1. /\ Tail(q) \in Seq(Coros) /\ Len(Tail(q)) = Len(q) - 1
      /\ \A i \in 1 .. Len(Tail(q)) : Tail(q)[i] = q[i + 1]
  BY HeadTailProperties
<1>2. /\ DOMAIN q = 1 .. Len(q) /\ Len(q) \in Nat \ {0}
      /\ DOMAIN Tail(q) = 1 .. Len(q) - 1
  BY <1>1, EmptySeq, LenProperties
<1>3. Head(q) = q[1]
  OBVIOUS
<1>4. \A i \in DOMAIN Tail(q) : i + 1 \in DOMAIN q /\ i + 1 # 1 /\ Tail(q)[i] = q[i + 1]
  BY <1>1, <1>2
<1>5. \A i \in DOMAIN q : i # 1 => i - 1 \in DOMAIN Tail(q) /\ Tail(q)[i - 1] = q[i]
  BY <1>1, <1>2
<1>6. 1 \in DOMAIN q
  BY <1>2
<1>7. IsInjective(Tail(q))
  <2> SUFFICES ASSUME NEW a \in DOMAIN Tail(q), NEW b \in DOMAIN Tail(q), Tail(q)[a] = Tail(q)[b]
               PROVE  a = b
    BY DEF IsInjective
  <2>1. a + 1 = b + 1
    BY <1>4 DEF IsInjective
  <2>2. QED
    BY <1>2, <2>1
<1>8. Head(q) \notin Range(Tail(q))
  BY <1>3, <1>4, <1>6 DEF Range, IsInjective
<1>9. Range(q) = {Head(q)} \cup Range(Tail(q))
  <2>1. ASSUME NEW c \in Range(q) PROVE c = Head(q) \/ c \in Range(Tail(q))
    BY RangeTail
  <2>2. ASSUME NEW c \in Range(Tail(q)) PROVE c \in Range(q)
    BY <1>4 DEF Range
  <2>3. Head(q) \in Range(q)
    BY <1>3, <1>6 DEF Range
  <2>4. QED
    BY <2>1, <2>2, <2>3
<1>10. ASSUME NEW r \in Coros, NEW d \in Coros, Before(q, r, d), r # Head(q)
       PROVE  Before(Tail(q), r, d)
  <2>1. PICK i \in DOMAIN q, j \in DOMAIN q : i < j /\ q[i] = r /\ q[j] = d
    BY <1>10 DEF Before
  <2>2. i # 1 /\ j # 1 /\ i - 1 < j - 1
    BY <1>2, <1>3, <1>10, <2>1
  <2>3. /\ i - 1 \in DOMAIN Tail(q) /\ j - 1 \in DOMAIN Tail(q)
        /\ Tail(q)[i - 1] = r /\ Tail(q)[j - 1] = d
    BY <1>5, <2>1, <2>2
  <2>4. QED
    BY <2>2, <2>3 DEF Before
<1>11. QED
  BY <1>7, <1>8, <1>9, <1>10

LEMMA InitOnce == Init => Once
<1> SUFFICES ASSUME Init PROVE Once
  OBVIOUS
<1>1. Range(ready) = Coros /\ None \notin Coros
  BY InitTyped, ChannelAssumption
<1>2. IsInjective(ready)
  <2> DEFINE n == Cardinality(Coros)
  <2>1. ready \in [1 .. n -> Coros] /\ n \in Nat
    BY FS_CardinalityType, ChannelAssumption DEF Init, Orders
  <2>2. ready \in Surjection(1 .. n, Coros)
    BY <1>1, <2>1 DEF Surjection, Range
  <2>3. IsFiniteSet(1 .. n) /\ Cardinality(1 .. n) = n
    BY <2>1, FS_Interval
  <2>4. ready \in Injection(1 .. n, Coros)
    BY <2>2, <2>3, FS_SurjSameCardinalityImpliesInj, ChannelAssumption
  <2>5. QED
    BY <2>4 DEF Injection
<1>3. QED
  BY <1>1, <1>2 DEF Init, Once, OnceAt

LEMMA NextOnce == Typed /\ Once /\ [Next]_vars => Once'
<1> SUFFICES ASSUME Typed, Once, [Next]_vars PROVE Once'
  OBVIOUS
<1> USE ChannelAssumption DEF Typed
<1>0. /\ ready \in Seq(Coros) /\ IsInjective(ready) /\ Range(ready) \subseteq Coros
      /\ running \notin Range(ready) /\ \A ch \in Channels : OnceAt(ch)
  BY DEF Once, TypeOK, Range
<1>10. \A h \in Channels : chan[h].sendWaiter \in Coros \cup {None} /\ chan[h].recvWaiter \in Coros \cup {None}
  BY DEF TypeOK, Slots
<1>1. ASSUME NEW c \in Coros, NEW ch \in Channels, SendToWaiter(c, ch) PROVE Once'
  <2> DEFINE r == chan[ch].recvWaiter
  <2>1. /\ r \in Coros /\ r \notin Range(ready) /\ r # c /\ c \notin Range(ready)
        /\ running = c /\ frame[c] = Own
    BY <1>0, <1>1, <1>10 DEF SendToWaiter, HandOver, MaySend, InOwnCode, OnceAt
  <2>2. Range(ready') = Range(ready) \cup {r, c} /\ running' = None
    BY <1>0, <1>1, <2>1, RangeTwo DEF SendToWaiter, HandOver
  <2>3. IsInjective(ready')
    <3>1. ready' = Append(Append(ready, r), c)
      BY <1>1 DEF SendToWaiter, HandOver
    <3>2. Append(ready, r) \in Seq(Coros) /\ Range(Append(ready, r)) = Range(ready) \cup {r}
      BY <1>0, <2>1, RangeAppend
    <3>3. IsInjective(Append(ready, r))
      BY <1>0, <2>1, QueueGrows
    <3>4. IsInjective(Append(Append(ready, r), c))
      BY <2>1, <3>2, <3>3, QueueGrows
    <3>5. QED
      BY <3>1, <3>4
  <2>4. /\ chan'[ch].recvWaiter = None
        /\ \A h \in Channels :
             /\ chan'[h].sendWaiter = chan[h].sendWaiter
             /\ h # ch => chan'[h] = chan[h]
        /\ \A d \in Coros : d # c => frame'[d] = frame[d]
    BY <1>1 DEF SendToWaiter, HandOver, TypeOK, Slots
  <2>5. ASSUME NEW h \in Channels PROVE OnceAt(h)'
    <3>1. OnceAt(h) /\ frame[r] = [at |-> "recvWait", ch |-> ch]
      BY <1>0, <2>1 DEF OnceAt
    <3>2. chan[h].sendWaiter # None =>
            chan[h].sendWaiter \notin {r, c} /\ chan[h].sendWaiter \in Coros
      BY <1>10, <2>1, <3>1 DEF OnceAt
    <3>3. h # ch /\ chan[h].recvWaiter # None =>
            chan[h].recvWaiter \notin {r, c} /\ chan[h].recvWaiter \in Coros
      BY <1>10, <2>1, <3>1 DEF OnceAt
    <3>4. QED
      BY <2>2, <2>4, <3>1, <3>2, <3>3 DEF OnceAt
  <2>6. QED
    BY <1>0, <2>1, <2>2, <2>3, <2>5 DEF Once, OnceAt
<1>2. ASSUME NEW c \in Coros, NEW ch \in Channels, SendAndWait(c, ch) PROVE Once'
  <2>1. running = c /\ running' = None /\ ready' = ready /\ c \notin Range(ready)
    BY <1>0, <1>2 DEF SendAndWait, MaySend, InOwnCode
  <2>2. /\ chan'[ch].sendWaiter = c /\ chan'[ch].recvWaiter = None
        /\ \A h \in Channels : h # ch => chan'[h] = chan[h]
        /\ frame'[c] = [at |-> "sendWait", ch |-> ch]
        /\ \A d \in Coros : d # c => frame'[d] = frame[d]
    BY <1>2 DEF SendAndWait, TypeOK, Slots
  <2>3. ASSUME NEW h \in Channels PROVE OnceAt(h)'
    BY <1>0, <1>10, <2>1, <2>2 DEF OnceAt
  <2>4. QED
    BY <1>0, <2>1, <2>3 DEF Once, OnceAt
<1>3. ASSUME NEW c \in Coros, NEW ch \in Channels, RecvFromWaiter(c, ch) PROVE Once'
  <2> DEFINE s == chan[ch].sendWaiter
  <2>1. s \in Coros /\ s \notin Range(ready) /\ s # running /\ running = c
    BY <1>0, <1>3, <1>10 DEF RecvFromWaiter, TakeOver, InOwnCode, OnceAt
  <2>2. Range(ready') = Range(ready) \cup {s} /\ running' = running /\ frame' = frame
    BY <1>0, <1>3, <2>1, RangeOne DEF RecvFromWaiter, TakeOver
  <2>3. IsInjective(ready')
    <3>1. ready' = Append(ready, s)
      BY <1>3 DEF RecvFromWaiter, TakeOver
    <3>2. QED
      BY <1>0, <2>1, <3>1, QueueGrows
  <2>4. /\ chan'[ch].sendWaiter = None
        /\ \A h \in Channels :
             /\ chan'[h].recvWaiter = chan[h].recvWaiter /\ chan'[h].recvSlot = chan[h].recvSlot
             /\ h # ch => chan'[h] = chan[h]
    BY <1>3 DEF RecvFromWaiter, TakeOver, TypeOK, Slots
  <2>5. ASSUME NEW h \in Channels PROVE OnceAt(h)'
    <3>1. OnceAt(h) /\ frame[s] = [at |-> "sendWait", ch |-> ch]
      BY <1>0, <2>1 DEF OnceAt
    <3>2. h # ch /\ chan[h].sendWaiter # None => chan[h].sendWaiter # s
      BY <3>1 DEF OnceAt
    <3>3. chan[h].recvWaiter # None => chan[h].recvWaiter # s
      BY <3>1 DEF OnceAt
    <3>4. QED
      BY <2>2, <2>4, <3>1, <3>2, <3>3 DEF OnceAt
  <2>6. QED
    BY <1>0, <2>1, <2>2, <2>3, <2>5 DEF Once, OnceAt
<1>4. ASSUME NEW c \in Coros, NEW ch \in Channels, RecvAndWait(c, ch) PROVE Once'
  <2>1. running = c /\ running' = None /\ ready' = ready /\ c \notin Range(ready)
    BY <1>0, <1>4 DEF RecvAndWait, Await, InOwnCode
  <2>2. /\ chan'[ch].recvWaiter = c /\ chan'[ch].recvSlot = c /\ chan'[ch].sendWaiter = None
        /\ \A h \in Channels : h # ch => chan'[h] = chan[h]
        /\ frame'[c] = [at |-> "recvWait", ch |-> ch]
        /\ \A d \in Coros : d # c => frame'[d] = frame[d]
    BY <1>4 DEF RecvAndWait, Await, TypeOK, Slots
  <2>3. ASSUME NEW h \in Channels PROVE OnceAt(h)'
    BY <1>0, <1>10, <2>1, <2>2 DEF OnceAt
  <2>4. QED
    BY <1>0, <2>1, <2>3 DEF Once, OnceAt
<1>5. ASSUME NEW c \in Coros, Yield(c) PROVE Once'
  <2>1. /\ running = c /\ running' = None /\ c \notin Range(ready)
        /\ Range(ready') = Range(ready) \cup {c}
    BY <1>0, <1>5, RangeAppend DEF Yield, InOwnCode
  <2>2. IsInjective(ready')
    BY <1>0, <1>5, <2>1, QueueGrows DEF Yield
  <2>3. ASSUME NEW h \in Channels PROVE OnceAt(h)'
    BY <1>0, <1>5, <1>10, <2>1 DEF Yield, OnceAt
  <2>4. QED
    BY <1>0, <2>1, <2>2, <2>3 DEF Once, OnceAt
<1>6. CASE Resume
  <2>1. /\ running' = Head(ready) /\ ready' = Tail(ready) /\ ready # <<>>
        /\ UNCHANGED <<frame, chan>>
    BY <1>6 DEF Resume
  <2>2. /\ IsInjective(ready') /\ running' \notin Range(ready')
        /\ Range(ready) = {running'} \cup Range(ready')
    BY <1>0, <2>1, QueueMoves
  <2>3. ASSUME NEW h \in Channels PROVE OnceAt(h)'
    BY <1>0, <2>1, <2>2 DEF OnceAt
  <2>4. QED
    BY <2>2, <2>3 DEF Once, OnceAt
<1>7. ASSUME NEW c \in Coros, Return(c) PROVE Once'
  <2>1. /\ running = c /\ UNCHANGED <<ready, running, chan>>
        /\ \A d \in Coros : d # c => frame'[d] = frame[d]
    BY <1>7 DEF Return, TypeOK
  <2>2. ASSUME NEW h \in Channels PROVE OnceAt(h)'
    BY <1>0, <1>10, <2>1 DEF OnceAt
  <2>3. QED
    BY <1>0, <2>1, <2>2 DEF Once, OnceAt
<1>8. CASE UNCHANGED vars
  BY <1>8 DEF vars, Once, OnceAt
<1>9. QED
  BY <1>1, <1>2, <1>3, <1>4, <1>5, <1>6, <1>7, <1>8 DEF Next, Send, Recv

LEMMA InitSync == Init => Sync
BY DEF Init, Sync, SyncAt, Own

LEMMA NextSync ==
  ASSUME SingleEnds, Typed, Once, Sync, [Next]_vars
  PROVE  Sync'
<1> USE ChannelAssumption DEF Typed
<1>1. /\ ready \in Seq(Coros) /\ IsInjective(ready) /\ Range(ready) \subseteq Coros
      /\ running \notin Range(ready)
  BY DEF Once, TypeOK, Range
<1>2. \A c \in Coros, ch \in Channels : SyncAt(c, ch)
  BY DEF Sync
<1>3. /\ frame \in [Coros -> Frames] /\ sends \in [Channels -> 0 .. MaxSends]
      /\ result \in [Coros -> Values \cup {None}]
      /\ taken \in [Channels -> Seq(Values \cup {None})]
      /\ chan \in [Channels -> Slots]
  BY DEF TypeOK
<1> SUFFICES ASSUME NEW e \in Coros, NEW h \in Channels PROVE SyncAt(e, h)'
  BY DEF Sync
<1>4. ASSUME NEW c \in Coros, NEW ch \in Channels, SendToWaiter(c, ch) PROVE SyncAt(e, h)'
  <2> DEFINE r == chan[ch].recvWaiter
  <2>1. /\ r \in Coros /\ r \notin Range(ready) /\ r # c
        /\ frame[r] = [at |-> "recvWait", ch |-> ch] /\ chan[ch].recvSlot = r
    <3>1. r # None /\ running = c
      BY <1>4 DEF SendToWaiter, HandOver, MaySend, InOwnCode
    <3>2. r \in Coros
      BY <1>3, <3>1 DEF Slots
    <3>3. QED
      BY <3>1, <3>2 DEF Once, OnceAt
  <2>2. running = c /\ frame[c] = Own /\ c \in Senders[ch] /\ c \notin Range(ready)
    BY <1>1, <1>4 DEF SendToWaiter, HandOver, MaySend, InOwnCode
  <2>3. /\ \A d \in Coros : d # r => result'[d] = result[d]
        /\ result'[r] = <<c, sends[ch] + 1>>
    BY <1>3, <1>4, <2>1 DEF SendToWaiter, HandOver, NextValue
  <2>4. /\ \A d \in Coros : d # c => frame'[d] = frame[d]
        /\ frame'[c] = [at |-> "sendYield", ch |-> ch]
        /\ sends'[ch] = sends[ch] + 1
        /\ \A g \in Channels : g # ch => sends'[g] = sends[g]
        /\ \A g \in Channels : /\ chan'[g].sendWaiter = chan[g].sendWaiter
                               /\ chan'[g].sendVal = chan[g].sendVal
        /\ taken' = taken
    BY <1>3, <1>4 DEF SendToWaiter, HandOver, Slots
  <2>5. ready' = Append(Append(ready, r), c)
    BY <1>4 DEF SendToWaiter, HandOver
  <2>6. /\ Append(ready, r) \in Seq(Coros) /\ r \in Range(Append(ready, r))
    BY <1>1, <2>1, RangeAppend
  <2>7. /\ \A p, d \in Coros : Before(ready, p, d) => Before(ready', p, d)
        /\ Before(ready', r, c)
    <3>1. \A p, d \in Coros : Before(ready, p, d) => Before(Append(ready, r), p, d)
      BY <1>1, <2>1, QueueGrows
    <3>2. /\ \A p, d \in Coros :
               Before(Append(ready, r), p, d) => Before(Append(Append(ready, r), c), p, d)
          /\ Before(Append(Append(ready, r), c), r, c)
      BY <2>6, QueueGrows
    <3>3. QED
      BY <2>5, <3>1, <3>2
  <2>8. CASE e = c
    <3>1. h = ch => Handed(c, ch)'
      BY <2>1, <2>3, <2>4, <2>7 DEF Handed
    <3>2. QED
      BY <2>2, <2>4, <2>8, <3>1 DEF SyncAt
  <2>9. CASE e # c
    <3>1. SyncAt(e, h) /\ frame'[e] = frame[e]
      BY <1>2, <2>4, <2>9
    <3>2. e \in Senders[h] => h # ch
      BY <2>2, <2>9 DEF SingleEnds
    <3>3. h # ch /\ Handed(e, h) => Handed(e, h)'
      <4>1. SUFFICES ASSUME h # ch, Handed(e, h) PROVE Handed(e, h)'
        OBVIOUS
      <4>2. PICK p \in Coros :
              /\ frame[p] = [at |-> "recvWait", ch |-> h]
              /\ result[p] = <<e, sends[h]>>
              /\ running = p \/ Before(ready, p, e)
        BY <4>1 DEF Handed
      <4>3. p # r /\ p # c
        BY <2>1, <2>2, <4>1, <4>2 DEF Own
      <4>4. QED
        BY <2>2, <2>3, <2>4, <2>7, <4>1, <4>2, <4>3 DEF Handed
    <3>4. h # ch => (Taken(e, h) => Taken(e, h)')
      BY <2>4 DEF Taken
    <3>5. QED
      BY <2>4, <3>1, <3>2, <3>3, <3>4 DEF SyncAt
  <2>10. QED
    BY <2>8, <2>9
<1>5. ASSUME NEW c \in Coros, NEW ch \in Channels, SendAndWait(c, ch) PROVE SyncAt(e, h)'
  <2>1. running = c /\ frame[c] = Own /\ c \in Senders[ch] /\ c \notin Range(ready)
        /\ running' = None /\ ready' = ready /\ result' = result /\ taken' = taken
    BY <1>1, <1>5 DEF SendAndWait, MaySend, InOwnCode
  <2>2. /\ \A d \in Coros : d # c => frame'[d] = frame[d]
        /\ frame'[c] = [at |-> "sendWait", ch |-> ch]
        /\ sends'[ch] = sends[ch] + 1
        /\ \A g \in Channels : g # ch => sends'[g] = sends[g] /\ chan'[g] = chan[g]
        /\ chan'[ch].sendWaiter = c /\ chan'[ch].sendVal = <<c, sends[ch] + 1>>
    BY <1>3, <1>5 DEF SendAndWait, Slots, NextValue
  <2>3. CASE e = c
    BY <2>1, <2>2, <2>3 DEF SyncAt
  <2>4. CASE e # c
    <3>1. SyncAt(e, h) /\ frame'[e] = frame[e]
      BY <1>2, <2>2, <2>4
    <3>2. e \in Senders[h] => h # ch
      BY <2>1, <2>4 DEF SingleEnds
    <3>3. h # ch /\ Handed(e, h) => Handed(e, h)'
      <4>1. SUFFICES ASSUME h # ch, Handed(e, h) PROVE Handed(e, h)'
        OBVIOUS
      <4>2. PICK p \in Coros :
              /\ frame[p] = [at |-> "recvWait", ch |-> h]
              /\ result[p] = <<e, sends[h]>>
              /\ running = p \/ Before(ready, p, e)
        BY <4>1 DEF Handed
      <4>3. p # c
        BY <2>1, <4>2 DEF Own
      <4>4. QED
        BY <2>1, <2>2, <4>1, <4>2, <4>3 DEF Handed
    <3>4. h # ch => (Taken(e, h) => Taken(e, h)')
      BY <2>1, <2>2 DEF Taken
    <3>5. QED
      BY <2>2, <3>1, <3>2, <3>3, <3>4 DEF SyncAt
  <2>5. QED
    BY <2>3, <2>4
<1>6. ASSUME NEW c \in Coros, NEW ch \in Channels, RecvFromWaiter(c, ch) PROVE SyncAt(e, h)'
  <2> DEFINE s == chan[ch].sendWaiter
  <2>1. s \in Coros /\ running' = running /\ frame' = frame /\ result' = result /\ sends' = sends
    BY <1>3, <1>6 DEF RecvFromWaiter, TakeOver, Slots
  <2>2. \A p, d \in Coros : Before(ready, p, d) => Before(ready', p, d)
    <3>1. ready' = Append(ready, s)
      BY <1>6 DEF RecvFromWaiter, TakeOver
    <3>2. s \notin Range(ready)
      BY <1>6, <2>1 DEF RecvFromWaiter, TakeOver, Once, OnceAt
    <3>3. QED
      BY <1>1, <2>1, <3>1, <3>2, QueueGrows
  <2>3. /\ taken'[ch] = Append(taken[ch], chan[ch].sendVal)
        /\ \A g \in Channels : g # ch => taken'[g] = taken[g] /\ chan'[g] = chan[g]
    BY <1>3, <1>6 DEF RecvFromWaiter, TakeOver, Take
  <2>4. Range(taken'[ch]) = Range(taken[ch]) \cup {chan[ch].sendVal}
    <3>1. /\ taken[ch] \in Seq(Values \cup {None}) /\ chan[ch].sendVal \in Values \cup {None}
      BY <1>3 DEF Slots
    <3>2. QED
      BY <2>3, <3>1, RangeAppended
  <2>5. Taken(e, h) => Taken(e, h)'
    BY <2>1, <2>3, <2>4 DEF Taken
  <2>6. Handed(e, h) => Handed(e, h)'
    BY <2>1, <2>2 DEF Handed
  <2>7. /\ chan[h].sendWaiter = e /\ chan[h].sendVal = <<e, sends[h]>>
        => Taken(e, h)' \/ (chan'[h].sendWaiter = e /\ chan'[h].sendVal = <<e, sends'[h]>>)
    BY <2>1, <2>3, <2>4 DEF Taken
  <2>8. QED
    BY <1>2, <2>1, <2>5, <2>6, <2>7 DEF SyncAt
<1>7. ASSUME NEW c \in Coros, NEW ch \in Channels, RecvAndWait(c, ch) PROVE SyncAt(e, h)'
  <2>1. running = c /\ frame[c] = Own /\ running' = None /\ ready' = ready
        /\ taken' = taken /\ sends' = sends
    BY <1>7 DEF RecvAndWait, Await, InOwnCode
  <2>2. /\ \A d \in Coros : d # c => frame'[d] = frame[d] /\ result'[d] = result[d]
        /\ frame'[c] = [at |-> "recvWait", ch |-> ch]
        /\ \A g \in Channels : /\ chan'[g].sendWaiter = chan[g].sendWaiter
                               /\ chan'[g].sendVal = chan[g].sendVal
    BY <1>3, <1>7 DEF RecvAndWait, Await, Slots
  <2>3. CASE e = c
    BY <2>2, <2>3 DEF SyncAt
  <2>4. CASE e # c
    <3>1. SyncAt(e, h) /\ frame'[e] = frame[e]
      BY <1>2, <2>2, <2>4
    <3>2. Handed(e, h) => Handed(e, h)'
      <4>1. SUFFICES ASSUME Handed(e, h) PROVE Handed(e, h)'
        OBVIOUS
      <4>2. PICK p \in Coros :
              /\ frame[p] = [at |-> "recvWait", ch |-> h]
              /\ result[p] = <<e, sends[h]>>
              /\ running = p \/ Before(ready, p, e)
        BY <4>1 DEF Handed
      <4>3. p # c
        BY <2>1, <4>2 DEF Own
      <4>4. QED
        BY <2>1, <2>2, <4>2, <4>3 DEF Handed
    <3>3. Taken(e, h) => Taken(e, h)'
      BY <2>1 DEF Taken
    <3>4. QED
      BY <2>1, <2>2, <3>1, <3>2, <3>3 DEF SyncAt
  <2>5. QED
    BY <2>3, <2>4
<1>8. ASSUME NEW c \in Coros, Yield(c) PROVE SyncAt(e, h)'
  <2>1. running = c /\ frame[c] = Own /\ UNCHANGED <<frame, chan, result, sends, taken>>
    BY <1>8 DEF Yield, InOwnCode
  <2>2. \A p, d \in Coros : Before(ready, p, d) => Before(ready', p, d)
    BY <1>1, <1>8, QueueGrows DEF Yield
  <2>3. Handed(e, h) => Handed(e, h)'
    BY <2>1, <2>2 DEF Handed, Own
  <2>4. Taken(e, h) => Taken(e, h)'
    BY <2>1 DEF Taken
  <2>5. QED
    BY <1>2, <2>1, <2>3, <2>4 DEF SyncAt
<1>9. CASE Resume
  <2>1. /\ running = None /\ running' = Head(ready) /\ ready' = Tail(ready) /\ ready # <<>>
        /\ UNCHANGED <<frame, chan, result, sends, taken>>
    BY <1>9 DEF Resume
  <2>2. \A p, d \in Coros : Before(ready, p, d) => p = running' \/ Before(ready', p, d)
    BY <1>1, <2>1, QueueMoves
  <2>3. Handed(e, h) => Handed(e, h)'
    BY <2>1, <2>2 DEF Handed
  <2>4. Taken(e, h) => Taken(e, h)'
    BY <2>1 DEF Taken
  <2>5. QED
    BY <1>2, <2>1, <2>3, <2>4 DEF SyncAt
<1>10. ASSUME NEW c \in Coros, Return(c) PROVE SyncAt(e, h)'
  <2>1. /\ running = c /\ frame[c] # Own /\ UNCHANGED <<ready, running, chan, result, sends>>
        /\ frame'[c] = Own /\ \A d \in Coros : d # c => frame'[d] = frame[d]
    BY <1>3, <1>10 DEF Return
  <2>2. /\ \A v \in Range(taken[h]) : v \in Range(taken'[h])
        /\ frame[c] = [at |-> "recvWait", ch |-> h] => result[c] \in Range(taken'[h])
    <3>1. CASE frame[c].at = "recvWait" /\ frame[c].ch = h
      <4>1. taken'[h] = Append(taken[h], result[c])
        BY <1>3, <1>10, <3>1 DEF Return, Take
      <4>2. taken[h] \in Seq(Values \cup {None}) /\ result[c] \in Values \cup {None}
        BY <1>3
      <4>3. QED
        BY <4>1, <4>2, RangeAppended
    <3>2. CASE ~ (frame[c].at = "recvWait" /\ frame[c].ch = h)
      <4>1. taken'[h] = taken[h]
        BY <1>3, <1>10, <3>2 DEF Return, Take, Frames
      <4>2. QED
        BY <3>2, <4>1
    <3>3. QED
      BY <3>1, <3>2
  <2>3. CASE e = c
    BY <2>1, <2>3 DEF SyncAt, Own
  <2>4. CASE e # c
    <3>1. SyncAt(e, h) /\ frame'[e] = frame[e]
      BY <1>2, <2>1, <2>4
    <3>2. Taken(e, h) => Taken(e, h)'
      BY <2>1, <2>2 DEF Taken
    <3>3. Handed(e, h) => Taken(e, h)' \/ Handed(e, h)'
      <4>1. SUFFICES ASSUME Handed(e, h) PROVE Taken(e, h)' \/ Handed(e, h)'
        OBVIOUS
      <4>2. PICK p \in Coros :
              /\ frame[p] = [at |-> "recvWait", ch |-> h]
              /\ result[p] = <<e, sends[h]>>
              /\ running = p \/ Before(ready, p, e)
        BY <4>1 DEF Handed
      <4>3. CASE p = c
        BY <2>1, <2>2, <4>2, <4>3 DEF Taken
      <4>4. CASE p # c
        BY <2>1, <4>2, <4>4 DEF Handed
      <4>5. QED
        BY <4>3, <4>4
    <3>4. QED
      BY <2>1, <3>1, <3>2, <3>3 DEF SyncAt
  <2>5. QED
    BY <2>3, <2>4
<1>11. CASE UNCHANGED vars
  <2>1. UNCHANGED <<ready, running, frame, chan, result, sends, taken>>
    BY <1>11 DEF vars
  <2>2. /\ Taken(e, h) => Taken(e, h)'
        /\ Handed(e, h) => Handed(e, h)'
    BY <2>1 DEF Taken, Handed, Before
  <2>3. QED
    BY <1>2, <2>1, <2>2 DEF SyncAt
<1>12. QED
  BY <1>4, <1>5, <1>6, <1>7, <1>8, <1>9, <1>10, <1>11 DEF Next, Send, Recv

\* Nobody is queued behind a receiver and runs before it: when send() returns,
\* the recv() that got its value has returned.
THEOREM SyncOnReturnAlways == ASSUME SingleEnds PROVE Spec => SyncOnReturn
<1> DEFINE Returned ==
      \A c \in Coros :
        frame[c].at \in {"sendYield", "sendWait"} /\ frame'[c] = Own =>
          <<c, sends[frame[c].ch]>> \in Range(taken[frame[c].ch])
<1>1. Init => Once /\ Sync
  BY InitOnce, InitSync
<1>2. Typed /\ Once /\ Sync /\ [Next]_vars => Once' /\ Sync'
  BY NextOnce, NextSync
<1>3. Typed /\ Once /\ Sync /\ [Next]_vars => [Returned]_vars
  <2> SUFFICES ASSUME Typed, Once, Sync, Next,
                      NEW c \in Coros,
                      frame[c].at \in {"sendYield", "sendWait"}, frame'[c] = Own
               PROVE  <<c, sends[frame[c].ch]>> \in Range(taken[frame[c].ch])
    OBVIOUS
  <2>1. frame \in [Coros -> Frames] /\ ready \in Seq(Coros)
    BY DEF Typed, TypeOK
  <2> DEFINE ch == frame[c].ch
  <2>2. ch \in Channels /\ frame[c] # Own
        /\ (frame[c] = [at |-> "sendYield", ch |-> ch] \/ frame[c] = [at |-> "sendWait", ch |-> ch])
    BY <2>1 DEF Frames, Own
  <2>3. running = c
    <3>1. frame'[c] # frame[c]
      BY <2>2
    <3>2. ASSUME NEW d \in Coros, Send(d) \/ Recv(d) \/ Yield(d) \/ Return(d), running # c
          PROVE  frame'[c] = frame[c]
      BY <2>1, <3>2 DEF Send, Recv, Yield, Return, SendToWaiter, HandOver, SendAndWait, MaySend,
         RecvFromWaiter, TakeOver, RecvAndWait, Await, InOwnCode
    <3>3. QED
      BY <3>1, <3>2 DEF Next, Resume
  <2>4. c \notin Range(ready) /\ chan[ch].sendWaiter # c
    BY <2>2, <2>3, ChannelAssumption DEF Once, OnceAt
  <2>5. \A r \in Coros : ~ Before(ready, r, c)
    BY <2>4 DEF Before, Range
  <2>6. ~ Handed(c, ch)
    BY <2>2, <2>3, <2>5 DEF Handed
  <2>7. Taken(c, ch)
    BY <2>2, <2>4, <2>6 DEF Sync, SyncAt
  <2>8. QED
    BY <2>7 DEF Taken
<1>4. QED
  BY <1>1, <1>2, <1>3, AlwaysTyped, PTL DEF Spec, SyncOnReturn

-----------------------------------------------------------------------------
(* The refinement of Rendezvous.                                           *)

\* A receiver in recv() is one of its channel, and when the channel does not
\* point to it any more, its result is written.
Linked ==
  \A c \in Coros, ch \in Channels :
    frame[c] = [at |-> "recvWait", ch |-> ch] =>
      c \in Receivers[ch] /\ (chan[ch].recvWaiter # c => result[c] # None)

LEMMA InitLinked == Init => Linked
BY DEF Init, Linked, Own

\* What the queues and the frames are, as functions.
LEMMA Shapes ==
  ASSUME Typed
  PROVE  /\ frame \in [Coros -> Frames] /\ sends \in [Channels -> 0 .. MaxSends]
         /\ result \in [Coros -> Values \cup {None}]
         /\ taken \in [Channels -> Seq(Values \cup {None})]
         /\ chan \in [Channels -> Slots]
BY DEF Typed, TypeOK

LEMMA NextLinked ==
  ASSUME SingleEnds, Typed, Once, Linked, [Next]_vars
  PROVE  Linked'
<1> USE ChannelAssumption
<1>1. /\ frame \in [Coros -> Frames] /\ sends \in [Channels -> 0 .. MaxSends]
      /\ result \in [Coros -> Values \cup {None}] /\ chan \in [Channels -> Slots]
  BY Shapes
<1> SUFFICES ASSUME NEW e \in Coros, NEW h \in Channels,
                    frame'[e] = [at |-> "recvWait", ch |-> h]
             PROVE  e \in Receivers[h] /\ (chan'[h].recvWaiter # e => result'[e] # None)
  BY DEF Linked
<1>2. frame[e] = [at |-> "recvWait", ch |-> h] =>
        e \in Receivers[h] /\ (chan[h].recvWaiter # e => result[e] # None)
  BY DEF Linked
<1>3. ASSUME NEW c \in Coros, NEW ch \in Channels, SendToWaiter(c, ch)
      PROVE  e \in Receivers[h] /\ (chan'[h].recvWaiter # e => result'[e] # None)
  <2> DEFINE r == chan[ch].recvWaiter
  <2>1. /\ frame' = [frame EXCEPT ![c] = [at |-> "sendYield", ch |-> ch]]
        /\ result' = [result EXCEPT ![chan[ch].recvSlot] = NextValue(c, ch)]
        /\ chan' = [chan EXCEPT ![ch].recvWaiter = None, ![ch].recvSlot = None]
        /\ r # None
    BY <1>3 DEF SendToWaiter, HandOver
  <2>2. chan[ch].recvSlot = r /\ r \in Coros
    <3>1. OnceAt(ch)
      BY DEF Once
    <3>2. r \in Coros \cup {None}
      BY <1>1 DEF Slots
    <3>3. QED
      BY <2>1, <3>1, <3>2 DEF OnceAt
  <2>3. NextValue(c, ch) # None
    BY <1>1 DEF NextValue
  <2>4. frame[e] = [at |-> "recvWait", ch |-> h]
    BY <1>1, <2>1
  <2>5. CASE h = ch
    BY <1>1, <1>2, <2>1, <2>2, <2>3, <2>4, <2>5
  <2>6. CASE h # ch
    <3>1. chan'[h] = chan[h] /\ (result'[e] = result[e] \/ result'[e] = NextValue(c, ch))
      BY <1>1, <2>1, <2>6
    <3>2. QED
      BY <1>2, <2>3, <2>4, <3>1
  <2>7. QED
    BY <2>5, <2>6
<1>4. ASSUME NEW c \in Coros, NEW ch \in Channels, SendAndWait(c, ch)
      PROVE  e \in Receivers[h] /\ (chan'[h].recvWaiter # e => result'[e] # None)
  <2>1. /\ frame[e] = frame'[e] /\ result' = result
        /\ chan'[h].recvWaiter = chan[h].recvWaiter
    BY <1>1, <1>4 DEF SendAndWait, Slots
  <2>2. QED
    BY <1>2, <2>1
<1>5. ASSUME NEW c \in Coros, NEW ch \in Channels, RecvFromWaiter(c, ch)
      PROVE  e \in Receivers[h] /\ (chan'[h].recvWaiter # e => result'[e] # None)
  <2>1. /\ frame[e] = frame'[e] /\ result' = result
        /\ chan'[h].recvWaiter = chan[h].recvWaiter
    BY <1>1, <1>5 DEF RecvFromWaiter, TakeOver, Slots
  <2>2. QED
    BY <1>2, <2>1
<1>6. ASSUME NEW c \in Coros, NEW ch \in Channels, RecvAndWait(c, ch)
      PROVE  e \in Receivers[h] /\ (chan'[h].recvWaiter # e => result'[e] # None)
  <2>1. /\ frame' = [frame EXCEPT ![c] = [at |-> "recvWait", ch |-> ch]]
        /\ result' = [result EXCEPT ![c] = None] /\ c \in Receivers[ch]
        /\ chan' = [chan EXCEPT ![ch].recvSlot = c, ![ch].recvWaiter = c]
    BY <1>6 DEF RecvAndWait, Await
  <2>2. CASE e = c
    BY <1>1, <2>1, <2>2 DEF Slots
  <2>3. CASE e # c
    <3>1. frame'[e] = frame[e] /\ result'[e] = result[e]
      BY <1>1, <2>1, <2>3
    <3>2. h # ch
      BY <1>2, <2>1, <2>3, <3>1 DEF SingleEnds
    <3>3. chan'[h] = chan[h]
      BY <1>1, <2>1, <3>2
    <3>4. QED
      BY <1>2, <3>1, <3>3
  <2>4. QED
    BY <2>2, <2>3
<1>7. ASSUME Resume \/ UNCHANGED vars \/ \E c \in Coros : Yield(c)
      PROVE  e \in Receivers[h] /\ (chan'[h].recvWaiter # e => result'[e] # None)
  <2>1. UNCHANGED <<frame, result, chan>>
    BY <1>7 DEF Resume, Yield, vars
  <2>2. QED
    BY <1>2, <2>1
<1>8. ASSUME NEW c \in Coros, Return(c)
      PROVE  e \in Receivers[h] /\ (chan'[h].recvWaiter # e => result'[e] # None)
  <2>1. frame'[e] = frame[e] /\ UNCHANGED <<result, chan>>
    BY <1>1, <1>8 DEF Return, Own
  <2>2. QED
    BY <1>2, <2>1
<1>9. QED
  BY <1>3, <1>4, <1>5, <1>6, <1>7, <1>8 DEF Next, Send, Recv

\* A set of one value has one order.
LEMMA SeqOfFew ==
  /\ SetToSeq({}) = <<>>
  /\ \A v : SetToSeq({v}) = <<v>>
<1>1. SetToSeq({}) = <<>>
  <2>1. Cardinality({}) = 0
    BY FS_EmptySet
  <2>2. \A f \in [1 .. 0 -> {}] : f = <<>>
    OBVIOUS
  <2>3. <<>> \in [1 .. 0 -> {}] /\ IsInjective(<<>>)
    BY DEF IsInjective
  <2>4. QED
    BY <2>1, <2>2, <2>3 DEF SetToSeq
<1>2. ASSUME NEW v PROVE SetToSeq({v}) = <<v>>
  <2>1. Cardinality({v}) = 1
    BY FS_Singleton
  <2>2. \A f \in [1 .. 1 -> {v}] : f = <<v>>
    OBVIOUS
  <2>3. <<v>> \in [1 .. 1 -> {v}] /\ IsInjective(<<v>>)
    BY DEF IsInjective
  <2>4. QED
    BY <2>1, <2>2, <2>3 DEF SetToSeq
<1>3. QED
  BY <1>1, <1>2

\* Whose result is written, in terms of frames.
WrittenTo(c, ch) ==
  frame[c] = [at |-> "recvWait", ch |-> ch] /\ chan[ch].recvWaiter # c /\ result[c] # None

LEMMA WrittenFrames ==
  TypeOK => \A c \in Coros, ch \in Channels : c \in Written(ch) <=> WrittenTo(c, ch)
BY DEF TypeOK, Written, WrittenTo, Frames

\* With one receiver, a value at most is on its way.
PassedRight ==
  \A ch \in Channels :
    /\ Written(ch) = {} => Passed[ch] = taken[ch]
    /\ \A c \in Written(ch) : Passed[ch] = Append(taken[ch], result[c])

LEMMA PassedIs == SingleEnds /\ TypeOK /\ Linked => PassedRight
<1> SUFFICES ASSUME SingleEnds, TypeOK, Linked, NEW ch \in Channels
             PROVE  /\ Written(ch) = {} => Passed[ch] = taken[ch]
                    /\ \A c \in Written(ch) : Passed[ch] = Append(taken[ch], result[c])
  BY DEF PassedRight
<1>1. taken[ch] \in Seq(Values \cup {None}) /\ result \in [Coros -> Values \cup {None}]
  BY DEF TypeOK
<1>2. Passed[ch] = taken[ch] \o SetToSeq({result[c] : c \in Written(ch)})
  BY DEF Passed
<1>3. CASE Written(ch) = {}
  <2>1. Passed[ch] = taken[ch] \o <<>>
    BY <1>2, <1>3, SeqOfFew
  <2>2. QED
    BY <1>1, <1>3, <2>1, ConcatEmptySeq
<1>4. ASSUME NEW c \in Written(ch) PROVE Passed[ch] = Append(taken[ch], result[c])
  <2>1. c \in Coros /\ \A d \in Written(ch) : d = c
    <3>1. \A d \in Written(ch) : d \in Coros
      BY DEF Written
    <3>2. \A d \in Written(ch) : frame[d] = [at |-> "recvWait", ch |-> ch]
      BY <3>1, WrittenFrames DEF WrittenTo
    <3>3. \A d \in Written(ch) : d \in Receivers[ch]
      BY <3>1, <3>2 DEF Linked
    <3>4. QED
      BY <1>4, <3>1, <3>3 DEF SingleEnds
  <2>2. {result[d] : d \in Written(ch)} = {result[c]}
    BY <1>4, <2>1
  <2>3. Passed[ch] = taken[ch] \o <<result[c]>>
    BY <1>2, <2>2, SeqOfFew
  <2>4. result[c] \in Values \cup {None}
    BY <1>1, <2>1
  <2>5. QED
    BY <1>1, <2>3, <2>4, AppendIsConcat
<1>5. QED
  BY <1>3, <1>4

\* The coroutine that has the thread waits in no queue.
LEMMA NotWaiting ==
  ASSUME Typed, Once, NEW c \in Coros, running = c
  PROVE  ~ Go!Waiting(c)
<1>1. ASSUME NEW ch \in Channels PROVE chan[ch].sendWaiter # c /\ chan[ch].recvWaiter # c
  <2>1. OnceAt(ch) /\ c # None
    BY ChannelAssumption DEF Once
  <2>2. QED
    BY <2>1 DEF OnceAt
<1>2. ASSUME NEW ch \in Channels PROVE c \notin Go!Range(RecvQueue[ch])
  <2>1. \A i \in DOMAIN RecvQueue[ch] : RecvQueue[ch][i] # c
    BY <1>1 DEF RecvQueue
  <2>2. QED
    BY <2>1 DEF Go!Range
<1>3. ASSUME NEW ch \in Channels, NEW i \in DOMAIN SendQueue[ch] PROVE SendQueue[ch][i].co # c
  BY <1>1 DEF SendQueue
<1>4. QED
  BY <1>2, <1>3 DEF Go!Waiting

\* A step that leaves frames, results and taken values of a channel as they are
\* leaves what passed it; and so the whole of what one can see from outside.
LEMMA PassedSame ==
  ASSUME NEW ch \in Channels,
         \A c \in Coros : c \in Written(ch)' <=> c \in Written(ch),
         \A c \in Written(ch) : result'[c] = result[c],
         taken'[ch] = taken[ch]
  PROVE  Passed'[ch] = Passed[ch]
<1>1. Written(ch)' = Written(ch)
  BY DEF Written
<1>2. {result'[c] : c \in Written(ch)'} = {result[c] : c \in Written(ch)}
  BY <1>1
<1>3. QED
  BY <1>2 DEF Passed

\* The invariant of the refinement.
Ready == Typed /\ Once /\ Linked /\ PassedRight

LEMMA SendToWaiterPasses ==
  ASSUME SingleEnds, Ready, Ready', NEW c \in Coros, NEW ch \in Channels, SendToWaiter(c, ch)
  PROVE  Go!Send(c, ch, NextValue(c, ch))
<1> DEFINE r == chan[ch].recvWaiter
           v == NextValue(c, ch)
<1>1. /\ frame \in [Coros -> Frames] /\ sends \in [Channels -> 0 .. MaxSends]
      /\ result \in [Coros -> Values \cup {None}] /\ chan \in [Channels -> Slots]
      /\ taken \in [Channels -> Seq(Values \cup {None})]
  BY Shapes DEF Ready
<1>2. /\ frame' = [frame EXCEPT ![c] = [at |-> "sendYield", ch |-> ch]]
      /\ result' = [result EXCEPT ![chan[ch].recvSlot] = v]
      /\ chan' = [chan EXCEPT ![ch].recvWaiter = None, ![ch].recvSlot = None]
      /\ taken' = taken /\ r # None /\ running = c /\ frame[c] = Own
  BY DEF SendToWaiter, HandOver, MaySend, InOwnCode
<1>3. /\ r \in Coros /\ chan[ch].recvSlot = r
      /\ frame[r] = [at |-> "recvWait", ch |-> ch]
  <2>1. OnceAt(ch)
    BY DEF Ready, Once
  <2>2. r \in Coros \cup {None}
    BY <1>1 DEF Slots
  <2>3. QED
    BY <1>2, <2>1, <2>2 DEF OnceAt
<1>4. /\ chan'[ch].recvWaiter = None
      /\ \A h \in Channels : h # ch => chan'[h] = chan[h]
      /\ \A h \in Channels : /\ chan'[h].sendWaiter = chan[h].sendWaiter
                             /\ chan'[h].sendVal = chan[h].sendVal
      /\ \A d \in Coros : d # r => result'[d] = result[d]
      /\ result'[r] = v
      /\ \A d \in Coros : d # c => frame'[d] = frame[d]
      /\ frame'[c] = [at |-> "sendYield", ch |-> ch]
      /\ r # c
  BY <1>1, <1>2, <1>3 DEF Slots, Own
<1>5. ~ Go!Waiting(c)
  BY <1>2, NotWaiting DEF Ready
<1>6. RecvQueue[ch] = <<r>> /\ RecvQueue' = [RecvQueue EXCEPT ![ch] = Tail(@)]
  <2>1. RecvQueue[ch] = <<r>> /\ RecvQueue'[ch] = <<>>
    BY <1>2, <1>4 DEF RecvQueue
  <2>2. \A h \in Channels : h # ch => RecvQueue'[h] = RecvQueue[h]
    BY <1>4 DEF RecvQueue
  <2>3. Tail(<<r>>) = <<>>
    OBVIOUS
  <2>4. QED
    BY <2>1, <2>2, <2>3 DEF RecvQueue
<1>7. SendQueue' = SendQueue
  BY <1>4 DEF SendQueue
<1>8. Passed' = [Passed EXCEPT ![ch] = Append(@, v)]
  <2>1. v # None
    BY <1>1, ChannelAssumption DEF NextValue
  <2>2. Written(ch) = {}
    <3>1. ASSUME NEW d \in Coros, WrittenTo(d, ch) PROVE FALSE
      <4>1. d \in Receivers[ch] /\ r \in Receivers[ch]
        BY <1>3, <3>1 DEF Ready, Linked, WrittenTo
      <4>2. d = r
        BY <4>1 DEF SingleEnds
      <4>3. QED
        BY <3>1, <4>2 DEF WrittenTo
    <3>2. QED
      BY <3>1, WrittenFrames DEF Written, Ready, Typed
  <2>3. r \in Written(ch)'
    BY <1>2, <1>3, <1>4, <2>1 DEF Written
  <2>4. Passed[ch] = taken[ch] /\ Passed'[ch] = Append(taken'[ch], result'[r])
    <3>1. Passed[ch] = taken[ch]
      BY <2>2 DEF Ready, PassedRight
    <3>2. Passed'[ch] = Append(taken'[ch], result'[r])
      BY <2>3 DEF Ready, PassedRight
    <3>3. QED
      BY <3>1, <3>2
  <2>5. ASSUME NEW h \in Channels, h # ch PROVE Passed'[h] = Passed[h]
    <3>1. \A d \in Coros : d \in Written(h)' <=> d \in Written(h)
      <4>1. c \notin Written(h) /\ c \notin Written(h)'
        BY <1>2, <1>4 DEF Written, Own
      <4>2. r \notin Written(h) /\ r \notin Written(h)'
        BY <1>3, <1>4, <2>5 DEF Written
      <4>3. ASSUME NEW d \in Coros, d # c, d # r PROVE d \in Written(h)' <=> d \in Written(h)
        BY <1>4, <2>5, <4>3 DEF Written
      <4>4. QED
        BY <4>1, <4>2, <4>3
    <3>2. \A d \in Written(h) : result'[d] = result[d]
      BY <1>3, <1>4, <2>5 DEF Written
    <3>3. QED
      BY <1>2, <3>1, <3>2, PassedSame
  <2>6. QED
    BY <1>2, <1>4, <2>4, <2>5 DEF Passed
<1>9. QED
  BY <1>5, <1>6, <1>7, <1>8 DEF Go!Send, Go!Pass

\* With one coroutine at each end, its own slot is free while it runs, and so no
\* value is on its way to a receiver that runs in its own code.
LEMMA OwnEndsFree ==
  ASSUME SingleEnds, Ready, NEW c \in Coros, NEW ch \in Channels, running = c
  PROVE  /\ c \in Senders[ch] => chan[ch].sendWaiter = None
         /\ c \in Receivers[ch] => chan[ch].recvWaiter = None
<1>1. chan[ch].sendWaiter # c /\ chan[ch].recvWaiter # c
  <2>1. OnceAt(ch) /\ c # None
    BY ChannelAssumption DEF Ready, Once
  <2>2. QED
    BY <2>1 DEF OnceAt
<1>2. /\ chan[ch].sendWaiter \in Senders[ch] \cup {None}
      /\ chan[ch].recvWaiter \in Receivers[ch] \cup {None}
  BY DEF Ready, Typed, OwnSlots
<1>3. QED
  BY <1>1, <1>2 DEF SingleEnds

LEMMA NothingWritten ==
  ASSUME SingleEnds, Ready, NEW c \in Coros, NEW ch \in Channels,
         c \in Receivers[ch], frame[c] = Own
  PROVE  Written(ch) = {}
<1>1. ASSUME NEW d \in Coros, d \in Written(ch) PROVE FALSE
  <2>1. WrittenTo(d, ch)
    BY <1>1, WrittenFrames DEF Ready, Typed
  <2>2. d \in Receivers[ch]
    BY <2>1 DEF Ready, Linked, WrittenTo
  <2>3. d = c
    BY <2>2 DEF SingleEnds
  <2>4. QED
    BY <2>1, <2>3 DEF WrittenTo, Own
<1>2. QED
  BY <1>1 DEF Written

LEMMA SendAndWaitQueues ==
  ASSUME SingleEnds, Ready, NEW c \in Coros, NEW ch \in Channels, SendAndWait(c, ch)
  PROVE  Go!Send(c, ch, NextValue(c, ch))
<1>1. frame \in [Coros -> Frames] /\ chan \in [Channels -> Slots]
  BY Shapes DEF Ready
<1>2. /\ chan[ch].recvWaiter = None /\ running = c /\ frame[c] = Own /\ c \in Senders[ch]
      /\ chan' = [chan EXCEPT ![ch].sendVal = NextValue(c, ch), ![ch].sendWaiter = c]
      /\ frame' = [frame EXCEPT ![c] = [at |-> "sendWait", ch |-> ch]]
      /\ UNCHANGED <<result, taken>>
  BY DEF SendAndWait, MaySend, InOwnCode
<1>3. /\ chan'[ch].sendWaiter = c /\ chan'[ch].sendVal = NextValue(c, ch)
      /\ \A h \in Channels : h # ch => chan'[h] = chan[h]
      /\ \A h \in Channels : chan'[h].recvWaiter = chan[h].recvWaiter
      /\ \A d \in Coros : d # c => frame'[d] = frame[d]
      /\ frame'[c] = [at |-> "sendWait", ch |-> ch]
  BY <1>1, <1>2 DEF Slots
<1>4. ~ Go!Waiting(c)
  BY <1>2, NotWaiting DEF Ready
<1>5. RecvQueue[ch] = <<>> /\ RecvQueue' = RecvQueue
  <2>1. RecvQueue' = RecvQueue
    BY <1>3 DEF RecvQueue
  <2>2. RecvQueue[ch] = <<>>
    BY <1>2 DEF RecvQueue
  <2>3. QED
    BY <2>1, <2>2
<1>6. SendQueue' = [SendQueue EXCEPT ![ch] = Append(@, [co |-> c, val |-> NextValue(c, ch)])]
  <2>1. chan[ch].sendWaiter = None
    BY <1>2, OwnEndsFree
  <2>2. SendQueue[ch] = <<>> /\ SendQueue'[ch] = <<[co |-> c, val |-> NextValue(c, ch)]>>
    BY <1>2, <1>3, <2>1, ChannelAssumption DEF SendQueue
  <2>3. \A h \in Channels : h # ch => SendQueue'[h] = SendQueue[h]
    BY <1>3 DEF SendQueue
  <2>4. Append(<<>>, [co |-> c, val |-> NextValue(c, ch)]) = <<[co |-> c, val |-> NextValue(c, ch)]>>
    OBVIOUS
  <2>5. QED
    BY <2>2, <2>3, <2>4 DEF SendQueue
<1>7. Passed' = Passed
  <2>1. ASSUME NEW h \in Channels PROVE Passed'[h] = Passed[h]
    <3>1. \A d \in Coros : d \in Written(h)' <=> d \in Written(h)
      <4>1. c \notin Written(h) /\ c \notin Written(h)'
        BY <1>2, <1>3 DEF Written, Own
      <4>2. ASSUME NEW d \in Coros, d # c PROVE d \in Written(h)' <=> d \in Written(h)
        BY <1>2, <1>3, <4>2 DEF Written
      <4>3. QED
        BY <4>1, <4>2
    <3>2. QED
      BY <1>2, <3>1, PassedSame
  <2>2. QED
    BY <2>1 DEF Passed
<1>8. QED
  BY <1>4, <1>5, <1>6, <1>7 DEF Go!Send

LEMMA RecvFromWaiterPasses ==
  ASSUME SingleEnds, Ready, Ready', NEW c \in Coros, NEW ch \in Channels, RecvFromWaiter(c, ch)
  PROVE  Go!Recv(c, ch)
<1> DEFINE s == chan[ch].sendWaiter
           v == chan[ch].sendVal
<1>1. /\ frame \in [Coros -> Frames] /\ chan \in [Channels -> Slots]
      /\ taken \in [Channels -> Seq(Values \cup {None})]
  BY Shapes DEF Ready
<1>2. /\ s # None /\ running = c /\ frame[c] = Own /\ c \in Receivers[ch]
      /\ chan' = [chan EXCEPT ![ch].sendWaiter = None]
      /\ taken' = [taken EXCEPT ![ch] = Append(@, v)]
      /\ UNCHANGED <<frame, result>>
  BY DEF RecvFromWaiter, TakeOver, Take, InOwnCode
<1>3. /\ chan'[ch].sendWaiter = None
      /\ \A h \in Channels : h # ch => chan'[h] = chan[h]
      /\ \A h \in Channels : chan'[h].recvWaiter = chan[h].recvWaiter
  BY <1>1, <1>2 DEF Slots
<1>4. ~ Go!Waiting(c)
  BY <1>2, NotWaiting DEF Ready
<1>5. RecvQueue' = RecvQueue
  BY <1>3 DEF RecvQueue
<1>6. /\ SendQueue[ch] = <<[co |-> s, val |-> v]>>
      /\ SendQueue' = [SendQueue EXCEPT ![ch] = Tail(@)]
  <2>1. SendQueue[ch] = <<[co |-> s, val |-> v]>> /\ SendQueue'[ch] = <<>>
    BY <1>2, <1>3 DEF SendQueue
  <2>2. \A h \in Channels : h # ch => SendQueue'[h] = SendQueue[h]
    BY <1>3 DEF SendQueue
  <2>3. Tail(<<[co |-> s, val |-> v]>>) = <<>>
    OBVIOUS
  <2>4. QED
    BY <2>1, <2>2, <2>3 DEF SendQueue
<1>7. \A h \in Channels : Written(h)' = Written(h)
  BY <1>2, <1>3 DEF Written
<1>8. Passed' = [Passed EXCEPT ![ch] = Append(@, v)]
  <2>1. Written(ch) = {} /\ Written(ch)' = {}
    BY <1>2, <1>7, NothingWritten
  <2>2. Passed[ch] = taken[ch] /\ Passed'[ch] = taken'[ch]
    BY <2>1 DEF Ready, PassedRight
  <2>3. taken'[ch] = Append(taken[ch], v)
    BY <1>1, <1>2
  <2>4. ASSUME NEW h \in Channels, h # ch PROVE Passed'[h] = Passed[h]
    BY <1>1, <1>2, <1>7, <2>4, PassedSame
  <2>5. QED
    BY <2>2, <2>3, <2>4 DEF Passed
<1>9. Head(SendQueue[ch]).val = v /\ SendQueue[ch] # <<>>
  BY <1>6
<1>10. QED
  BY <1>4, <1>5, <1>6, <1>8, <1>9 DEF Go!Recv, Go!Pass

LEMMA RecvAndWaitQueues ==
  ASSUME SingleEnds, Ready, Ready', NEW c \in Coros, NEW ch \in Channels, RecvAndWait(c, ch)
  PROVE  Go!Recv(c, ch)
<1>1. /\ frame \in [Coros -> Frames] /\ chan \in [Channels -> Slots]
      /\ result \in [Coros -> Values \cup {None}]
  BY Shapes DEF Ready
<1>2. /\ chan[ch].sendWaiter = None /\ running = c /\ frame[c] = Own /\ c \in Receivers[ch]
      /\ result' = [result EXCEPT ![c] = None]
      /\ chan' = [chan EXCEPT ![ch].recvSlot = c, ![ch].recvWaiter = c]
      /\ frame' = [frame EXCEPT ![c] = [at |-> "recvWait", ch |-> ch]]
      /\ taken' = taken
  BY DEF RecvAndWait, Await, InOwnCode
<1>3. /\ chan'[ch].recvWaiter = c /\ result'[c] = None
      /\ \A h \in Channels : h # ch => chan'[h] = chan[h]
      /\ \A h \in Channels : chan'[h].sendWaiter = chan[h].sendWaiter /\ chan'[h].sendVal = chan[h].sendVal
      /\ \A d \in Coros : d # c => frame'[d] = frame[d] /\ result'[d] = result[d]
      /\ frame'[c] = [at |-> "recvWait", ch |-> ch]
  BY <1>1, <1>2 DEF Slots
<1>4. ~ Go!Waiting(c)
  BY <1>2, NotWaiting DEF Ready
<1>5. SendQueue[ch] = <<>> /\ SendQueue' = SendQueue
  <2>1. SendQueue' = SendQueue
    BY <1>3 DEF SendQueue
  <2>2. SendQueue[ch] = <<>>
    BY <1>2 DEF SendQueue
  <2>3. QED
    BY <2>1, <2>2
<1>6. RecvQueue' = [RecvQueue EXCEPT ![ch] = Append(@, c)]
  <2>1. chan[ch].recvWaiter = None
    BY <1>2, OwnEndsFree
  <2>2. RecvQueue[ch] = <<>> /\ RecvQueue'[ch] = <<c>>
    BY <1>2, <1>3, <2>1, ChannelAssumption DEF RecvQueue
  <2>3. \A h \in Channels : h # ch => RecvQueue'[h] = RecvQueue[h]
    BY <1>3 DEF RecvQueue
  <2>4. Append(<<>>, c) = <<c>>
    OBVIOUS
  <2>5. QED
    BY <2>2, <2>3, <2>4 DEF RecvQueue
<1>7. Passed' = Passed
  <2>1. Written(ch) = {}
    BY <1>2, NothingWritten
  <2>2. ASSUME NEW h \in Channels PROVE Passed'[h] = Passed[h]
    <3>1. c \notin Written(h) /\ c \notin Written(h)'
      BY <1>2, <1>3 DEF Written, Own
    <3>2. CASE h = ch
      <4>1. ASSUME NEW d \in Coros, d # c, d \in Written(ch)' PROVE FALSE
        <5>1. frame' \in [Coros -> Frames]
          BY DEF Ready, Typed, TypeOK
        <5>2. frame'[d] = [at |-> "recvWait", ch |-> ch]
          BY <4>1, <5>1 DEF Written, Frames
        <5>3. d \in Receivers[ch]
          BY <5>2 DEF Ready, Linked
        <5>4. QED
          BY <1>2, <4>1, <5>3 DEF SingleEnds
      <4>2. \A d \in Coros : d \in Written(h)' <=> d \in Written(h)
        BY <2>1, <3>1, <3>2, <4>1
      <4>3. QED
        BY <1>2, <2>1, <3>2, <4>2, PassedSame
    <3>3. CASE h # ch
      <4>1. ASSUME NEW d \in Coros, d # c PROVE d \in Written(h)' <=> d \in Written(h)
        BY <1>3, <3>3, <4>1 DEF Written
      <4>2. \A d \in Coros : d \in Written(h)' <=> d \in Written(h)
        BY <3>1, <4>1
      <4>3. \A d \in Written(h) : result'[d] = result[d]
        BY <1>3, <3>1 DEF Written
      <4>4. QED
        BY <1>2, <4>2, <4>3, PassedSame
    <3>4. QED
      BY <3>2, <3>3
  <2>3. QED
    BY <2>2 DEF Passed
<1>8. QED
  BY <1>4, <1>5, <1>6, <1>7 DEF Go!Recv

\* The end of recv(): the value was written before, and is taken now.
LEMMA ReturnUnseen ==
  ASSUME SingleEnds, Ready, Ready', NEW c \in Coros, Return(c)
  PROVE  UNCHANGED <<SendQueue, RecvQueue, Passed>>
<1>1. /\ frame \in [Coros -> Frames] /\ taken \in [Channels -> Seq(Values \cup {None})]
  BY Shapes DEF Ready
<1>2. /\ running = c /\ frame[c] # Own /\ frame' = [frame EXCEPT ![c] = Own]
      /\ UNCHANGED <<chan, result>>
      /\ frame[c].at = "recvWait" => taken' = [taken EXCEPT ![frame[c].ch] = Append(@, result[c])]
      /\ frame[c].at # "recvWait" => taken' = taken
  BY DEF Return, Take
<1>3. \A h \in Channels, d \in Coros : d # c => (d \in Written(h)' <=> d \in Written(h))
  BY <1>1, <1>2 DEF Written
<1>4. \A h \in Channels : c \notin Written(h)'
  BY <1>1, <1>2 DEF Written, Own
<1>5. ASSUME NEW h \in Channels, ~ (frame[c].at = "recvWait" /\ frame[c].ch = h)
      PROVE  Passed'[h] = Passed[h]
  <2>1. c \notin Written(h)
    BY <1>5 DEF Written
  <2>2. taken'[h] = taken[h]
    <3>1. CASE frame[c].at = "recvWait"
      <4>1. frame[c].ch \in Channels
        BY <1>1, <3>1 DEF Frames
      <4>2. QED
        BY <1>1, <1>2, <1>5, <3>1, <4>1
    <3>2. QED
      BY <1>2, <3>1
  <2>3. \A d \in Coros : d \in Written(h)' <=> d \in Written(h)
    BY <1>3, <1>4, <2>1
  <2>4. QED
    BY <1>2, <2>2, <2>3, PassedSame
<1>6. ASSUME NEW h \in Channels, frame[c].at = "recvWait", frame[c].ch = h
      PROVE  Passed'[h] = Passed[h]
  <2>1. chan[h].recvWaiter # c
    <3>1. OnceAt(h) /\ c # None
      BY ChannelAssumption DEF Ready, Once
    <3>2. QED
      BY <1>2, <3>1 DEF OnceAt
  <2>2. frame[c] = [at |-> "recvWait", ch |-> h]
    BY <1>1, <1>6 DEF Frames
  <2>3. c \in Receivers[h] /\ result[c] # None
    BY <2>1, <2>2 DEF Ready, Linked
  <2>4. c \in Written(h)
    BY <1>6, <2>1, <2>3 DEF Written
  <2>5. ASSUME NEW d \in Coros, d # c, d \in Written(h) PROVE FALSE
    <3>1. WrittenTo(d, h)
      BY <2>5, WrittenFrames DEF Ready, Typed
    <3>2. d \in Receivers[h]
      BY <3>1 DEF Ready, Linked, WrittenTo
    <3>3. QED
      BY <2>3, <2>5, <3>2 DEF SingleEnds
  <2>6. Written(h)' = {}
    <3>1. \A d \in Coros : d \notin Written(h)'
      BY <1>3, <1>4, <2>5
    <3>2. QED
      BY <3>1 DEF Written
  <2>7. Passed'[h] = taken'[h]
    BY <2>6 DEF Ready, PassedRight
  <2>8. Passed[h] = Append(taken[h], result[c])
    BY <2>4 DEF Ready, PassedRight
  <2>9. taken'[h] = Append(taken[h], result[c])
    BY <1>1, <1>2, <1>6
  <2>10. QED
    BY <2>7, <2>8, <2>9
<1>7. Passed' = Passed
  BY <1>5, <1>6 DEF Passed
<1>8. SendQueue' = SendQueue /\ RecvQueue' = RecvQueue
  BY <1>2 DEF SendQueue, RecvQueue
<1>9. QED
  BY <1>7, <1>8

\* Every step of the code is a step of the Rendezvous, or one it does not see.
LEMMA NextImplements ==
  ASSUME SingleEnds, Ready, Ready', [Next]_vars
  PROVE  [Go!Next]_(Go!vars)
<1>1. ASSUME NEW c \in Coros, NEW ch \in Channels, SendToWaiter(c, ch) \/ SendAndWait(c, ch)
      PROVE  Go!Next
  <2>1. NextValue(c, ch) \in Values
    <3>1. sends[ch] \in 0 .. MaxSends /\ sends[ch] < MaxSends /\ MaxSends \in Nat
      BY <1>1, Shapes, ChannelAssumption
      DEF Ready, SendToWaiter, HandOver, SendAndWait, MaySend
    <3>2. QED
      BY <3>1 DEF NextValue, Values
  <2>2. Go!Send(c, ch, NextValue(c, ch))
    BY <1>1, SendToWaiterPasses, SendAndWaitQueues
  <2>3. QED
    BY <2>1, <2>2 DEF Go!Next
<1>2. ASSUME NEW c \in Coros, NEW ch \in Channels, RecvFromWaiter(c, ch) \/ RecvAndWait(c, ch)
      PROVE  Go!Next
  <2>1. Go!Recv(c, ch)
    BY <1>2, RecvFromWaiterPasses, RecvAndWaitQueues
  <2>2. QED
    BY <2>1 DEF Go!Next
<1>3. ASSUME Resume \/ UNCHANGED vars \/ \E c \in Coros : Yield(c)
      PROVE  UNCHANGED <<SendQueue, RecvQueue, Passed>>
  <2>1. UNCHANGED <<frame, result, chan, taken>>
    BY <1>3 DEF Resume, Yield, vars
  <2>2. QED
    BY <2>1 DEF SendQueue, RecvQueue, Passed, Written
<1>4. ASSUME NEW c \in Coros, Return(c) PROVE UNCHANGED <<SendQueue, RecvQueue, Passed>>
  BY <1>4, ReturnUnseen
<1>5. QED
  BY <1>1, <1>2, <1>3, <1>4 DEF Next, Send, Recv, Go!vars

LEMMA InitImplements == Init => Go!Init
<1> SUFFICES ASSUME Init PROVE Go!Init
  OBVIOUS
<1>1. Typed
  BY InitTyped
<1>2. SendQueue = [ch \in Channels |-> <<>>] /\ RecvQueue = [ch \in Channels |-> <<>>]
  BY DEF Init, SendQueue, RecvQueue
<1>3. \A ch \in Channels : Written(ch) = {}
  BY DEF Init, Written, Own
<1>4. \A ch \in Channels : Passed[ch] = <<>>
  <2>1. ASSUME NEW ch \in Channels PROVE Passed[ch] = <<>>
    <3>1. {result[c] : c \in Written(ch)} = {}
      BY <1>3
    <3>2. Passed[ch] = taken[ch] \o <<>>
      BY <3>1, SeqOfFew DEF Passed
    <3>3. taken[ch] = <<>>
      BY DEF Init
    <3>4. QED
      BY <3>2, <3>3
  <2>2. QED
    BY <2>1
<1>5. Passed = [ch \in Channels |-> <<>>]
  BY <1>4 DEF Passed
<1>6. QED
  BY <1>2, <1>5 DEF Go!Init

\* With one coroutine at each end, the Channel is an unbuffered channel: what
\* recv() returns is what send() was given, in that order.
THEOREM ImplementsRendezvous == ASSUME SingleEnds PROVE Spec => RendezvousSpec
<1>1. Init => Typed /\ Once /\ Linked
  BY InitTyped, InitOnce, InitLinked
<1>2. Typed /\ Once /\ Linked /\ [Next]_vars => Typed' /\ Once' /\ Linked'
  BY NextTyped, NextOnce, NextLinked
<1>3. Typed /\ Once /\ Linked => Ready
  BY PassedIs DEF Ready, Typed
<1>4. Ready /\ Ready' /\ [Next]_vars => [Go!Next]_(Go!vars)
  BY NextImplements
<1>5. QED
  BY <1>1, <1>2, <1>3, <1>4, InitImplements, PTL DEF Spec, RendezvousSpec, Go!Spec
=============================================================================
