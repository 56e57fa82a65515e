----------------------------- MODULE Rendezvous -----------------------------
(***************************************************************************)
(* An unbuffered channel as in Go, which the README names as the model of  *)
(* Channel<T>: senders and receivers each wait in a queue, first come      *)
(* first served, and a value passes from a sender to a receiver when the   *)
(* two meet.                                                               *)
(***************************************************************************)
EXTENDS Naturals, Sequences, Functions

CONSTANTS Coros, Channels, Values

VARIABLES
  sendq,  \* per channel: blocked senders with their values
  recvq,  \* per channel: blocked receivers
  passed  \* per channel: the values that passed, in that order

vars == <<sendq, recvq, passed>>

Init ==
  /\ sendq = [ch \in Channels |-> <<>>]
  /\ recvq = [ch \in Channels |-> <<>>]
  /\ passed = [ch \in Channels |-> <<>>]

Waiting(c) ==
  \E ch \in Channels :
    c \in Range(recvq[ch]) \/ \E i \in DOMAIN sendq[ch] : sendq[ch][i].co = c

Pass(ch, v) == passed' = [passed EXCEPT ![ch] = Append(@, v)]

Send(c, ch, v) ==
  /\ ~ Waiting(c)
  /\ \/ /\ recvq[ch] # <<>>
        /\ recvq' = [recvq EXCEPT ![ch] = Tail(@)]
        /\ Pass(ch, v)
        /\ UNCHANGED sendq
     \/ /\ recvq[ch] = <<>>
        /\ sendq' = [sendq EXCEPT ![ch] = Append(@, [co |-> c, val |-> v])]
        /\ UNCHANGED <<recvq, passed>>

Recv(c, ch) ==
  /\ ~ Waiting(c)
  /\ \/ /\ sendq[ch] # <<>>
        /\ sendq' = [sendq EXCEPT ![ch] = Tail(@)]
        /\ Pass(ch, Head(sendq[ch]).val)
        /\ UNCHANGED recvq
     \/ /\ sendq[ch] = <<>>
        /\ recvq' = [recvq EXCEPT ![ch] = Append(@, c)]
        /\ UNCHANGED <<sendq, passed>>

Next ==
  \E c \in Coros, ch \in Channels :
    Recv(c, ch) \/ \E v \in Values : Send(c, ch, v)

Spec == Init /\ [][Next]_vars
=============================================================================
