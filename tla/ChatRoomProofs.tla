--------------------------- MODULE ChatRoomProofs ---------------------------
(***************************************************************************)
(* Theorems about ChatRoom for any number of clients and threads, any      *)
(* scripts and any size of the send buffer.                                *)
(*                                                                         *)
(* All rests on the mutex being held while a broadcast is suspended        *)
(* (Exclusive): clients_ does not change under the loop, and only the      *)
(* holder sends broadcasts.  Placed ties the place of a handler to its     *)
(* membership, Awaited says that a scheduler wakes only handlers that      *)
(* wait, and Wires is what a broadcast has sent when it is suspended.      *)
(* Numbered is about the order of the broadcasts: the one that holds the   *)
(* mutex is the latest, and new to the clients that it has not reached.    *)
(***************************************************************************)
EXTENDS ChatRoom, SequenceTheorems, TLAPS

PlacedAt(k) ==
  /\ status[k] = "new" => at[k] = "join"
  /\ at[k] = "join" => ~ InRoom(k)
  /\ at[k] \in {"recv", "leave", "pong"} => InRoom(k)
  /\ at[k] \in {"lock", "send", "blocked"} =>
       msg[k] \in Msgs /\ (InRoom(k) <=> msg[k].kind # "left")
  /\ at[k] \in {"lock", "send"} => msg[k].kind # "pong"
  /\ at[k] = "pong" => msg[k] \in Msgs /\ msg[k].kind = "pong"
  /\ status[k] = "done" => ~ InRoom(k)

Placed == \A k \in Clients : PlacedAt(k)

\* Who is named in a waiting_map waits, and for one descriptor.
Awaited ==
  \A c, d \in Clients :
    /\ waits[c] # None => status[waits[c].co] = "waiting"
    /\ waits[c] # None /\ waits[d] # None /\ waits[c].co = waits[d].co => c = d

Exclusive ==
  /\ IsInjective(members)
  /\ \A k \in Clients :
       /\ Broadcasting(k) => mutex = k /\ pos[k] > 0
       /\ Broadcasting(k) /\ (sent[k] > 0 \/ at[k] = "blocked") => pos[k] \in DOMAIN members
       /\ at[k] \notin {"send", "blocked", "pong"} => sent[k] = 0

\* A frame of which the first half is out; only replies to PINGs came after it.
Half(units, m) ==
  \E j \in DOMAIN units :
    units[j] = <<m, 1>> /\ \A h \in j + 1 .. Len(units) : units[h][1].kind = "pong"

Has(c, m) == closed[c] \/ <<m, 2>> \in Range(wire[c])

Wires ==
  /\ BroadcastsIntact
  /\ \A k \in Clients : Broadcasting(k) =>
       /\ sent[k] > 0 => Half(wire[members[pos[k]]], msg[k])
       /\ \A i \in DOMAIN members : i < pos[k] => Has(members[i], msg[k])

\* What c has heard in full is older than broadcast n.
Below(c, n) == \A u \in Range(wire[c]) : Finished(u) => u[1].nr < n

\* A broadcast is the latest one, and new to the clients that it has not reached.
NumberedAt(k) ==
  Broadcasting(k) => msg[k].nr = turn /\ \A i \in DOMAIN members : i >= pos[k] => Below(members[i], turn)

Numbered ==
  /\ SameOrder
  /\ \A k \in Clients : Below(k, turn + 1) /\ NumberedAt(k)

IInv == TypeOK /\ Placed /\ Awaited /\ Exclusive /\ Wires /\ Numbered

-----------------------------------------------------------------------------
(* What write() does to the connection of c: five outcomes.                *)

\* Nothing moves but the loop: on to the next client, or back to the frames.
Ended(k) ==
  /\ Advance(k)
  /\ sent' = [sent EXCEPT ![k] = 0]

Skips(k, c) ==
  /\ closed[c]
  /\ Ended(k)
  /\ foreign' \in BOOLEAN
  /\ UNCHANGED <<wire, waits, status, closed>>

Blocks(k, c) ==
  /\ waits' = [waits EXCEPT ![c] = [co |-> k, ev |-> "out"]]
  /\ status' = [status EXCEPT ![k] = "waiting"]
  /\ at' = [at EXCEPT ![k] = "blocked"]
  /\ UNCHANGED <<pos, sent, wire, foreign, closed>>

Enters(k, c) ==
  /\ foreign' \in BOOLEAN
  /\ UNCHANGED <<at, pos, sent, wire, waits, status, closed>>

Sends(k, c, n) ==
  /\ n <= SndBuf - Unread(c)
  /\ wire' = [wire EXCEPT ![c] = @ \o [i \in 1 .. n |-> <<msg[k], sent[k] + i>>]]
  /\ IF sent[k] + n = 2 THEN Ended(k)
     ELSE sent[k] = 0 /\ n = 1 /\ sent' = [sent EXCEPT ![k] = 1] /\ UNCHANGED <<at, pos>>
  /\ UNCHANGED <<waits, status, foreign, closed>>

LEMMA WriteCases ==
  ASSUME TypeOK, NEW k \in Clients, NEW c \in Clients, Write(k, c)
  PROVE  \/ Skips(k, c)
         \/ closed' = [closed EXCEPT ![c] = TRUE] /\ Ended(k)
            /\ UNCHANGED <<wire, waits, status, foreign>>
         \/ Blocks(k, c)
         \/ Enters(k, c)
         \/ \E n \in {1, 2} : sent[k] + n <= 2 /\ Sends(k, c, n)
<1>1. CASE closed[c] /\ sent[k] = 0
  <2>1. sent = [sent EXCEPT ![k] = 0]
    BY <1>1 DEF TypeOK
  <2>2. Skips(k, c)
    BY <1>1, <2>1 DEF Write, Skips, Ended, TypeOK
  <2>3. QED
    BY <2>2
<1>2. CASE ~ (closed[c] /\ sent[k] = 0) /\ WriteFails(k, c)
  BY <1>2 DEF WriteFails, Ended
<1>3. CASE ~ (closed[c] /\ sent[k] = 0) /\ WriteMore(k, c) /\ UNCHANGED closed
  <2> DEFINE room == SndBuf - Unread(c)
             n == IF room < 2 - sent[k] THEN room ELSE 2 - sent[k]
  <2>1. sent[k] \in {0, 1} /\ room \in Nat
    <3>1. sent[k] \in 0 .. 1 /\ Unread(c) \in 0 .. SndBuf
      BY DEF TypeOK, Unread
    <3>2. QED
      BY <3>1, ChatRoomAssumption
  <2>2. n \in {0, 1, 2} /\ n <= room /\ sent[k] + n <= 2
    BY <2>1
  <2>3. CASE n = 0 /\ Home[c] = Home[k]
    <3>1. Blocks(k, c)
      BY <1>3, <2>3 DEF WriteMore, WaitEvent, Blocks
    <3>2. QED
      BY <3>1
  <2>4. CASE n = 0 /\ Home[c] # Home[k]
    <3>1. /\ UNCHANGED <<wire, waits, status, closed>> /\ foreign' \in BOOLEAN
          /\ IF closed[c] /\ ~ foreign'
               THEN Advance(k) /\ sent' = [sent EXCEPT ![k] = 0]
               ELSE UNCHANGED <<at, pos, sent>>
      BY <1>3, <2>4 DEF WriteMore, WaitEvent
    <3>2. CASE closed[c] /\ ~ foreign'
      BY <3>1, <3>2 DEF Skips, Ended
    <3>3. CASE ~ (closed[c] /\ ~ foreign')
      BY <3>1, <3>3 DEF Enters
    <3>4. QED
      BY <3>2, <3>3
  <2>5. CASE n # 0
    <3>1. n \in {1, 2} /\ (sent[k] + n # 2 => n = 1 /\ sent[k] = 0)
      BY <2>1, <2>2, <2>5
    <3>2. /\ wire' = [wire EXCEPT ![c] = @ \o [i \in 1 .. n |-> <<msg[k], sent[k] + i>>]]
          /\ IF sent[k] + n = 2
               THEN Advance(k) /\ sent' = [sent EXCEPT ![k] = 0]
               ELSE sent' = [sent EXCEPT ![k] = sent[k] + n] /\ UNCHANGED <<at, pos>>
          /\ UNCHANGED <<waits, status, foreign, closed>>
      BY <1>3, <2>5 DEF WriteMore
    <3>3. Sends(k, c, n)
      BY <2>2, <3>1, <3>2 DEF Sends, Ended
    <3>4. QED
      BY <2>2, <3>1, <3>3
  <2>6. QED
    BY <2>3, <2>4, <2>5
<1>4. QED
  BY <1>1, <1>2, <1>3 DEF Write

-----------------------------------------------------------------------------
(* Type correctness.                                                       *)

LEMMA InitTyped == Init => TypeOK
<1> SUFFICES ASSUME Init PROVE TypeOK
  OBVIOUS
<1>1. wire = [k \in Clients |-> <<>>] /\ taken = [k \in Clients |-> 0] /\ SndBuf \in Nat
  BY ChatRoomAssumption DEF Init
<1>2. \A k \in Clients : Len(wire[k]) - taken[k] \in 0 .. SndBuf
  BY <1>1
<1>3. script \in [Clients -> Seq(Said)]
  BY ChatRoomAssumption DEF Init
<1>4. wire \in [Clients -> Seq(Msgs \X {1, 2})] /\ taken \in [Clients -> Nat]
  BY <1>1
<1>5. members \in Seq(Clients) /\ inbox \in [Clients -> Seq(Said)]
  BY DEF Init
<1>6. waits \in [Clients -> [co : Clients, ev : {"in", "out"}] \cup {None}]
  BY DEF Init
<1>7. /\ msg \in [Clients -> Msgs \cup {None}]
      /\ pos \in [Clients -> Nat]
      /\ sent \in [Clients -> 0 .. 1]
  BY DEF Init
<1>8. /\ status \in [Clients -> {"new", "ready", "running", "waiting", "done"}]
      /\ at \in [Clients -> {"join", "list", "lock", "send", "pong", "blocked", "recv", "leave"}]
      /\ mutex \in Clients \cup {None}
      /\ turn \in Nat
      /\ closed \in [Clients -> BOOLEAN]
      /\ foreign \in BOOLEAN
  BY DEF Init
<1>9. QED
  BY <1>2, <1>3, <1>4, <1>5, <1>6, <1>7, <1>8 DEF TypeOK

\* The target of a broadcast that has not reached the end of clients_.
LEMMA TargetIsMember ==
  ASSUME TypeOK, Exclusive, NEW k \in Clients, Send(k)
  PROVE  /\ pos[k] \in DOMAIN members
         /\ Target(k) = members[pos[k]] /\ Target(k) \in Clients
         /\ Broadcasting(k)
<1>1. Broadcasting(k)
  BY DEF Send, At, Broadcasting
<1>2. pos[k] \in 1 .. Len(members)
  BY <1>1 DEF Send, Exclusive, TypeOK
<1>3. QED
  BY <1>1, <1>2 DEF Send, At, Target, TypeOK

LEMMA UnitsAreTyped ==
  ASSUME NEW m \in Msgs, NEW s \in {0, 1}, NEW n \in {1, 2}, s + n <= 2
  PROVE  /\ [i \in 1 .. n |-> <<m, s + i>>] \in Seq(Msgs \X {1, 2})
         /\ Len([i \in 1 .. n |-> <<m, s + i>>]) = n
<1>1. \A i \in 1 .. n : <<m, s + i>> \in Msgs \X {1, 2}
  OBVIOUS
<1>2. QED
  BY <1>1

LEMMA EndedTyped ==
  ASSUME TypeOK, NEW k \in Clients, Ended(k)
  PROVE  /\ at' \in [Clients -> {"join", "list", "lock", "send", "pong", "blocked", "recv", "leave"}]
         /\ pos' \in [Clients -> Nat]
         /\ sent' \in [Clients -> 0 .. 1]
<1>1. /\ at \in [Clients -> {"join", "list", "lock", "send", "pong", "blocked", "recv", "leave"}]
      /\ pos \in [Clients -> Nat]
      /\ sent \in [Clients -> 0 .. 1]
  BY DEF TypeOK
<1>2. QED
  BY <1>1 DEF Ended, Advance

LEMMA WriteTyped ==
  ASSUME TypeOK, NEW k \in Clients, NEW c \in Clients, msg[k] \in Msgs,
         Write(k, c), UNCHANGED <<msg, roomVars, clientVars>>
  PROVE  TypeOK'
<1> USE DEF roomVars, clientVars
<1>1. CASE Skips(k, c)
  BY <1>1, EndedTyped DEF Skips, TypeOK
<1>2. CASE /\ closed' = [closed EXCEPT ![c] = TRUE] /\ Ended(k)
           /\ UNCHANGED <<wire, waits, status, foreign>>
  BY <1>2, EndedTyped DEF TypeOK
<1>3. CASE Blocks(k, c)
  BY <1>3 DEF Blocks, TypeOK
<1>4. CASE Enters(k, c)
  BY <1>4 DEF Enters, TypeOK
<1>5. ASSUME NEW n \in {1, 2}, sent[k] + n <= 2, Sends(k, c, n)
      PROVE  TypeOK'
  <2> DEFINE units == [i \in 1 .. n |-> <<msg[k], sent[k] + i>>]
  <2>1. units \in Seq(Msgs \X {1, 2}) /\ Len(units) = n
    <3>1. sent[k] \in {0, 1}
      BY DEF TypeOK
    <3>2. QED
      BY <1>5, <3>1, UnitsAreTyped
  <2>2. wire \in [Clients -> Seq(Msgs \X {1, 2})] /\ wire' = [wire EXCEPT ![c] = wire[c] \o units]
    BY <1>5 DEF Sends, TypeOK
  <2> HIDE DEF units
  <2>3. /\ wire[c] \o units \in Seq(Msgs \X {1, 2})
        /\ Len(wire[c] \o units) = Len(wire[c]) + n
    BY <2>1, <2>2, ConcatProperties
  <2>4. wire' \in [Clients -> Seq(Msgs \X {1, 2})]
    BY <2>2, <2>3
  <2>5. \A d \in Clients : Len(wire'[d]) - taken'[d] \in 0 .. SndBuf
    <3>1. \A d \in Clients : Len(wire[d]) - taken[d] \in 0 .. SndBuf /\ taken[d] \in Nat
      BY DEF TypeOK
    <3>2. n <= SndBuf - (Len(wire[c]) - taken[c]) /\ taken' = taken
      BY <1>5 DEF Sends, Unread
    <3>3. SndBuf \in Nat /\ Len(wire[c]) \in Nat
      BY <2>2, LenProperties, ChatRoomAssumption
    <3>4. wire'[c] = wire[c] \o units /\ \A d \in Clients : d # c => wire'[d] = wire[d]
      BY <2>2
    <3>5. Len(wire'[c]) - taken'[c] \in 0 .. SndBuf
      <4>1. Len(wire'[c]) = Len(wire[c]) + n
        BY <2>3, <3>4
      <4>2. Len(wire[c]) - taken[c] \in 0 .. SndBuf /\ taken[c] \in Nat /\ taken'[c] = taken[c]
        BY <3>1, <3>2
      <4>3. n \in {1, 2} /\ n <= SndBuf - (Len(wire[c]) - taken[c])
        BY <3>2
      <4>4. QED
        BY <3>3, <4>1, <4>2, <4>3
    <3>6. QED
      BY <3>1, <3>2, <3>4, <3>5
  <2>6. /\ at' \in [Clients -> {"join", "list", "lock", "send", "pong", "blocked", "recv", "leave"}]
        /\ pos' \in [Clients -> Nat]
        /\ sent' \in [Clients -> 0 .. 1]
    <3>1. CASE Ended(k)
      BY <3>1, EndedTyped
    <3>2. CASE sent' = [sent EXCEPT ![k] = 1] /\ UNCHANGED <<at, pos>>
      <4>1. sent \in [Clients -> 0 .. 1]
        BY DEF TypeOK
      <4>2. sent' \in [Clients -> 0 .. 1]
        BY <3>2, <4>1
      <4>3. QED
        BY <3>2, <4>2 DEF TypeOK
    <3>3. QED
      BY <1>5, <3>1, <3>2 DEF Sends
  <2>7. QED
    BY <1>5, <2>4, <2>5, <2>6 DEF Sends, TypeOK
<1>6. QED
  BY <1>1, <1>2, <1>3, <1>4, <1>5, WriteCases

LEMMA Spliced ==
  ASSUME NEW q \in Seq(Clients), NEW i \in 1 .. Len(q),
         NEW front \in Seq(Clients), Len(front) = i - 1,
         \A j \in 1 .. i - 1 : front[j] = q[j],
         NEW back \in Seq(Clients), Len(back) = Len(q) - i,
         \A j \in 1 .. Len(q) - i : back[j] = q[i + j]
  PROVE  /\ front \o back \in Seq(Clients)
         /\ Len(front \o back) = Len(q) - 1
         /\ \A j \in 1 .. Len(q) - 1 :
              (front \o back)[j] = IF j < i THEN q[j] ELSE q[j + 1]
<1>1. /\ front \o back \in Seq(Clients)
      /\ Len(front \o back) = Len(front) + Len(back)
      /\ \A j \in 1 .. Len(front) + Len(back) :
           (front \o back)[j] = IF j <= Len(front) THEN front[j] ELSE back[j - Len(front)]
  BY ConcatProperties
<1>2. Len(q) \in Nat
  BY LenProperties
<1>3. ASSUME NEW j \in 1 .. Len(q) - 1
      PROVE  (front \o back)[j] = IF j < i THEN q[j] ELSE q[j + 1]
  <2>1. CASE j < i
    BY <1>1, <1>2, <2>1
  <2>2. CASE ~ (j < i)
    <3>1. j - (i - 1) \in 1 .. Len(q) - i
      BY <1>2, <2>2
    <3>2. (front \o back)[j] = back[j - (i - 1)]
      BY <1>1, <1>2, <2>2
    <3>3. back[j - (i - 1)] = q[i + (j - (i - 1))]
      BY <3>1
    <3>4. i + (j - (i - 1)) = j + 1
      BY <1>2
    <3>5. QED
      BY <2>2, <3>2, <3>3, <3>4
  <2>3. QED
    BY <2>1, <2>2
<1>4. QED
  BY <1>1, <1>2, <1>3

LEMMA MembersTyped ==
  ASSUME members \in Seq(Clients), NEW i \in DOMAIN members
  PROVE  /\ RemoveAt(members, i) \in Seq(Clients)
         /\ Len(RemoveAt(members, i)) = Len(members) - 1
         /\ \A j \in 1 .. Len(members) - 1 :
              RemoveAt(members, i)[j] = IF j < i THEN members[j] ELSE members[j + 1]
<1>1. i \in 1 .. Len(members) /\ Len(members) \in Nat
  OBVIOUS
<1>2. /\ SubSeq(members, 1, i - 1) \in Seq(Clients)
      /\ Len(SubSeq(members, 1, i - 1)) = i - 1
      /\ \A j \in 1 .. i - 1 : SubSeq(members, 1, i - 1)[j] = members[j]
  BY <1>1
<1>3. /\ SubSeq(members, i + 1, Len(members)) \in Seq(Clients)
      /\ Len(SubSeq(members, i + 1, Len(members))) = Len(members) - i
      /\ \A j \in 1 .. Len(members) - i : SubSeq(members, i + 1, Len(members))[j] = members[i + j]
  BY <1>1
<1>4. QED
  BY <1>1, <1>2, <1>3, Spliced DEF RemoveAt

\* The message that is broadcast next gets its number.
LEMMA TurnTaken ==
  ASSUME TypeOK, Placed, NEW k \in Clients, Lock(k)
  PROVE  /\ msg' \in [Clients -> Msgs \cup {None}] /\ turn' = turn + 1 /\ turn' \in Nat
         /\ msg[k] \in Msgs /\ msg'[k] \in Msgs
         /\ msg'[k].kind = msg[k].kind /\ msg'[k].nr = turn + 1
         /\ \A d \in Clients : d # k => msg'[d] = msg[d]
<1>1. msg[k] \in Msgs
  BY DEF Lock, At, Placed, PlacedAt
<1>2. /\ msg \in [Clients -> Msgs \cup {None}] /\ turn \in Nat
      /\ turn' = turn + 1 /\ msg' = [msg EXCEPT ![k] = [msg[k] EXCEPT !.nr = turn + 1]]
  BY DEF TypeOK, Lock, TakeTurn
<1>3. /\ [msg[k] EXCEPT !.nr = turn + 1] \in Msgs
      /\ [msg[k] EXCEPT !.nr = turn + 1].kind = msg[k].kind
      /\ [msg[k] EXCEPT !.nr = turn + 1].nr = turn + 1
  BY <1>1, <1>2 DEF Msgs
<1>4. QED
  BY <1>1, <1>2, <1>3

LEMMA NextTyped == TypeOK /\ Placed /\ Exclusive /\ [Next]_vars => TypeOK'
<1> SUFFICES ASSUME TypeOK, Placed, Exclusive, [Next]_vars PROVE TypeOK'
  OBVIOUS
<1> USE DEF handlerVars, roomVars, clientVars
<1>1. ASSUME NEW k \in Clients, Connect(k) PROVE TypeOK'
  BY <1>1 DEF Connect, TypeOK
<1>2. ASSUME NEW k \in Clients, ClientSends(k) PROVE TypeOK'
  <2>1. Head(script[k]) \in Said /\ Tail(script[k]) \in Seq(Said)
    BY <1>2, HeadTailProperties DEF ClientSends, TypeOK
  <2>2. Append(inbox[k], Head(script[k])) \in Seq(Said)
    BY <2>1, AppendProperties DEF TypeOK
  <2>3. inbox' \in [Clients -> Seq(Said)] /\ script' \in [Clients -> Seq(Said)]
    BY <1>2, <2>1, <2>2 DEF ClientSends, TypeOK
  <2>4. QED
    BY <1>2, <2>3 DEF ClientSends, TypeOK
<1>3. ASSUME NEW k \in Clients, ClientReads(k) PROVE TypeOK'
  <2>1. wire[k] \in Seq(Msgs \X {1, 2}) /\ Len(wire[k]) \in Nat /\ SndBuf \in Nat
    BY ChatRoomAssumption, LenProperties DEF TypeOK
  <2>2. taken' = [taken EXCEPT ![k] = Len(wire[k])] /\ wire' = wire
    BY <1>3 DEF ClientReads
  <2>3. taken' \in [Clients -> Nat]
    BY <2>1, <2>2 DEF TypeOK
  <2>4. \A d \in Clients : Len(wire'[d]) - taken'[d] \in 0 .. SndBuf
    <3>1. \A d \in Clients : Len(wire[d]) - taken[d] \in 0 .. SndBuf
      BY DEF TypeOK
    <3>2. taken'[k] = Len(wire[k]) /\ \A d \in Clients : d # k => taken'[d] = taken[d]
      BY <2>2 DEF TypeOK
    <3>3. QED
      BY <2>1, <2>2, <3>1, <3>2
  <2>5. QED
    BY <1>3, <2>3, <2>4 DEF ClientReads, TypeOK
<1>4. ASSUME NEW k \in Clients, Resume(k) PROVE TypeOK'
  <2>1. at' \in [Clients -> {"join", "list", "lock", "send", "pong", "blocked", "recv", "leave"}]
    BY <1>4 DEF Resume, TypeOK
  <2>2. pos' \in [Clients -> Nat] /\ sent' \in [Clients -> 0 .. 1]
    <3>1. pos \in [Clients -> Nat] /\ sent \in [Clients -> 0 .. 1]
      BY DEF TypeOK
    <3>2. pos' = pos \/ pos' = [pos EXCEPT ![k] = @ + 1]
      BY <1>4 DEF Resume
    <3>3. sent' = sent \/ sent' = [sent EXCEPT ![k] = 0]
      BY <1>4 DEF Resume
    <3>4. QED
      BY <3>1, <3>2, <3>3
  <2>3. status' \in [Clients -> {"new", "ready", "running", "waiting", "done"}]
    BY <1>4 DEF Resume, TypeOK
  <2>4. QED
    BY <1>4, <2>1, <2>2, <2>3 DEF Resume, TypeOK
<1>5. ASSUME NEW k \in Clients, Wake(k) PROVE TypeOK'
  <2>1. status' \in [Clients -> {"new", "ready", "running", "waiting", "done"}]
    BY <1>5 DEF Wake, TypeOK
  <2>2. waits' \in [Clients -> [co : Clients, ev : {"in", "out"}] \cup {None}]
    BY <1>5 DEF Wake, TypeOK
  <2>3. QED
    BY <1>5, <2>1, <2>2 DEF Wake, TypeOK
<1>6. ASSUME NEW k \in Clients, Join(k) PROVE TypeOK'
  <2>1. members' \in Seq(Clients)
    BY <1>6, AppendProperties DEF Join, TypeOK
  <2>2. QED
    BY <1>6, <2>1 DEF Join, TypeOK
<1>7. ASSUME NEW k \in Clients, List(k) PROVE TypeOK'
  <2>1. Range(members) \in SUBSET Clients
    BY DEF TypeOK, Range
  <2>2. msg' \in [Clients -> Msgs \cup {None}]
    BY <1>7, <2>1 DEF List, TypeOK, Msgs
  <2>3. at' \in [Clients -> {"join", "list", "lock", "send", "pong", "blocked", "recv", "leave"}]
    BY <1>7 DEF List, TypeOK
  <2>4. QED
    BY <1>7, <2>2, <2>3 DEF List, TypeOK
<1>8. ASSUME NEW k \in Clients, Lock(k) PROVE TypeOK'
  <2>1. msg' \in [Clients -> Msgs \cup {None}] /\ turn' \in Nat
    BY <1>8, TurnTaken
  <2>2. QED
    BY <1>8, <2>1 DEF Lock, TypeOK
<1>9. ASSUME NEW k \in Clients, Send(k) PROVE TypeOK'
  <2>1. Target(k) \in Clients /\ msg[k] \in Msgs
    BY <1>9, TargetIsMember DEF Send, At, Placed, PlacedAt
  <2>2. QED
    BY <1>9, <2>1, WriteTyped DEF Send
<1>10. ASSUME NEW k \in Clients, Unlock(k) PROVE TypeOK'
  BY <1>10 DEF Unlock, TypeOK
<1>11. ASSUME NEW k \in Clients, Await(k) PROVE TypeOK'
  <2>1. status' \in [Clients -> {"new", "ready", "running", "waiting", "done"}]
    BY <1>11 DEF Await, WaitEvent, TypeOK
  <2>2. waits' \in [Clients -> [co : Clients, ev : {"in", "out"}] \cup {None}]
    <3>1. [co |-> k, ev |-> "in"] \in [co : Clients, ev : {"in", "out"}]
      OBVIOUS
    <3>2. waits' = waits \/ waits' = [waits EXCEPT ![k] = [co |-> k, ev |-> "in"]]
      BY <1>11 DEF Await, WaitEvent
    <3>3. waits \in [Clients -> [co : Clients, ev : {"in", "out"}] \cup {None}]
      BY DEF TypeOK
    <3>4. QED
      BY <3>1, <3>2, <3>3
  <2>3. foreign' \in BOOLEAN
    BY <1>11 DEF Await, WaitEvent, TypeOK
  <2>4. QED
    BY <1>11, <2>1, <2>2, <2>3 DEF Await, TypeOK
<1>12. ASSUME NEW k \in Clients, Closed(k) PROVE TypeOK'
  BY <1>12 DEF Closed, TypeOK
<1>13. ASSUME NEW k \in Clients, Frame(k) PROVE TypeOK'
  <2>1. Tail(inbox[k]) \in Seq(Said)
    BY <1>13, HeadTailProperties DEF Frame, TypeOK
  <2>2. inbox' \in [Clients -> Seq(Said)]
    BY <1>13, <2>1 DEF Frame, TypeOK
  <2>3. msg' \in [Clients -> Msgs \cup {None}]
    <3>1. Text(k) \in Msgs /\ Pong(k) \in Msgs
      BY DEF Text, Pong, Msgs
    <3>2. QED
      BY <1>13, <3>1 DEF Frame, TypeOK
  <2>4. at' \in [Clients -> {"join", "list", "lock", "send", "pong", "blocked", "recv", "leave"}]
    BY <1>13 DEF Frame, TypeOK
  <2>5. closed' \in [Clients -> BOOLEAN]
    BY <1>13 DEF Frame, TypeOK
  <2>6. QED
    BY <1>13, <2>2, <2>3, <2>4, <2>5 DEF Frame, TypeOK
<1>14. ASSUME NEW k \in Clients, Ponging(k) PROVE TypeOK'
  <2>1. msg[k] \in Msgs
    BY <1>14 DEF Ponging, At, Placed, PlacedAt
  <2>2. QED
    BY <1>14, <2>1, WriteTyped DEF Ponging
<1>15. ASSUME NEW k \in Clients, Leave(k) PROVE TypeOK'
  <2>1. members' \in Seq(Clients)
    BY <1>15, MembersTyped DEF Leave, TypeOK
  <2>2. QED
    BY <1>15, <2>1 DEF Leave, TypeOK
<1>16. CASE UNCHANGED vars
  BY <1>16 DEF vars, TypeOK
<1>17. QED
  BY <1>1, <1>2, <1>3, <1>4, <1>5, <1>6, <1>7, <1>8, <1>9, <1>10, <1>11, <1>12, <1>13,
     <1>14, <1>15, <1>16 DEF Next, Handler
-----------------------------------------------------------------------------
(* Where a handler is, and whether its client is in the room.              *)

LEMMA MembersJoin ==
  ASSUME members \in Seq(Clients), NEW k \in Clients
  PROVE  /\ Range(Append(members, k)) = Range(members) \cup {k}
         /\ IsInjective(members) /\ ~ InRoom(k) => IsInjective(Append(members, k))
<1>1. /\ Append(members, k) \in Seq(Clients)
      /\ Len(Append(members, k)) = Len(members) + 1
      /\ \A i \in 1 .. Len(members) : Append(members, k)[i] = members[i]
      /\ Append(members, k)[Len(members) + 1] = k
  BY AppendProperties
<1>2. /\ DOMAIN members = 1 .. Len(members) /\ Len(members) \in Nat
      /\ DOMAIN Append(members, k) = 1 .. Len(members) + 1
  BY <1>1, LenProperties
<1>3. QED
  BY <1>1, <1>2 DEF Range, IsInjective, InRoom

LEMMA MembersLeave ==
  ASSUME members \in Seq(Clients), IsInjective(members), NEW i \in DOMAIN members
  PROVE  /\ Range(RemoveAt(members, i)) = Range(members) \ {members[i]}
         /\ IsInjective(RemoveAt(members, i))
<1> DEFINE rest == RemoveAt(members, i)
<1>1. /\ rest \in Seq(Clients)
      /\ Len(rest) = Len(members) - 1
      /\ \A j \in 1 .. Len(members) - 1 :
           rest[j] = IF j < i THEN members[j] ELSE members[j + 1]
  BY MembersTyped
<1>2. DOMAIN members = 1 .. Len(members) /\ Len(members) \in Nat
  BY LenProperties
<1> HIDE DEF rest
<1>3. DOMAIN rest = 1 .. Len(members) - 1
  BY <1>1, LenProperties
<1>4. \A j \in DOMAIN rest :
        LET h == IF j < i THEN j ELSE j + 1 IN
          h \in DOMAIN members /\ h # i /\ rest[j] = members[h]
  BY <1>1, <1>2, <1>3
<1>5. \A h \in DOMAIN members : h # i =>
        LET j == IF h < i THEN h ELSE h - 1 IN
          j \in DOMAIN rest /\ rest[j] = members[h]
  BY <1>1, <1>2, <1>3
<1>6. Range(rest) = Range(members) \ {members[i]}
  <2>1. ASSUME NEW c \in Range(rest) PROVE c \in Range(members) /\ c # members[i]
    BY <1>4 DEF Range, IsInjective
  <2>2. ASSUME NEW c \in Range(members), c # members[i] PROVE c \in Range(rest)
    BY <1>5, <2>2 DEF Range
  <2>3. QED
    BY <2>1, <2>2
<1>7. IsInjective(rest)
  <2> SUFFICES ASSUME NEW a \in DOMAIN rest, NEW b \in DOMAIN rest, rest[a] = rest[b]
               PROVE  a = b
    BY DEF IsInjective
  <2>1. (IF a < i THEN a ELSE a + 1) = (IF b < i THEN b ELSE b + 1)
    BY <1>4 DEF IsInjective
  <2>2. QED
    BY <1>2, <1>3, <2>1
<1>8. QED
  BY <1>6, <1>7 DEF rest

\* What a step of another handler leaves alone.
LEMMA PlacedElsewhere ==
  ASSUME NEW d \in Clients, PlacedAt(d),
         status'[d] = status[d], at'[d] = at[d], msg'[d] = msg[d], InRoom(d)' = InRoom(d)
  PROVE  PlacedAt(d)'
BY DEF PlacedAt

LEMMA InitPlaced == Init => Placed
BY DEF Init, Placed, PlacedAt, InRoom, Range

LEMMA EndedPlaced ==
  ASSUME TypeOK, NEW k \in Clients, Ended(k)
  PROVE  /\ \A d \in Clients : d # k => at'[d] = at[d]
         /\ at'[k] = IF at[k] = "pong" THEN "recv" ELSE at[k]
         /\ \A d \in Clients : d # k => pos'[d] = pos[d] /\ sent'[d] = sent[d]
         /\ pos'[k] = IF at[k] = "pong" THEN pos[k] ELSE pos[k] + 1
         /\ sent'[k] = 0
BY DEF Ended, Advance, TypeOK

LEMMA WritePlaces ==
  ASSUME TypeOK, NEW k \in Clients, NEW c \in Clients, Write(k, c)
  PROVE  /\ \A d \in Clients : d # k => status'[d] = status[d] /\ at'[d] = at[d]
         /\ \/ status'[k] = status[k]
            \/ status'[k] = "waiting"
         /\ \/ at'[k] \in {at[k], "blocked"}
            \/ at[k] = "pong" /\ at'[k] = "recv"
<1>1. CASE Ended(k) /\ status' = status
  BY <1>1, EndedPlaced
<1>2. CASE Blocks(k, c)
  BY <1>2 DEF Blocks, TypeOK
<1>3. CASE at' = at /\ status' = status
  BY <1>3
<1>4. QED
  BY <1>1, <1>2, <1>3, WriteCases DEF Skips, Enters, Sends

LEMMA WriteMoves ==
  ASSUME TypeOK, NEW k \in Clients, NEW c \in Clients, Write(k, c)
  PROVE  /\ pos'[k] = pos[k] \/ pos'[k] = pos[k] + 1
         /\ \A d \in Clients : d # k => pos'[d] = pos[d]
<1>1. CASE Ended(k)
  BY <1>1, EndedPlaced
<1>2. CASE pos' = pos
  BY <1>2
<1>3. QED
  BY <1>1, <1>2, WriteCases DEF Skips, Blocks, Enters, Sends

LEMMA NextPlaced == TypeOK /\ Placed /\ Awaited /\ Exclusive /\ [Next]_vars => Placed'
<1> SUFFICES ASSUME TypeOK, Placed, Awaited, Exclusive, [Next]_vars PROVE Placed'
  OBVIOUS
<1> USE DEF handlerVars, roomVars, clientVars
<1>0. ASSUME NEW k \in Clients,
             \A d \in Clients : d # k =>
               /\ status'[d] = status[d] /\ at'[d] = at[d] /\ msg'[d] = msg[d]
               /\ InRoom(d)' = InRoom(d),
             PlacedAt(k)'
      PROVE  Placed'
  BY <1>0, PlacedElsewhere DEF Placed
<1>1. ASSUME NEW k \in Clients, Connect(k) PROVE Placed'
  BY <1>1, <1>0 DEF Connect, TypeOK, Placed, PlacedAt, InRoom
<1>2. ASSUME NEW k \in Clients, ClientSends(k) PROVE Placed'
  BY <1>2 DEF ClientSends, Placed, PlacedAt, InRoom
<1>3. ASSUME NEW k \in Clients, ClientReads(k) PROVE Placed'
  BY <1>3 DEF ClientReads, Placed, PlacedAt, InRoom
<1>4. ASSUME NEW k \in Clients, Resume(k) PROVE Placed'
  <2>1. \A d \in Clients : d # k => status'[d] = status[d] /\ at'[d] = at[d]
    BY <1>4 DEF Resume, TypeOK
  <2>2. /\ status'[k] = "running" /\ status[k] = "ready"
        /\ \/ at'[k] = at[k]
           \/ at[k] = "blocked" /\ msg[k].kind = "pong" /\ at'[k] \in {"recv", "pong"}
           \/ at[k] = "blocked" /\ msg[k].kind # "pong" /\ at'[k] = "send"
    BY <1>4 DEF Resume, TypeOK
  <2>3. \A d \in Clients : InRoom(d)' = InRoom(d) /\ msg'[d] = msg[d]
    BY <1>4 DEF Resume, InRoom
  <2>4. PlacedAt(k)'
    BY <2>2, <2>3 DEF Placed, PlacedAt
  <2>5. QED
    BY <1>0, <2>1, <2>3, <2>4
<1>5. ASSUME NEW k \in Clients, Wake(k) PROVE Placed'
  <2>1. waits[k].co \in Clients /\ status[waits[k].co] = "waiting"
    BY <1>5 DEF Wake, Awaited, TypeOK
  <2>2. /\ \A d \in Clients : d # waits[k].co => status'[d] = status[d]
        /\ status'[waits[k].co] = "ready"
    BY <1>5, <2>1 DEF Wake, TypeOK
  <2>3. \A d \in Clients : at'[d] = at[d] /\ msg'[d] = msg[d] /\ InRoom(d)' = InRoom(d)
    BY <1>5 DEF Wake, InRoom
  <2>4. QED
    BY <2>1, <2>2, <2>3 DEF Placed, PlacedAt
<1>6. ASSUME NEW k \in Clients, Join(k) PROVE Placed'
  <2>1. Range(members') = Range(members) \cup {k}
    BY <1>6, MembersJoin DEF Join, TypeOK
  <2>2. \A d \in Clients : d # k => InRoom(d)' = InRoom(d)
    BY <2>1 DEF InRoom
  <2>3. at'[k] = "list" /\ status'[k] = "running" /\ \A d \in Clients : d # k => at'[d] = at[d]
    BY <1>6 DEF Join, At, TypeOK
  <2>4. QED
    BY <1>0, <1>6, <2>2, <2>3 DEF Join, PlacedAt
<1>7. ASSUME NEW k \in Clients, List(k) PROVE Placed'
  <2>1. at'[k] = "lock" /\ status'[k] = "running" /\ \A d \in Clients : d # k => at'[d] = at[d]
    BY <1>7 DEF List, At, TypeOK
  <2>2. /\ msg'[k].kind = IF InRoom(k) THEN "joined" ELSE "left"
        /\ \A d \in Clients : d # k => msg'[d] = msg[d]
    BY <1>7 DEF List, TypeOK, InRoom
  <2>3. msg'[k] \in Msgs
    <3>1. Range(members) \in SUBSET Clients
      BY DEF TypeOK, Range
    <3>2. QED
      BY <1>7, <3>1 DEF List, TypeOK, Msgs
  <2>4. \A d \in Clients : InRoom(d)' = InRoom(d)
    BY <1>7 DEF List, InRoom
  <2>5. PlacedAt(k)'
    BY <2>1, <2>2, <2>3, <2>4 DEF PlacedAt
  <2>6. QED
    BY <1>0, <1>7, <2>1, <2>2, <2>4, <2>5 DEF List
<1>8. ASSUME NEW k \in Clients, Lock(k) PROVE Placed'
  <2>1. at'[k] = "send" /\ at[k] = "lock" /\ \A d \in Clients : d # k => at'[d] = at[d]
    BY <1>8 DEF Lock, At, TypeOK
  <2>2. /\ \A d \in Clients : InRoom(d)' = InRoom(d) /\ status'[d] = status[d]
        /\ \A d \in Clients : d # k => msg'[d] = msg[d]
        /\ msg'[k] \in Msgs /\ msg'[k].kind = msg[k].kind
    BY <1>8, TurnTaken DEF Lock, InRoom
  <2>3. PlacedAt(k)'
    BY <1>8, <2>1, <2>2 DEF Lock, At, Placed, PlacedAt
  <2>4. QED
    BY <1>0, <2>1, <2>2, <2>3
<1>9. ASSUME NEW k \in Clients, Send(k) PROVE Placed'
  <2>1. \A d \in Clients : InRoom(d)' = InRoom(d) /\ msg'[d] = msg[d]
    BY <1>9 DEF Send, InRoom
  <2>2. /\ \A d \in Clients : d # k => status'[d] = status[d] /\ at'[d] = at[d]
        /\ status'[k] \in {"running", "waiting"} /\ at'[k] \in {"send", "blocked"}
    BY <1>9, TargetIsMember, WritePlaces DEF Send, At
  <2>3. PlacedAt(k)'
    BY <1>9, <2>1, <2>2 DEF Send, At, Placed, PlacedAt
  <2>4. QED
    BY <1>0, <2>1, <2>2, <2>3
<1>10. ASSUME NEW k \in Clients, Unlock(k) PROVE Placed'
  <2>1. \A d \in Clients : InRoom(d)' = InRoom(d) /\ msg'[d] = msg[d]
    BY <1>10 DEF Unlock, InRoom
  <2>2. /\ \A d \in Clients : d # k => status'[d] = status[d] /\ at'[d] = at[d]
        /\ \/ msg[k].kind = "left" /\ status'[k] = "done" /\ at'[k] = "send"
           \/ msg[k].kind # "left" /\ status'[k] = "running" /\ at'[k] = "recv"
    BY <1>10 DEF Unlock, At, TypeOK
  <2>3. PlacedAt(k)'
    BY <1>10, <2>1, <2>2 DEF Unlock, At, Placed, PlacedAt
  <2>4. QED
    BY <1>0, <2>1, <2>2, <2>3
<1>11. ASSUME NEW k \in Clients, Await(k) PROVE Placed'
  <2>1. \A d \in Clients : InRoom(d)' = InRoom(d) /\ msg'[d] = msg[d] /\ at'[d] = at[d]
    BY <1>11 DEF Await, InRoom
  <2>2. /\ \A d \in Clients : d # k => status'[d] = status[d]
        /\ status'[k] \in {"running", "waiting"}
    BY <1>11 DEF Await, At, WaitEvent, TypeOK
  <2>3. PlacedAt(k)'
    BY <1>11, <2>1, <2>2 DEF Await, At, Placed, PlacedAt
  <2>4. QED
    BY <1>0, <2>1, <2>2, <2>3
<1>12. ASSUME NEW k \in Clients, Closed(k) PROVE Placed'
  <2>1. \A d \in Clients : InRoom(d)' = InRoom(d) /\ msg'[d] = msg[d] /\ status'[d] = status[d]
    BY <1>12 DEF Closed, InRoom
  <2>2. at'[k] = "leave" /\ \A d \in Clients : d # k => at'[d] = at[d]
    BY <1>12 DEF Closed, TypeOK
  <2>3. PlacedAt(k)'
    BY <1>12, <2>1, <2>2 DEF Closed, At, Placed, PlacedAt
  <2>4. QED
    BY <1>0, <2>1, <2>2, <2>3
<1>13. ASSUME NEW k \in Clients, Frame(k) PROVE Placed'
  <2>1. \A d \in Clients : InRoom(d)' = InRoom(d) /\ status'[d] = status[d]
    BY <1>13 DEF Frame, InRoom
  <2>2. \A d \in Clients : d # k => at'[d] = at[d] /\ msg'[d] = msg[d]
    BY <1>13 DEF Frame, TypeOK
  <2>3. \/ at'[k] = "lock" /\ msg'[k] = Text(k)
        \/ at'[k] = "pong" /\ msg'[k] = Pong(k)
        \/ at'[k] \in {"recv", "leave"}
    BY <1>13 DEF Frame, TypeOK
  <2>4. /\ Text(k) \in Msgs /\ Text(k).kind = "text"
        /\ Pong(k) \in Msgs /\ Pong(k).kind = "pong"
    BY DEF Text, Pong, Msgs
  <2>5. PlacedAt(k)'
    BY <1>13, <2>1, <2>3, <2>4 DEF Frame, At, Placed, PlacedAt
  <2>6. QED
    BY <1>0, <2>1, <2>2, <2>5
<1>14. ASSUME NEW k \in Clients, Ponging(k) PROVE Placed'
  <2>1. \A d \in Clients : InRoom(d)' = InRoom(d) /\ msg'[d] = msg[d]
    BY <1>14 DEF Ponging, InRoom
  <2>2. /\ \A d \in Clients : d # k => status'[d] = status[d] /\ at'[d] = at[d]
        /\ status'[k] \in {"running", "waiting"} /\ at'[k] \in {"pong", "blocked", "recv"}
    BY <1>14, WritePlaces DEF Ponging, At
  <2>3. PlacedAt(k)'
    BY <1>14, <2>1, <2>2 DEF Ponging, At, Placed, PlacedAt
  <2>4. QED
    BY <1>0, <2>1, <2>2, <2>3
<1>15. ASSUME NEW k \in Clients, Leave(k) PROVE Placed'
  <2>1. Range(members') = Range(members) \ {k}
    BY <1>15, MembersLeave DEF Leave, TypeOK, Exclusive
  <2>2. \A d \in Clients : d # k => InRoom(d)' = InRoom(d)
    BY <2>1 DEF InRoom
  <2>3. at'[k] = "list" /\ status'[k] = "running" /\ \A d \in Clients : d # k => at'[d] = at[d]
    BY <1>15 DEF Leave, At, TypeOK
  <2>4. QED
    BY <1>0, <1>15, <2>2, <2>3 DEF Leave, PlacedAt
<1>16. CASE UNCHANGED vars
  BY <1>16 DEF vars, Placed, PlacedAt, InRoom
<1>17. QED
  BY <1>1, <1>2, <1>3, <1>4, <1>5, <1>6, <1>7, <1>8, <1>9, <1>10, <1>11, <1>12, <1>13,
     <1>14, <1>15, <1>16 DEF Next, Handler
-----------------------------------------------------------------------------
(* Who waits.                                                              *)

LEMMA InitAwaited == Init => Awaited
BY DEF Init, Awaited

\* A handler that runs is named nowhere, and may begin to wait.
LEMMA BeginsToWait ==
  ASSUME TypeOK, Awaited, NEW k \in Clients, NEW c \in Clients, NEW ev \in {"in", "out"},
         status[k] = "running",
         waits' = [waits EXCEPT ![c] = [co |-> k, ev |-> ev]],
         status' = [status EXCEPT ![k] = "waiting"]
  PROVE  Awaited'
<1>1. /\ waits'[c] = [co |-> k, ev |-> ev]
      /\ \A d \in Clients : d # c => waits'[d] = waits[d]
  BY DEF TypeOK
<1>2. /\ status'[k] = "waiting"
      /\ \A d \in Clients : d # k => status'[d] = status[d]
  BY DEF TypeOK
<1>3. \A d \in Clients : waits[d] # None => waits[d].co \in Clients /\ waits[d].co # k
  BY DEF TypeOK, Awaited
<1>4. waits'[c].co = k
  BY <1>1
<1>5. ASSUME NEW d \in Clients, waits'[d] # None
      PROVE  /\ status'[waits'[d].co] = "waiting"
             /\ d # c => waits'[d].co # k
  BY <1>1, <1>2, <1>3, <1>4, <1>5 DEF Awaited
<1>6. ASSUME NEW d \in Clients, NEW e \in Clients,
             waits'[d] # None, waits'[e] # None, waits'[d].co = waits'[e].co
      PROVE  d = e
  BY <1>1, <1>4, <1>5, <1>6 DEF Awaited
<1>7. QED
  BY <1>5, <1>6 DEF Awaited

LEMMA OthersChange ==
  ASSUME TypeOK, Awaited, NEW k \in Clients, status[k] # "waiting", waits' = waits,
         \A d \in Clients : d # k => status'[d] = status[d]
  PROVE  Awaited'
<1>1. \A d \in Clients : waits[d] # None => waits[d].co \in Clients /\ waits[d].co # k
  BY DEF TypeOK, Awaited
<1>2. QED
  BY <1>1 DEF Awaited

LEMMA NextAwaited == TypeOK /\ Exclusive /\ Awaited /\ [Next]_vars => Awaited'
<1> SUFFICES ASSUME TypeOK, Exclusive, Awaited, [Next]_vars PROVE Awaited'
  OBVIOUS
<1> USE DEF handlerVars, roomVars, clientVars
<1>0. ASSUME UNCHANGED <<waits, status>> PROVE Awaited'
  BY <1>0 DEF Awaited
<1>1. ASSUME NEW k \in Clients, Connect(k) PROVE Awaited'
  BY <1>1, OthersChange DEF Connect, TypeOK
<1>2. ASSUME NEW k \in Clients, ClientSends(k) \/ ClientReads(k) PROVE Awaited'
  BY <1>0, <1>2 DEF ClientSends, ClientReads
<1>3. ASSUME NEW k \in Clients, Resume(k) PROVE Awaited'
  BY <1>3, OthersChange DEF Resume, TypeOK
<1>4. ASSUME NEW k \in Clients, Wake(k) PROVE Awaited'
  <2>1. waits[k] # None /\ waits[k].co \in Clients
    BY <1>4 DEF Wake, TypeOK
  <2>2. waits'[k] = None /\ \A d \in Clients : d # k => waits'[d] = waits[d]
    BY <1>4 DEF Wake, TypeOK
  <2>3. \A d \in Clients : d # waits[k].co => status'[d] = status[d]
    BY <1>4, <2>1 DEF Wake, TypeOK
  <2>4. ASSUME NEW d \in Clients, waits'[d] # None
        PROVE  status'[waits'[d].co] = "waiting"
    <3>0. waits \in [Clients -> [co : Clients, ev : {"in", "out"}] \cup {None}]
      BY DEF TypeOK
    <3>1. d # k /\ waits'[d] = waits[d] /\ waits[d].co \in Clients
      BY <2>2, <2>4, <3>0
    <3>2. waits[d].co # waits[k].co
      BY <2>1, <2>4, <3>1 DEF Awaited
    <3>3. QED
      BY <2>3, <2>4, <3>1, <3>2 DEF Awaited
  <2>5. QED
    BY <2>2, <2>4 DEF Awaited
<1>5. ASSUME NEW k \in Clients,
             Join(k) \/ List(k) \/ Lock(k) \/ Closed(k) \/ Frame(k) \/ Leave(k)
      PROVE  Awaited'
  BY <1>0, <1>5 DEF Join, List, Lock, Closed, Frame, Leave
<1>6. ASSUME NEW k \in Clients, NEW c \in Clients, status[k] = "running", Write(k, c)
      PROVE  Awaited'
  <2>1. CASE Blocks(k, c)
    BY <1>6, <2>1, BeginsToWait DEF Blocks
  <2>2. CASE UNCHANGED <<waits, status>>
    BY <1>0, <2>2
  <2>3. QED
    BY <1>6, <2>1, <2>2, WriteCases DEF Skips, Enters, Sends
<1>7. ASSUME NEW k \in Clients, Send(k) PROVE Awaited'
  BY <1>6, <1>7, TargetIsMember DEF Send, At
<1>8. ASSUME NEW k \in Clients, Unlock(k) PROVE Awaited'
  BY <1>8, OthersChange DEF Unlock, At, TypeOK
<1>9. ASSUME NEW k \in Clients, Await(k) PROVE Awaited'
  <2>1. CASE UNCHANGED <<waits, status>>
    BY <1>0, <2>1
  <2>2. CASE ~ UNCHANGED <<waits, status>>
    BY <1>9, <2>2, BeginsToWait DEF Await, At, WaitEvent
  <2>3. QED
    BY <2>1, <2>2
<1>10. ASSUME NEW k \in Clients, Ponging(k) PROVE Awaited'
  BY <1>6, <1>10 DEF Ponging, At
<1>11. CASE UNCHANGED vars
  BY <1>0, <1>11 DEF vars
<1>12. QED
  BY <1>1, <1>2, <1>3, <1>4, <1>5, <1>7, <1>8, <1>9, <1>10, <1>11 DEF Next, Handler

-----------------------------------------------------------------------------
(* The mutex and the loop of broadcast().                                  *)

ExclusiveAt(k) ==
  /\ Broadcasting(k) => mutex = k /\ pos[k] > 0
  /\ Broadcasting(k) /\ (sent[k] > 0 \/ at[k] = "blocked") => pos[k] \in DOMAIN members
  /\ at[k] \notin {"send", "blocked", "pong"} => sent[k] = 0

LEMMA ExclusiveParts == Exclusive <=> IsInjective(members) /\ \A k \in Clients : ExclusiveAt(k)
BY DEF Exclusive, ExclusiveAt

LEMMA InitExclusive == Init => Exclusive
BY DEF Init, Exclusive, Broadcasting, IsInjective

\* A step of a handler that leaves clients_ and mutex_ alone.
LEMMA ExclusiveElsewhere ==
  ASSUME Exclusive, NEW k \in Clients, UNCHANGED roomVars,
         \A d \in Clients : d # k =>
           /\ (status'[d] = "done") <=> (status[d] = "done")
           /\ at'[d] = at[d] /\ msg'[d] = msg[d] /\ pos'[d] = pos[d] /\ sent'[d] = sent[d],
         ExclusiveAt(k)'
  PROVE  Exclusive'
<1>1. IsInjective(members')
  BY DEF Exclusive, roomVars
<1>2. ASSUME NEW d \in Clients, d # k PROVE ExclusiveAt(d)'
  BY <1>2, ExclusiveParts DEF ExclusiveAt, Broadcasting, roomVars
<1>3. QED
  BY <1>1, <1>2, ExclusiveParts DEF Exclusive, ExclusiveAt

\* Nobody broadcasts while the mutex is free.
LEMMA NobodyBroadcasts ==
  ASSUME Exclusive, mutex = None, NEW k \in Clients
  PROVE  ~ Broadcasting(k)
BY ChatRoomAssumption DEF Exclusive

LEMMA WriteExclusive ==
  ASSUME TypeOK, Exclusive, NEW k \in Clients, NEW c \in Clients, Write(k, c),
         status[k] = "running",
         UNCHANGED <<msg, roomVars>>,
         \/ at[k] = "send" /\ pos[k] \in DOMAIN members
         \/ at[k] = "pong" /\ msg[k].kind = "pong"
  PROVE  Exclusive'
<1> USE DEF roomVars
<1>1. /\ \A d \in Clients : d # k => status'[d] = status[d]
      /\ status'[k] \in {"running", "waiting"}
  BY WritePlaces
<1>2. /\ \A d \in Clients : d # k => at'[d] = at[d] /\ pos'[d] = pos[d] /\ sent'[d] = sent[d]
      /\ \/ at'[k] = (IF at[k] = "pong" THEN "recv" ELSE at[k])
            /\ pos'[k] = (IF at[k] = "pong" THEN pos[k] ELSE pos[k] + 1)
            /\ sent'[k] = 0
         \/ at'[k] \in {at[k], "blocked"} /\ pos'[k] = pos[k]
  <2>1. CASE Ended(k)
    BY <2>1, EndedPlaced
  <2>2. CASE Blocks(k, c)
    BY <2>2 DEF Blocks, TypeOK
  <2>3. CASE Enters(k, c)
    BY <2>3 DEF Enters
  <2>4. CASE sent' = [sent EXCEPT ![k] = 1] /\ UNCHANGED <<at, pos>>
    BY <2>4 DEF TypeOK
  <2>5. QED
    BY <2>1, <2>2, <2>3, <2>4, WriteCases DEF Skips, Sends
<1>3. ExclusiveAt(k)'
  <2>1. pos[k] \in Nat
    BY DEF TypeOK
  <2>2. CASE at[k] = "send" /\ pos[k] \in DOMAIN members
    <3>1. mutex = k /\ pos[k] > 0
      BY <2>2 DEF Exclusive, Broadcasting
    <3>2. QED
      BY <1>1, <1>2, <2>1, <2>2, <3>1 DEF ExclusiveAt, Broadcasting
  <2>3. CASE at[k] = "pong" /\ msg[k].kind = "pong"
    BY <1>1, <1>2, <2>1, <2>3 DEF ExclusiveAt, Broadcasting
  <2>4. QED
    BY <2>2, <2>3
<1>4. QED
  BY <1>1, <1>2, <1>3, ExclusiveElsewhere

LEMMA NextExclusive ==
  TypeOK /\ Placed /\ Awaited /\ Exclusive /\ [Next]_vars => Exclusive'
<1> SUFFICES ASSUME TypeOK, Placed, Awaited, Exclusive, [Next]_vars PROVE Exclusive'
  OBVIOUS
<1> USE DEF handlerVars, roomVars, clientVars
<1>1. ASSUME NEW k \in Clients, Connect(k) PROVE Exclusive'
  <2>1. ExclusiveAt(k)'
    BY <1>1, ExclusiveParts DEF Connect, Placed, PlacedAt, ExclusiveAt, Broadcasting
  <2>2. QED
    BY <1>1, <2>1, ExclusiveElsewhere DEF Connect, TypeOK
<1>2. ASSUME NEW k \in Clients, ClientSends(k) \/ ClientReads(k) PROVE Exclusive'
  BY <1>2 DEF ClientSends, ClientReads, Exclusive, Broadcasting
<1>3. ASSUME NEW k \in Clients, Resume(k) PROVE Exclusive'
  <2>1. \A d \in Clients : d # k =>
          status'[d] = status[d] /\ at'[d] = at[d] /\ pos'[d] = pos[d] /\ sent'[d] = sent[d]
    BY <1>3 DEF Resume, TypeOK
  <2>2. CASE at[k] # "blocked"
    <3>1. /\ UNCHANGED <<at, pos, sent, msg, mutex, members>>
          /\ status[k] = "ready"
      BY <1>3, <2>2 DEF Resume
    <3>2. ExclusiveAt(k)'
      BY <3>1, ExclusiveParts DEF ExclusiveAt, Broadcasting
    <3>3. QED
      BY <1>3, <2>1, <3>2, ExclusiveElsewhere DEF Resume
  <2>3. CASE at[k] = "blocked" /\ msg[k].kind = "pong"
    <3>1. /\ at'[k] = "recv" /\ sent'[k] = 0
          \/ at'[k] = "pong"
      BY <1>3, <2>3 DEF Resume, TypeOK
    <3>2. ExclusiveAt(k)'
      BY <3>1 DEF ExclusiveAt, Broadcasting
    <3>3. QED
      BY <1>3, <2>1, <3>2, ExclusiveElsewhere DEF Resume
  <2>4. CASE at[k] = "blocked" /\ msg[k].kind # "pong"
    <3>1. mutex = k /\ pos[k] \in Nat /\ pos[k] > 0 /\ pos[k] \in DOMAIN members
      BY <1>3, <2>4 DEF Resume, Exclusive, Broadcasting, TypeOK
    <3>2. /\ at'[k] = "send"
          /\ \/ pos'[k] = pos[k] + 1 /\ sent'[k] = 0
             \/ pos'[k] = pos[k]
      BY <1>3, <2>4 DEF Resume, TypeOK
    <3>3. ExclusiveAt(k)'
      BY <1>3, <3>1, <3>2 DEF Resume, ExclusiveAt, Broadcasting
    <3>4. QED
      BY <1>3, <2>1, <3>3, ExclusiveElsewhere DEF Resume
  <2>5. QED
    BY <2>2, <2>3, <2>4
<1>4. ASSUME NEW k \in Clients, Wake(k) PROVE Exclusive'
  <2>1. waits[k].co \in Clients /\ status[waits[k].co] = "waiting"
    BY <1>4 DEF Wake, Awaited, TypeOK
  <2>2. \A d \in Clients : (status'[d] = "done") <=> (status[d] = "done")
    BY <1>4, <2>1 DEF Wake, TypeOK
  <2>3. QED
    BY <1>4, <2>2 DEF Wake, Exclusive, Broadcasting
<1>5. ASSUME NEW k \in Clients, Join(k) PROVE Exclusive'
  <2>1. IsInjective(members')
    BY <1>5, MembersJoin DEF Join, At, TypeOK, Exclusive, Placed, PlacedAt
  <2>2. \A d \in Clients : ~ Broadcasting(d)
    BY <1>5, NobodyBroadcasts DEF Join
  <2>3. \A d \in Clients : ~ Broadcasting(d)'
    BY <1>5, <2>2 DEF Join, At, TypeOK, Broadcasting
  <2>4. \A d \in Clients : at'[d] \notin {"send", "blocked", "pong"} => sent'[d] = 0
    BY <1>5 DEF Join, At, TypeOK, Exclusive
  <2>5. QED
    BY <2>1, <2>3, <2>4 DEF Exclusive
<1>6. ASSUME NEW k \in Clients, List(k) PROVE Exclusive'
  <2>1. ExclusiveAt(k)'
    BY <1>6, ExclusiveParts DEF List, At, TypeOK, ExclusiveAt, Broadcasting
  <2>2. QED
    BY <1>6, <2>1, ExclusiveElsewhere DEF List, TypeOK
<1>7. ASSUME NEW k \in Clients, Lock(k) PROVE Exclusive'
  <2>1. sent[k] = 0 /\ status[k] = "running"
    BY <1>7 DEF Lock, At, Exclusive
  <2>2. \A d \in Clients : ~ Broadcasting(d)
    BY <1>7, NobodyBroadcasts DEF Lock
  <2>3. \A d \in Clients : d # k => ~ Broadcasting(d)'
    BY <1>7, <2>2 DEF Lock, TakeTurn, TypeOK, Broadcasting
  <2>4. at'[k] = "send" /\ pos'[k] = 1 /\ sent'[k] = 0
    BY <1>7, <2>1 DEF Lock, TypeOK
  <2>5. \A d \in Clients : at'[d] \notin {"send", "blocked", "pong"} => sent'[d] = 0
    BY <1>7 DEF Lock, At, TypeOK, Exclusive
  <2>6. QED
    BY <1>7, <2>3, <2>4, <2>5 DEF Lock, Exclusive
<1>8. ASSUME NEW k \in Clients, Send(k) PROVE Exclusive'
  <2>1. Target(k) \in Clients /\ pos[k] \in DOMAIN members
    BY <1>8, TargetIsMember
  <2>2. Write(k, Target(k)) /\ status[k] = "running" /\ at[k] = "send"
    BY <1>8 DEF Send, At
  <2>3. UNCHANGED <<msg, roomVars>>
    BY <1>8 DEF Send
  <2>4. QED
    BY <2>1, <2>2, <2>3, WriteExclusive
<1>9. ASSUME NEW k \in Clients, Unlock(k) PROVE Exclusive'
  <2>1. mutex = k
    BY <1>9 DEF Unlock, At, Exclusive, Broadcasting
  <2>2. sent[k] = 0
    <3>1. sent[k] \in 0 .. 1 /\ DOMAIN members = 1 .. Len(members) /\ pos[k] \in Nat
          /\ Len(members) \in Nat
      BY LenProperties DEF TypeOK
    <3>2. pos[k] \notin DOMAIN members
      BY <1>9, <3>1 DEF Unlock
    <3>3. QED
      BY <1>9, <3>1, <3>2 DEF Unlock, At, Exclusive, Broadcasting
  <2>3. \A d \in Clients : d # k => ~ Broadcasting(d)
    BY <2>1 DEF Exclusive
  <2>4. \A d \in Clients : d # k => ~ Broadcasting(d)'
    BY <1>9, <2>3 DEF Unlock, TypeOK, Broadcasting
  <2>5. ~ Broadcasting(k)'
    BY <1>9 DEF Unlock, TypeOK, Broadcasting
  <2>6. \A d \in Clients : at'[d] \notin {"send", "blocked", "pong"} => sent'[d] = 0
    BY <1>9, <2>2 DEF Unlock, TypeOK, Exclusive
  <2>7. QED
    BY <1>9, <2>4, <2>5, <2>6 DEF Unlock, Exclusive
<1>10. ASSUME NEW k \in Clients, Await(k) PROVE Exclusive'
  <2>1. /\ \A d \in Clients : d # k => status'[d] = status[d]
        /\ status'[k] \in {"running", "waiting"}
    BY <1>10 DEF Await, At, WaitEvent, TypeOK
  <2>2. ExclusiveAt(k)'
    BY <1>10, <2>1, ExclusiveParts DEF Await, At, ExclusiveAt, Broadcasting
  <2>3. QED
    BY <1>10, <2>1, <2>2, ExclusiveElsewhere DEF Await
<1>11. ASSUME NEW k \in Clients, Closed(k) PROVE Exclusive'
  <2>1. ExclusiveAt(k)'
    BY <1>11, ExclusiveParts DEF Closed, At, TypeOK, ExclusiveAt, Broadcasting
  <2>2. QED
    BY <1>11, <2>1, ExclusiveElsewhere DEF Closed, TypeOK
<1>12. ASSUME NEW k \in Clients, Frame(k) PROVE Exclusive'
  <2>1. sent[k] = 0
    BY <1>12 DEF Frame, At, Exclusive
  <2>2. at'[k] \in {"lock", "pong", "recv", "leave"}
    BY <1>12 DEF Frame, TypeOK
  <2>3. sent'[k] = 0 /\ at'[k] # "send" /\ at'[k] # "blocked"
    BY <1>12, <2>1, <2>2 DEF Frame
  <2>4. ExclusiveAt(k)'
    BY <2>3 DEF ExclusiveAt, Broadcasting
  <2>5. \A d \in Clients : d # k => at'[d] = at[d] /\ msg'[d] = msg[d]
    BY <1>12 DEF Frame, TypeOK
  <2>6. QED
    BY <1>12, <2>4, <2>5, ExclusiveElsewhere DEF Frame
<1>13. ASSUME NEW k \in Clients, Ponging(k) PROVE Exclusive'
  BY <1>13, WriteExclusive DEF Ponging, At, Placed, PlacedAt
<1>14. ASSUME NEW k \in Clients, Leave(k) PROVE Exclusive'
  <2>1. IsInjective(members')
    BY <1>14, MembersLeave DEF Leave, TypeOK, Exclusive
  <2>2. \A d \in Clients : ~ Broadcasting(d)
    BY <1>14, NobodyBroadcasts DEF Leave
  <2>3. \A d \in Clients : ~ Broadcasting(d)'
    BY <1>14, <2>2 DEF Leave, At, TypeOK, Broadcasting
  <2>4. \A d \in Clients : at'[d] \notin {"send", "blocked", "pong"} => sent'[d] = 0
    BY <1>14 DEF Leave, At, TypeOK, Exclusive
  <2>5. QED
    BY <2>1, <2>3, <2>4 DEF Exclusive
<1>15. CASE UNCHANGED vars
  BY <1>15 DEF vars, Exclusive, Broadcasting
<1>16. QED
  BY <1>1, <1>2, <1>3, <1>4, <1>5, <1>6, <1>7, <1>8, <1>9, <1>10, <1>11, <1>12, <1>13,
     <1>14, <1>15 DEF Next, Handler
-----------------------------------------------------------------------------
(* What is on the wires.                                                   *)

Units == Seq(Msgs \X {1, 2})

\* longer is units and n more units of the frame m, of which s are out.
Longer(units, longer, m, s, n) ==
  /\ Len(units) \in Nat /\ DOMAIN units = 1 .. Len(units)
  /\ DOMAIN longer = 1 .. Len(units) + n /\ Len(longer) = Len(units) + n
  /\ \A i \in 1 .. Len(units) : longer[i] = units[i]
  /\ longer[Len(units) + 1] = <<m, s + 1>>
  /\ n = 2 => s = 0 /\ longer[Len(units) + 2] = <<m, 2>>

LEMMA Extended ==
  ASSUME NEW m \in Msgs, NEW units \in Units, NEW s \in {0, 1}, NEW n \in {1, 2}, s + n <= 2,
         NEW longer, longer = units \o [i \in 1 .. n |-> <<m, s + i>>]
  PROVE  Longer(units, longer, m, s, n)
<1> DEFINE more == [i \in 1 .. n |-> <<m, s + i>>]
<1>1. more \in Seq(Msgs \X {1, 2}) /\ Len(more) = n
  BY UnitsAreTyped
<1>2. more[1] = <<m, s + 1>> /\ (n = 2 => s = 0 /\ more[2] = <<m, 2>>)
  <2>1. 1 \in 1 .. n /\ (n = 2 => s = 0 /\ 2 \in 1 .. n)
    OBVIOUS
  <2>2. n = 2 => more[2] = <<m, s + 2>> /\ s + 2 = 2
    BY <2>1
  <2>3. QED
    BY <2>1, <2>2
<1>3. longer = units \o more
  OBVIOUS
<1> HIDE DEF more
<1>4. /\ longer \in Seq(Msgs \X {1, 2})
      /\ Len(longer) = Len(units) + n
      /\ \A i \in 1 .. Len(units) + n :
           longer[i] = IF i <= Len(units) THEN units[i] ELSE more[i - Len(units)]
  <2>1. units \in Seq(Msgs \X {1, 2})
    BY DEF Units
  <2>2. /\ units \o more \in Seq(Msgs \X {1, 2})
        /\ Len(units \o more) = Len(units) + Len(more)
        /\ \A i \in 1 .. Len(units) + Len(more) :
             (units \o more)[i] = IF i <= Len(units) THEN units[i] ELSE more[i - Len(units)]
    BY <1>1, <2>1, ConcatProperties, Zenon
  <2>3. QED
    BY <1>1, <1>3, <2>2
<1>5. /\ Len(units) \in Nat /\ DOMAIN units = 1 .. Len(units)
      /\ DOMAIN longer = 1 .. Len(units) + n
  BY <1>4, LenProperties DEF Units
<1>6. \A i \in 1 .. Len(units) : longer[i] = units[i]
  BY <1>4, <1>5
<1>7. longer[Len(units) + 1] = more[1]
  <2>1. Len(units) + 1 \in 1 .. Len(units) + n /\ ~ (Len(units) + 1 <= Len(units))
        /\ (Len(units) + 1) - Len(units) = 1
    BY <1>5
  <2>2. longer[Len(units) + 1] = more[(Len(units) + 1) - Len(units)]
    BY <1>4, <2>1, Zenon
  <2>3. QED
    BY <2>1, <2>2
<1>8. n = 2 => longer[Len(units) + 2] = more[2]
  <2>1. /\ n = 2 => Len(units) + 2 \in 1 .. Len(units) + n
        /\ ~ (Len(units) + 2 <= Len(units))
        /\ (Len(units) + 2) - Len(units) = 2
    BY <1>5
  <2>2. n = 2 => longer[Len(units) + 2] = more[(Len(units) + 2) - Len(units)]
    BY <1>4, <2>1, Zenon
  <2>3. QED
    BY <2>1, <2>2
<1>9. QED
  BY <1>2, <1>4, <1>5, <1>6, <1>7, <1>8 DEF Longer

\* The whole of a frame, or its end after its beginning, leaves a wire intact;
\* so does any part of the reply to a PING.
LEMMA StaysIntact ==
  ASSUME NEW m \in Msgs, NEW units \in Units, NEW s \in {0, 1}, NEW n \in {1, 2}, s + n <= 2,
         NEW longer, Longer(units, longer, m, s, n),
         Intact(units), m.kind # "pong" /\ s = 1 => Half(units, m)
  PROVE  Intact(longer)
<1> DEFINE len == Len(units)
<1>1. /\ len \in Nat /\ DOMAIN units = 1 .. len
      /\ DOMAIN longer = 1 .. len + n
      /\ \A i \in 1 .. len : longer[i] = units[i]
      /\ longer[len + 1] = <<m, s + 1>>
      /\ n = 2 => s = 0 /\ longer[len + 2] = <<m, 2>>
  BY DEF Longer
<1> HIDE DEF len
<1> SUFFICES ASSUME NEW i \in DOMAIN longer, longer[i][2] = 2, longer[i][1].kind # "pong"
             PROVE  Begun(longer, i)
  BY DEF Intact
<1>2. CASE i \in 1 .. len
  <2>1. PICK j \in 1 .. i - 1 :
          units[j] = <<units[i][1], 1>> /\ \A h \in j + 1 .. i - 1 : units[h][1].kind = "pong"
    <3>1. i \in DOMAIN units /\ units[i][2] = 2 /\ units[i][1].kind # "pong"
      BY <1>1, <1>2
    <3>2. QED
      BY <3>1 DEF Intact, Begun
  <2>2. j \in 1 .. len
    BY <1>1, <1>2
  <2>3. \A h \in j + 1 .. i - 1 : h \in 1 .. len
    BY <1>1, <1>2
  <2>4. longer[j] = <<longer[i][1], 1>>
    BY <1>1, <1>2, <2>1, <2>2
  <2>5. \A h \in j + 1 .. i - 1 : longer[h][1].kind = "pong"
    BY <1>1, <2>1, <2>3
  <2>6. QED
    BY <2>4, <2>5 DEF Begun
<1>3. CASE i = len + 1
  <2>1. s = 1 /\ m.kind # "pong"
    <3>1. longer[i][2] = s + 1 /\ longer[i][1] = m
      BY <1>1, <1>3
    <3>2. QED
      BY <3>1
  <2>2. PICK j \in 1 .. len :
          units[j] = <<m, 1>> /\ \A h \in j + 1 .. len : units[h][1].kind = "pong"
    BY <1>1, <2>1 DEF Half, len
  <2>3. j \in 1 .. i - 1 /\ longer[j] = <<longer[i][1], 1>>
    BY <1>1, <1>3, <2>2
  <2>4. \A h \in j + 1 .. i - 1 : longer[h][1].kind = "pong"
    BY <1>1, <1>3, <2>2
  <2>5. QED
    BY <2>3, <2>4 DEF Begun
<1>4. CASE i = len + 2
  <2>1. n = 2 /\ s = 0
    BY <1>1, <1>4
  <2>2. longer[i] = <<m, 2>> /\ longer[len + 1] = <<m, 1>>
    BY <1>1, <1>4, <2>1
  <2>3. len + 1 \in 1 .. i - 1 /\ \A h \in (len + 1) + 1 .. i - 1 : FALSE
    BY <1>1, <1>4
  <2>4. longer[len + 1] = <<longer[i][1], 1>>
    <3>1. longer[i][1] = m
      BY <2>2
    <3>2. QED
      BY <2>2, <3>1
  <2>5. QED
    BY <2>3, <2>4 DEF Begun
<1>5. QED
  BY <1>1, <1>2, <1>3, <1>4

\* A reply to a PING does not end a frame that is half out.
LEMMA StaysHalf ==
  ASSUME NEW m \in Msgs, NEW units \in Units, NEW s \in {0, 1}, NEW n \in {1, 2}, s + n <= 2,
         NEW longer, Longer(units, longer, m, s, n),
         m.kind = "pong", NEW x, Half(units, x)
  PROVE  Half(longer, x)
<1> DEFINE len == Len(units)
<1>1. /\ len \in Nat /\ DOMAIN units = 1 .. len
      /\ DOMAIN longer = 1 .. len + n /\ Len(longer) = len + n
      /\ \A i \in 1 .. len : longer[i] = units[i]
      /\ longer[len + 1] = <<m, s + 1>>
      /\ n = 2 => s = 0 /\ longer[len + 2] = <<m, 2>>
  BY DEF Longer
<1>2. PICK j \in 1 .. len :
        units[j] = <<x, 1>> /\ \A h \in j + 1 .. len : units[h][1].kind = "pong"
  BY <1>1 DEF Half
<1> HIDE DEF len
<1>3. ASSUME NEW h \in j + 1 .. len + n PROVE longer[h][1].kind = "pong"
  <2>1. h \in j + 1 .. len \/ h = len + 1 \/ (h = len + 2 /\ n = 2)
    BY <1>1
  <2>2. CASE h \in j + 1 .. len
    BY <1>1, <1>2, <2>2
  <2>3. CASE h = len + 1
    BY <1>1, <2>3
  <2>4. CASE h = len + 2 /\ n = 2
    BY <1>1, <2>4
  <2>5. QED
    BY <2>1, <2>2, <2>3, <2>4
<1>4. j \in DOMAIN longer /\ longer[j] = <<x, 1>>
  BY <1>1, <1>2
<1>5. QED
  BY <1>1, <1>3, <1>4 DEF Half

LEMMA BecomesHalf ==
  ASSUME NEW m \in Msgs, NEW units \in Units,
         NEW longer, Longer(units, longer, m, 0, 1)
  PROVE  Half(longer, m)
<1> DEFINE len == Len(units)
<1>1. /\ len \in Nat
      /\ DOMAIN longer = 1 .. len + 1 /\ Len(longer) = len + 1
      /\ longer[len + 1] = <<m, 0 + 1>>
  BY DEF Longer
<1> HIDE DEF len
<1>2. len + 1 \in DOMAIN longer /\ longer[len + 1] = <<m, 1>>
  BY <1>1
<1>3. \A h \in (len + 1) + 1 .. Len(longer) : FALSE
  BY <1>1
<1>4. QED
  BY <1>2, <1>3 DEF Half

LEMMA Completes ==
  ASSUME NEW m \in Msgs, NEW units \in Units, NEW s \in {0, 1}, NEW n \in {1, 2}, s + n = 2,
         NEW longer, Longer(units, longer, m, s, n)
  PROVE  <<m, 2>> \in Range(longer)
<1>1. /\ Len(units) \in Nat /\ DOMAIN longer = 1 .. Len(units) + n
      /\ longer[Len(units) + 1] = <<m, s + 1>>
      /\ n = 2 => longer[Len(units) + 2] = <<m, 2>>
  BY DEF Longer
<1>2. CASE n = 1
  <2>1. Len(units) + 1 \in DOMAIN longer /\ longer[Len(units) + 1] = <<m, 2>>
    BY <1>1, <1>2
  <2>2. QED
    BY <2>1 DEF Range
<1>3. CASE n = 2
  <2>1. Len(units) + 2 \in DOMAIN longer /\ longer[Len(units) + 2] = <<m, 2>>
    BY <1>1, <1>3
  <2>2. QED
    BY <2>1 DEF Range
<1>4. QED
  BY <1>2, <1>3

WiresAt(k) ==
  Broadcasting(k) =>
    /\ sent[k] > 0 => Half(wire[members[pos[k]]], msg[k])
    /\ \A i \in DOMAIN members : i < pos[k] => Has(members[i], msg[k])

LEMMA InitWires == Init => Wires
BY DEF Init, Wires, BroadcastsIntact, Intact, Broadcasting

\* A step that sends nothing and leaves the broadcasts where they are.
LEMMA WiresElsewhere ==
  ASSUME TypeOK, Wires, UNCHANGED <<wire, members>>,
         \A c \in Clients : closed[c] => closed'[c],
         \A d \in Clients : Broadcasting(d)' =>
           /\ Broadcasting(d)
           /\ msg'[d] = msg[d] /\ pos'[d] = pos[d] /\ sent'[d] = sent[d]
  PROVE  Wires'
<1>1. \A c \in Clients : \A m : Has(c, m) => Has(c, m)'
  BY DEF Has
<1>2. \A i \in DOMAIN members : members[i] \in Clients
  BY DEF TypeOK
<1>3. ASSUME NEW d \in Clients PROVE WiresAt(d)'
  <2> SUFFICES ASSUME Broadcasting(d)' PROVE WiresAt(d)'
    BY DEF WiresAt
  <2>1. /\ Broadcasting(d) /\ msg'[d] = msg[d] /\ pos'[d] = pos[d] /\ sent'[d] = sent[d]
    OBVIOUS
  <2>2. /\ sent[d] > 0 => Half(wire[members[pos[d]]], msg[d])
        /\ \A i \in DOMAIN members : i < pos[d] => Has(members[i], msg[d])
    BY <2>1 DEF Wires
  <2>3. sent'[d] > 0 => Half(wire'[members'[pos'[d]]], msg'[d])
    BY <2>1, <2>2
  <2>4. \A i \in DOMAIN members : i < pos[d] => (closed'[members[i]] \/ <<msg[d], 2>> \in Range(wire'[members[i]]))
    BY <1>2, <2>2 DEF Has
  <2>5. QED
    BY <2>1, <2>3, <2>4 DEF WiresAt, Has
<1>4. BroadcastsIntact'
  BY DEF Wires, BroadcastsIntact
<1>5. QED
  BY <1>3, <1>4 DEF Wires, WiresAt

LEMMA WireGrows ==
  ASSUME TypeOK, NEW k \in Clients, NEW c \in Clients, msg[k] \in Msgs,
         NEW n \in {1, 2}, sent[k] + n <= 2, Sends(k, c, n)
  PROVE  /\ Longer(wire[c], wire'[c], msg[k], sent[k], n)
         /\ wire[c] \in Units /\ sent[k] \in {0, 1}
         /\ \A d \in Clients : d # c => wire'[d] = wire[d]
         /\ closed' = closed
<1>1. wire \in [Clients -> Units] /\ sent[k] \in {0, 1}
  <2>1. wire \in [Clients -> Seq(Msgs \X {1, 2})] /\ sent \in [Clients -> 0 .. 1]
    BY DEF TypeOK
  <2>2. QED
    BY <2>1 DEF Units
<1>2. /\ wire'[c] = wire[c] \o [i \in 1 .. n |-> <<msg[k], sent[k] + i>>]
      /\ \A d \in Clients : d # c => wire'[d] = wire[d]
  BY <1>1 DEF Sends
<1>3. Longer(wire[c], wire'[c], msg[k], sent[k], n)
  BY <1>1, <1>2, Extended
<1>4. QED
  BY <1>1, <1>2, <1>3 DEF Sends

\* Nothing that was sent is lost, and closed_ stays.
LEMMA HasStays ==
  ASSUME TypeOK, NEW k \in Clients, NEW c \in Clients, msg[k] \in Msgs, Write(k, c)
  PROVE  \A d \in Clients : \A m : Has(d, m) => Has(d, m)'
<1>1. CASE closed' = [closed EXCEPT ![c] = TRUE] /\ wire' = wire
  BY <1>1 DEF Has, TypeOK
<1>2. CASE closed' = closed /\ wire' = wire
  BY <1>2 DEF Has
<1>3. ASSUME NEW n \in {1, 2}, sent[k] + n <= 2, Sends(k, c, n)
      PROVE  \A d \in Clients : \A m : Has(d, m) => Has(d, m)'
  <2>1. /\ Longer(wire[c], wire'[c], msg[k], sent[k], n)
        /\ wire[c] \in Units /\ sent[k] \in {0, 1}
        /\ \A d \in Clients : d # c => wire'[d] = wire[d]
        /\ closed' = closed
    BY <1>3, WireGrows
  <2>2. Range(wire[c]) \subseteq Range(wire'[c])
    <3>1. /\ DOMAIN wire[c] = 1 .. Len(wire[c]) /\ Len(wire[c]) \in Nat
          /\ DOMAIN wire'[c] = 1 .. Len(wire[c]) + n
          /\ \A i \in 1 .. Len(wire[c]) : wire'[c][i] = wire[c][i]
      BY <2>1 DEF Longer
    <3>2. QED
      BY <3>1 DEF Range
  <2>3. QED
    BY <2>1, <2>2 DEF Has
<1>4. QED
  BY <1>1, <1>2, <1>3, WriteCases DEF Skips, Blocks, Enters

LEMMA WriteIntact ==
  ASSUME TypeOK, BroadcastsIntact, NEW k \in Clients, NEW c \in Clients, msg[k] \in Msgs,
         msg[k].kind # "pong" /\ sent[k] = 1 => Half(wire[c], msg[k]),
         Write(k, c)
  PROVE  BroadcastsIntact'
<1>1. CASE wire' = wire
  BY <1>1 DEF BroadcastsIntact
<1>2. ASSUME NEW n \in {1, 2}, sent[k] + n <= 2, Sends(k, c, n)
      PROVE  BroadcastsIntact'
  <2>1. /\ Longer(wire[c], wire'[c], msg[k], sent[k], n)
        /\ wire[c] \in Units /\ sent[k] \in {0, 1}
        /\ \A d \in Clients : d # c => wire'[d] = wire[d]
    BY <1>2, WireGrows
  <2>2. Intact(wire[c])
    BY DEF BroadcastsIntact
  <2>3. Intact(wire'[c])
    BY <1>2, <2>1, <2>2, StaysIntact
  <2>4. QED
    BY <2>1, <2>3 DEF BroadcastsIntact
<1>3. QED
  BY <1>1, <1>2, WriteCases DEF Skips, Blocks, Enters

\* A step of a broadcast.
LEMMA SendWires ==
  ASSUME TypeOK, Placed, Exclusive, Wires, NEW k \in Clients, Send(k)
  PROVE  Wires'
<1> DEFINE c == members[pos[k]]
<1>1. /\ pos[k] \in DOMAIN members /\ c \in Clients /\ Write(k, c)
      /\ Broadcasting(k) /\ status[k] = "running" /\ at[k] = "send"
      /\ msg' = msg /\ members' = members
  BY TargetIsMember DEF Send, At, roomVars
<1>2. msg[k] \in Msgs /\ pos[k] \in Nat
  BY <1>1 DEF Placed, PlacedAt, TypeOK
<1>3. /\ sent[k] > 0 => Half(wire[c], msg[k])
      /\ \A i \in DOMAIN members : i < pos[k] => Has(members[i], msg[k])
  BY <1>1 DEF Wires
<1>4. \A i \in DOMAIN members : members[i] \in Clients /\ i \in Nat
  <2>1. members \in Seq(Clients)
    BY DEF TypeOK
  <2>2. QED
    BY <2>1, LenProperties
<1>5. \A d \in Clients : d # k => ~ Broadcasting(d)'
  <2>1. \A d \in Clients : d # k => ~ Broadcasting(d)
    BY <1>1 DEF Exclusive
  <2>2. \A d \in Clients : d # k => status'[d] = status[d] /\ at'[d] = at[d]
    BY <1>1, WritePlaces
  <2>3. QED
    BY <1>1, <2>1, <2>2 DEF Broadcasting
<1> HIDE DEF c
<1>6. \A d \in Clients : \A m : Has(d, m) => Has(d, m)'
  BY <1>1, <1>2, HasStays
<1>7. \A i \in DOMAIN members : i < pos[k] => Has(members[i], msg[k])'
  <2> SUFFICES ASSUME NEW i \in DOMAIN members, i < pos[k] PROVE Has(members[i], msg[k])'
    OBVIOUS
  <2>1. ASSUME NEW d \in Clients, d = members[i], NEW m, m = msg[k]
        PROVE  closed'[d] \/ <<m, 2>> \in Range(wire'[d])
    BY <1>3, <1>6, <2>1 DEF Has
  <2>2. QED
    BY <1>1, <1>4, <2>1 DEF Has
<1>8. BroadcastsIntact'
  BY <1>1, <1>2, <1>3, WriteIntact DEF Wires
<1>9. WiresAt(k)'
  <2>1. ASSUME Ended(k), closed'[c] \/ <<msg[k], 2>> \in Range(wire'[c]) PROVE WiresAt(k)'
    <3>1. sent'[k] = 0 /\ pos'[k] = pos[k] + 1
      BY <1>1, <2>1, EndedPlaced
    <3>2. ASSUME NEW i \in DOMAIN members, i < pos[k] + 1 PROVE Has(members[i], msg[k])'
      <4>1. i < pos[k] \/ i = pos[k]
        BY <1>2, <1>4, <3>2
      <4>2. CASE i < pos[k]
        BY <1>7, <4>2
      <4>3. CASE i = pos[k]
        <5>1. pos'[k] # i /\ members'[i] = c
          BY <1>1, <1>2, <3>1, <4>3 DEF c
        <5>2. QED
          BY <1>1, <2>1, <5>1 DEF Has
      <4>4. QED
        BY <4>1, <4>2, <4>3
    <3>3. QED
      BY <1>1, <3>1, <3>2 DEF WiresAt
  <2>2. CASE Skips(k, c)
    BY <1>1, <2>1, <2>2 DEF Skips
  <2>3. CASE closed' = [closed EXCEPT ![c] = TRUE] /\ Ended(k)
    BY <1>1, <2>1, <2>3 DEF TypeOK
  <2>4. CASE UNCHANGED <<pos, sent, wire>>
    <3>1. sent'[k] > 0 => Half(wire'[members'[pos'[k]]], msg'[k])
      BY <1>1, <1>3, <2>4 DEF c
    <3>2. QED
      BY <1>1, <1>7, <2>4, <3>1 DEF WiresAt
  <2>5. ASSUME NEW n \in {1, 2}, sent[k] + n <= 2, Sends(k, c, n) PROVE WiresAt(k)'
    <3>1. Longer(wire[c], wire'[c], msg[k], sent[k], n) /\ wire[c] \in Units /\ sent[k] \in {0, 1}
      BY <1>1, <1>2, <2>5, WireGrows
    <3>2. CASE sent[k] + n = 2
      <4>1. <<msg[k], 2>> \in Range(wire'[c])
        BY <1>2, <3>1, <3>2, Completes
      <4>2. QED
        BY <2>1, <2>5, <3>2, <4>1 DEF Sends
    <3>3. CASE sent[k] + n # 2
      <4>1. sent[k] = 0 /\ n = 1 /\ pos' = pos
        BY <2>5, <3>3 DEF Sends
      <4>2. Half(wire'[c], msg[k])
        BY <1>2, <3>1, <4>1, BecomesHalf
      <4>3. QED
        BY <1>1, <1>7, <4>1, <4>2 DEF WiresAt, c
    <3>4. QED
      BY <3>2, <3>3
  <2>6. QED
    BY <1>1, <2>2, <2>3, <2>4, <2>5, WriteCases DEF Blocks, Enters
<1>10. QED
  BY <1>5, <1>8, <1>9 DEF Wires, WiresAt

\* A step of the reply to a PING.
LEMMA PongWires ==
  ASSUME TypeOK, Placed, Exclusive, Wires, NEW k \in Clients, Ponging(k)
  PROVE  Wires'
<1>1. /\ Write(k, k) /\ status[k] = "running" /\ at[k] = "pong"
      /\ msg' = msg /\ members' = members
  BY DEF Ponging, At, roomVars
<1>2. msg[k] \in Msgs /\ msg[k].kind = "pong"
  BY <1>1 DEF Placed, PlacedAt
<1>3. BroadcastsIntact'
  BY <1>1, <1>2, WriteIntact DEF Wires
<1>4. \A d \in Clients : \A m : Has(d, m) => Has(d, m)'
  BY <1>1, <1>2, HasStays
<1>5. \A d \in Clients : \A m : Half(wire[d], m) => Half(wire'[d], m)
  <2>1. CASE wire' = wire
    BY <2>1
  <2>2. ASSUME NEW n \in {1, 2}, sent[k] + n <= 2, Sends(k, k, n)
        PROVE  \A d \in Clients : \A m : Half(wire[d], m) => Half(wire'[d], m)
    <3>1. /\ Longer(wire[k], wire'[k], msg[k], sent[k], n)
          /\ wire[k] \in Units /\ sent[k] \in {0, 1}
          /\ \A d \in Clients : d # k => wire'[d] = wire[d]
      BY <1>2, <2>2, WireGrows
    <3>2. \A m : Half(wire[k], m) => Half(wire'[k], m)
      BY <1>2, <2>2, <3>1, StaysHalf
    <3>3. QED
      BY <3>1, <3>2
  <2>3. QED
    BY <1>1, <2>1, <2>2, WriteCases DEF Skips, Blocks, Enters
<1>6. /\ \A d \in Clients : d # k =>
           status'[d] = status[d] /\ at'[d] = at[d] /\ pos'[d] = pos[d] /\ sent'[d] = sent[d]
      /\ at'[k] \in {"pong", "blocked", "recv"}
  <2>1. CASE Ended(k) /\ status' = status
    BY <1>1, <2>1, EndedPlaced
  <2>2. CASE Blocks(k, k)
    BY <2>2 DEF Blocks, TypeOK
  <2>3. CASE Enters(k, k)
    BY <1>1, <2>3 DEF Enters
  <2>4. CASE sent' = [sent EXCEPT ![k] = 1] /\ UNCHANGED <<at, pos, status>>
    BY <1>1, <2>4 DEF TypeOK
  <2>5. QED
    BY <1>1, <2>1, <2>2, <2>3, <2>4, WriteCases DEF Skips, Sends
<1>7. ASSUME NEW d \in Clients, Broadcasting(d)' PROVE WiresAt(d)'
  <2>1. d # k /\ Broadcasting(d) /\ msg'[d] = msg[d] /\ pos'[d] = pos[d] /\ sent'[d] = sent[d]
    BY <1>1, <1>2, <1>6, <1>7 DEF Broadcasting
  <2>2. /\ sent[d] > 0 => Half(wire[members[pos[d]]], msg[d])
        /\ \A i \in DOMAIN members : i < pos[d] => Has(members[i], msg[d])
    BY <2>1 DEF Wires
  <2>3. \A i \in DOMAIN members : members[i] \in Clients
    BY DEF TypeOK
  <2>4. sent[d] > 0 => pos[d] \in DOMAIN members
    BY <2>1 DEF Exclusive
  <2>5. sent'[d] > 0 => Half(wire'[members'[pos'[d]]], msg'[d])
    BY <1>1, <1>5, <2>1, <2>2, <2>3, <2>4
  <2>6. ASSUME NEW i \in DOMAIN members, i < pos[d] PROVE Has(members[i], msg[d])'
    <3>1. ASSUME NEW e \in Clients, e = members[i], NEW m, m = msg[d]
          PROVE  closed'[e] \/ <<m, 2>> \in Range(wire'[e])
      BY <1>4, <2>2, <2>6, <3>1 DEF Has
    <3>2. QED
      BY <1>1, <2>3, <3>1 DEF Has
  <2>7. QED
    BY <1>1, <2>1, <2>5, <2>6 DEF WiresAt
<1>8. QED
  BY <1>3, <1>7 DEF Wires, WiresAt

LEMMA NextWires ==
  TypeOK /\ Placed /\ Awaited /\ Exclusive /\ Wires /\ [Next]_vars => Wires'
<1> SUFFICES ASSUME TypeOK, Placed, Awaited, Exclusive, Wires, [Next]_vars PROVE Wires'
  OBVIOUS
<1> USE DEF handlerVars, roomVars, clientVars
<1>1. ASSUME NEW k \in Clients, Connect(k) PROVE Wires'
  <2>1. \A d \in Clients : Broadcasting(d)' => Broadcasting(d)
    BY <1>1 DEF Connect, TypeOK, Broadcasting
  <2>2. QED
    BY <1>1, <2>1, WiresElsewhere DEF Connect
<1>2. ASSUME NEW k \in Clients, ClientSends(k) \/ ClientReads(k) PROVE Wires'
  BY <1>2, WiresElsewhere DEF ClientSends, ClientReads, Broadcasting
<1>3. ASSUME NEW k \in Clients, Resume(k) PROVE Wires'
  <2>1. \A d \in Clients : d # k =>
          status'[d] = status[d] /\ at'[d] = at[d] /\ pos'[d] = pos[d] /\ sent'[d] = sent[d]
    BY <1>3 DEF Resume, TypeOK
  <2>2. \A d \in Clients : d # k /\ Broadcasting(d)' => Broadcasting(d)
    BY <1>3, <2>1 DEF Resume, Broadcasting
  <2>3. CASE UNCHANGED <<at, pos, sent>>
    <3>1. Broadcasting(k)' => Broadcasting(k)
      BY <1>3, <2>3 DEF Resume, Broadcasting
    <3>2. QED
      BY <1>3, <2>1, <2>2, <2>3, <3>1, WiresElsewhere DEF Resume
  <2>4. CASE at[k] = "blocked" /\ msg[k].kind = "pong"
    <3>1. ~ Broadcasting(k)'
      BY <1>3, <2>4 DEF Resume, TypeOK, Broadcasting
    <3>2. QED
      BY <1>3, <2>1, <2>2, <3>1, WiresElsewhere DEF Resume
  <2>5. CASE at[k] = "blocked" /\ msg[k].kind # "pong"
    <3>1. Broadcasting(k) /\ pos[k] \in DOMAIN members /\ pos[k] \in Nat
      BY <1>3, <2>5 DEF Resume, TypeOK, Broadcasting, Exclusive
    <3>2. CASE UNCHANGED <<pos, sent>>
      BY <1>3, <2>1, <2>2, <3>1, <3>2, WiresElsewhere DEF Resume
    <3>3. CASE ~ UNCHANGED <<pos, sent>>
      <4>1. closed[members[pos[k]]] /\ pos'[k] = pos[k] + 1 /\ sent'[k] = 0
        BY <1>3, <2>5, <3>3 DEF Resume, TypeOK
      <4>2. \A d \in Clients : d # k => ~ Broadcasting(d)
        BY <3>1 DEF Exclusive
      <4>3. \A d \in Clients : d # k => ~ Broadcasting(d)'
        BY <2>2, <4>2
      <4>4. DOMAIN members = 1 .. Len(members) /\ Len(members) \in Nat
        BY LenProperties DEF TypeOK
      <4>5. \A i \in DOMAIN members : i < pos[k] + 1 => Has(members[i], msg[k])
        <5>1. ASSUME NEW i \in DOMAIN members, i < pos[k] + 1 PROVE Has(members[i], msg[k])
          <6>1. i < pos[k] \/ i = pos[k]
            BY <3>1, <4>4, <5>1
          <6>2. QED
            BY <3>1, <4>1, <6>1 DEF Wires, Has
        <5>2. QED
          BY <5>1
      <4>6. WiresAt(k)'
        BY <1>3, <4>1, <4>5 DEF Resume, WiresAt, Has
      <4>7. BroadcastsIntact'
        BY <1>3 DEF Resume, Wires, BroadcastsIntact
      <4>8. QED
        BY <4>3, <4>6, <4>7 DEF Wires, WiresAt
    <3>4. QED
      BY <3>2, <3>3
  <2>6. QED
    BY <1>3, <2>3, <2>4, <2>5 DEF Resume
<1>4. ASSUME NEW k \in Clients, Wake(k) PROVE Wires'
  <2>1. waits[k].co \in Clients /\ status[waits[k].co] = "waiting"
    BY <1>4 DEF Wake, Awaited, TypeOK
  <2>2. \A d \in Clients : Broadcasting(d)' => Broadcasting(d)
    BY <1>4, <2>1 DEF Wake, TypeOK, Broadcasting
  <2>3. QED
    BY <1>4, <2>2, WiresElsewhere DEF Wake
<1>5. ASSUME NEW k \in Clients, Join(k) \/ Leave(k) PROVE Wires'
  <2>1. \A d \in Clients : ~ Broadcasting(d)
    BY <1>5, NobodyBroadcasts DEF Join, Leave
  <2>2. \A d \in Clients : ~ Broadcasting(d)'
    BY <1>5, <2>1 DEF Join, Leave, At, TypeOK, Broadcasting
  <2>3. BroadcastsIntact'
    BY <1>5 DEF Join, Leave, Wires, BroadcastsIntact
  <2>4. QED
    BY <2>2, <2>3 DEF Wires
<1>6. ASSUME NEW k \in Clients, List(k) PROVE Wires'
  <2>1. \A d \in Clients : Broadcasting(d)' => Broadcasting(d) /\ d # k
    BY <1>6 DEF List, At, TypeOK, Broadcasting
  <2>2. \A d \in Clients : d # k => msg'[d] = msg[d]
    BY <1>6 DEF List, TypeOK
  <2>3. QED
    BY <1>6, <2>1, <2>2, WiresElsewhere DEF List
<1>7. ASSUME NEW k \in Clients, Lock(k) PROVE Wires'
  <2>1. \A d \in Clients : ~ Broadcasting(d)
    BY <1>7, NobodyBroadcasts DEF Lock
  <2>2. \A d \in Clients : d # k => ~ Broadcasting(d)'
    BY <1>7, <2>1 DEF Lock, TakeTurn, TypeOK, Broadcasting
  <2>3. pos'[k] = 1 /\ sent'[k] = 0
    BY <1>7 DEF Lock, At, TypeOK, Exclusive
  <2>4. DOMAIN members = 1 .. Len(members)
    BY LenProperties DEF TypeOK
  <2>5. WiresAt(k)'
    BY <1>7, <2>3, <2>4 DEF Lock, WiresAt
  <2>6. BroadcastsIntact'
    BY <1>7 DEF Lock, Wires, BroadcastsIntact
  <2>7. QED
    BY <2>2, <2>5, <2>6 DEF Wires, WiresAt
<1>8. ASSUME NEW k \in Clients, Send(k) PROVE Wires'
  BY <1>8, SendWires
<1>9. ASSUME NEW k \in Clients, Unlock(k) PROVE Wires'
  <2>1. \A d \in Clients : Broadcasting(d)' => Broadcasting(d)
    BY <1>9 DEF Unlock, At, TypeOK, Broadcasting
  <2>2. QED
    BY <1>9, <2>1, WiresElsewhere DEF Unlock
<1>10. ASSUME NEW k \in Clients, Await(k) PROVE Wires'
  <2>1. \A d \in Clients : Broadcasting(d)' => Broadcasting(d)
    BY <1>10 DEF Await, At, WaitEvent, TypeOK, Broadcasting
  <2>2. QED
    BY <1>10, <2>1, WiresElsewhere DEF Await
<1>11. ASSUME NEW k \in Clients, Closed(k) PROVE Wires'
  <2>1. \A d \in Clients : Broadcasting(d)' => Broadcasting(d)
    BY <1>11 DEF Closed, At, TypeOK, Broadcasting
  <2>2. QED
    BY <1>11, <2>1, WiresElsewhere DEF Closed
<1>12. ASSUME NEW k \in Clients, Frame(k) PROVE Wires'
  <2>1. \A d \in Clients : d # k => at'[d] = at[d] /\ msg'[d] = msg[d]
    BY <1>12 DEF Frame, TypeOK
  <2>2. at'[k] \in {"lock", "pong", "recv", "leave"}
    BY <1>12 DEF Frame, TypeOK
  <2>3. \A d \in Clients : Broadcasting(d)' => Broadcasting(d) /\ d # k
    BY <1>12, <2>1, <2>2 DEF Frame, Broadcasting
  <2>4. \A c \in Clients : closed[c] => closed'[c]
    BY <1>12 DEF Frame, TypeOK
  <2>5. QED
    BY <1>12, <2>1, <2>3, <2>4, WiresElsewhere DEF Frame
<1>13. ASSUME NEW k \in Clients, Ponging(k) PROVE Wires'
  BY <1>13, PongWires
<1>14. CASE UNCHANGED vars
  BY <1>14, WiresElsewhere DEF vars, Broadcasting
<1>15. QED
  BY <1>1, <1>2, <1>3, <1>4, <1>5, <1>6, <1>7, <1>8, <1>9, <1>10, <1>11, <1>12, <1>13,
     <1>14 DEF Next, Handler

-----------------------------------------------------------------------------
(* The order of the broadcasts.                                            *)

\* A frame that is newer than all before it keeps the order, and so does any
\* part of the reply to a PING.
LEMMA StaysInOrder ==
  ASSUME NEW m \in Msgs, NEW units \in Units, NEW s \in {0, 1}, NEW n \in {1, 2}, s + n <= 2,
         NEW longer, Longer(units, longer, m, s, n), InOrder(units),
         m.kind # "pong" => \A u \in Range(units) : Finished(u) => u[1].nr < m.nr
  PROVE  /\ InOrder(longer)
         /\ \A u \in Range(longer) : Finished(u) =>
              u \in Range(units) \/ (u = <<m, 2>> /\ m.kind # "pong" /\ s + n = 2)
<1> DEFINE len == Len(units)
<1>1. /\ len \in Nat /\ DOMAIN units = 1 .. len
      /\ DOMAIN longer = 1 .. len + n
      /\ \A i \in 1 .. len : longer[i] = units[i]
      /\ longer[len + 1] = <<m, s + 1>>
      /\ n = 2 => s = 0 /\ longer[len + 2] = <<m, 2>>
  BY DEF Longer
<1> HIDE DEF len
<1>2. \A i \in 1 .. len : longer[i] = units[i] /\ longer[i] \in Range(units)
  BY <1>1 DEF Range
<1>3. ASSUME NEW i \in DOMAIN longer, i \notin 1 .. len, Finished(longer[i])
      PROVE  i = len + n /\ longer[i] = <<m, 2>> /\ m.kind # "pong" /\ s + n = 2
  <2>1. i = len + 1 \/ (n = 2 /\ i = len + 2)
    BY <1>1, <1>3
  <2>2. CASE i = len + 1
    <3>1. longer[i] = <<m, s + 1>> /\ s + 1 = 2
      BY <1>1, <1>3, <2>2 DEF Finished
    <3>2. n = 1
      BY <3>1
    <3>3. QED
      BY <1>3, <2>2, <3>1, <3>2 DEF Finished
  <2>3. CASE n = 2 /\ i = len + 2
    BY <1>1, <1>3, <2>3 DEF Finished
  <2>4. QED
    BY <2>1, <2>2, <2>3
<1>4. ASSUME NEW i \in DOMAIN longer, NEW j \in DOMAIN longer, i < j,
             Finished(longer[i]), Finished(longer[j])
      PROVE  longer[i][1].nr < longer[j][1].nr
  <2>1. CASE j \in 1 .. len
    <3>1. i \in 1 .. len
      BY <1>1, <1>4, <2>1
    <3>2. QED
      BY <1>1, <1>4, <2>1, <3>1 DEF InOrder
  <2>2. CASE j \notin 1 .. len
    <3>1. j = len + n /\ longer[j] = <<m, 2>> /\ m.kind # "pong"
      BY <1>3, <1>4, <2>2
    <3>2. i \in 1 .. len
      <4>1. i # len + n
        BY <1>1, <1>4, <3>1
      <4>2. QED
        BY <1>3, <1>4, <4>1
    <3>3. QED
      BY <1>2, <1>4, <3>1, <3>2
  <2>3. QED
    BY <2>1, <2>2
<1>5. ASSUME NEW u \in Range(longer), Finished(u)
      PROVE  u \in Range(units) \/ (u = <<m, 2>> /\ m.kind # "pong" /\ s + n = 2)
  <2>1. PICK i \in DOMAIN longer : u = longer[i]
    BY <1>5 DEF Range
  <2>2. QED
    BY <1>2, <1>3, <1>5, <2>1
<1>6. QED
  BY <1>4, <1>5 DEF InOrder

LEMMA InitNumbered == Init => Numbered
<1> SUFFICES ASSUME Init PROVE Numbered
  OBVIOUS
<1>1. \A k \in Clients : wire[k] = <<>> /\ ~ Broadcasting(k)
  BY DEF Init, Broadcasting
<1>2. \A k \in Clients : DOMAIN wire[k] = {} /\ Range(wire[k]) = {}
  BY <1>1 DEF Range
<1>3. QED
  BY <1>1, <1>2 DEF Numbered, NumberedAt, SameOrder, InOrder, Below

\* A step that sends nothing, and after which no client waits for a broadcast
\* who did not before.
LEMMA NumberedElsewhere ==
  ASSUME TypeOK, Numbered, UNCHANGED <<wire, members, turn>>,
         \A d \in Clients : Broadcasting(d)' =>
           Broadcasting(d) /\ msg'[d] = msg[d] /\ (pos'[d] = pos[d] \/ pos'[d] = pos[d] + 1)
  PROVE  Numbered'
<1>1. \A c, n : Below(c, n)' = Below(c, n)
  BY DEF Below
<1>2. SameOrder' /\ \A k \in Clients : Below(k, turn + 1)'
  BY <1>1 DEF Numbered, SameOrder
<1>3. ASSUME NEW d \in Clients, Broadcasting(d)'
      PROVE  msg'[d].nr = turn /\ \A i \in DOMAIN members : i >= pos'[d] => Below(members[i], turn)
  <2>1. /\ Broadcasting(d) /\ msg'[d] = msg[d]
        /\ msg[d].nr = turn /\ \A i \in DOMAIN members : i >= pos[d] => Below(members[i], turn)
    BY <1>3 DEF Numbered, NumberedAt
  <2>2. \A i \in DOMAIN members : i >= pos'[d] => i >= pos[d]
    <3>1. DOMAIN members = 1 .. Len(members) /\ Len(members) \in Nat /\ pos[d] \in Nat
      BY LenProperties DEF TypeOK
    <3>2. pos'[d] = pos[d] \/ pos'[d] = pos[d] + 1
      BY <1>3
    <3>3. QED
      BY <3>1, <3>2
  <2>3. QED
    BY <2>1, <2>2
<1>4. \A d \in Clients : NumberedAt(d)'
  BY <1>3 DEF NumberedAt, Below
<1>5. QED
  BY <1>2, <1>4 DEF Numbered, Below

\* A part of a frame goes to c: of a broadcast that is new to c, or of the reply
\* to a PING.
LEMMA WriteInOrder ==
  ASSUME TypeOK, Numbered, NEW k \in Clients, NEW c \in Clients, msg[k] \in Msgs, Write(k, c),
         msg[k].kind # "pong" => msg[k].nr = turn /\ Below(c, turn)
  PROVE  /\ SameOrder'
         /\ \A d \in Clients : \A u \in Range(wire'[d]) : Finished(u) =>
              \/ u \in Range(wire[d])
              \/ d = c /\ u[1].nr = turn /\ msg[k].kind # "pong" /\ Ended(k)
<1>1. CASE wire' = wire
  BY <1>1 DEF Numbered, SameOrder
<1>2. ASSUME NEW n \in {1, 2}, sent[k] + n <= 2, Sends(k, c, n)
      PROVE  /\ SameOrder'
             /\ \A d \in Clients : \A u \in Range(wire'[d]) : Finished(u) =>
                  \/ u \in Range(wire[d])
                  \/ d = c /\ u[1].nr = turn /\ msg[k].kind # "pong" /\ Ended(k)
  <2>1. /\ Longer(wire[c], wire'[c], msg[k], sent[k], n)
        /\ wire[c] \in Units /\ sent[k] \in {0, 1}
        /\ \A d \in Clients : d # c => wire'[d] = wire[d]
    BY <1>2, WireGrows
  <2>2. InOrder(wire[c])
    BY DEF Numbered, SameOrder
  <2>3. msg[k].kind # "pong" => \A u \in Range(wire[c]) : Finished(u) => u[1].nr < msg[k].nr
    BY DEF Below
  <2>4. /\ InOrder(wire'[c])
        /\ \A u \in Range(wire'[c]) : Finished(u) =>
             u \in Range(wire[c]) \/ (u = <<msg[k], 2>> /\ msg[k].kind # "pong" /\ sent[k] + n = 2)
    BY <1>2, <2>1, <2>2, <2>3, StaysInOrder
  <2>5. SameOrder'
    BY <2>1, <2>4 DEF Numbered, SameOrder
  <2>6. sent[k] + n = 2 => Ended(k)
    BY <1>2 DEF Sends
  <2>7. \A u : u = <<msg[k], 2>> /\ msg[k].kind # "pong" => u[1].nr = turn
    OBVIOUS
  <2>8. QED
    BY <2>1, <2>4, <2>5, <2>6, <2>7
<1>3. QED
  BY <1>1, <1>2, WriteCases DEF Skips, Blocks, Enters

\* The numbers on the wires are numbers.
LEMMA NrIsNat ==
  ASSUME TypeOK, NEW d \in Clients, NEW u \in Range(wire[d])
  PROVE  u[1].nr \in Nat
<1>1. wire[d] \in Seq(Msgs \X {1, 2})
  BY DEF TypeOK
<1>2. PICK i \in DOMAIN wire[d] : u = wire[d][i]
  BY DEF Range
<1>3. u \in Msgs \X {1, 2}
  BY <1>1, <1>2, LenProperties, ElementOfSeq
<1>4. QED
  BY <1>3 DEF Msgs

LEMMA BelowGrows ==
  ASSUME TypeOK, NEW d \in Clients, Below(d, turn)
  PROVE  Below(d, turn + 1)
<1>1. turn \in Nat
  BY DEF TypeOK
<1>2. QED
  BY <1>1, NrIsNat DEF Below

\* A step of a broadcast.
LEMMA SendNumbered ==
  ASSUME TypeOK, Placed, Exclusive, Numbered, NEW k \in Clients, Send(k)
  PROVE  Numbered'
<1> DEFINE c == members[pos[k]]
<1>1. /\ pos[k] \in DOMAIN members /\ c \in Clients /\ Write(k, c)
      /\ Broadcasting(k) /\ status[k] = "running" /\ at[k] = "send"
      /\ msg' = msg /\ members' = members /\ turn' = turn
  BY TargetIsMember DEF Send, At, roomVars
<1>2. /\ msg[k] \in Msgs /\ msg[k].kind # "pong"
      /\ pos[k] \in Nat /\ DOMAIN members = 1 .. Len(members) /\ Len(members) \in Nat
  BY <1>1, LenProperties DEF Placed, PlacedAt, TypeOK
<1>3. msg[k].nr = turn /\ \A i \in DOMAIN members : i >= pos[k] => Below(members[i], turn)
  BY <1>1 DEF Numbered, NumberedAt
<1>4. Below(c, turn)
  BY <1>1, <1>2, <1>3
<1>5. /\ SameOrder'
      /\ \A d \in Clients : \A u \in Range(wire'[d]) : Finished(u) =>
           \/ u \in Range(wire[d])
           \/ d = c /\ u[1].nr = turn /\ Ended(k)
  BY <1>1, <1>2, <1>3, <1>4, WriteInOrder
<1>6. \A d \in Clients : Below(d, turn + 1)'
  <2>1. \A d \in Clients : \A u \in Range(wire'[d]) : Finished(u) => u[1].nr < turn + 1
    <3>1. turn \in Nat /\ turn < turn + 1
      BY DEF TypeOK
    <3>2. QED
      BY <1>5, <3>1 DEF Numbered, Below
  <2>2. QED
    BY <1>1, <2>1 DEF Below
<1>7. \A d \in Clients : d # k => ~ Broadcasting(d)'
  <2>1. \A d \in Clients : d # k => ~ Broadcasting(d)
    BY <1>1 DEF Exclusive
  <2>2. \A d \in Clients : d # k => status'[d] = status[d] /\ at'[d] = at[d]
    BY <1>1, WritePlaces
  <2>3. QED
    BY <1>1, <2>1, <2>2 DEF Broadcasting
<1>8. ASSUME NEW i \in DOMAIN members, i >= pos'[k] PROVE Below(members[i], turn)'
  <2>1. members[i] \in Clients
    BY DEF TypeOK
  <2>2. i >= pos[k] /\ (Ended(k) => i # pos[k])
    <3>1. pos'[k] = pos[k] \/ pos'[k] = pos[k] + 1
      BY <1>1, WriteMoves
    <3>2. Ended(k) => pos'[k] = pos[k] + 1
      BY <1>1, EndedPlaced
    <3>3. QED
      BY <1>2, <1>8, <3>1, <3>2
  <2>3. Ended(k) => members[i] # c
    BY <1>1, <2>2 DEF Exclusive, IsInjective
  <2>4. Below(members[i], turn)
    BY <1>3, <2>2
  <2>5. \A u \in Range(wire'[members[i]]) : Finished(u) => u[1].nr < turn
    BY <1>5, <2>1, <2>3, <2>4 DEF Below
  <2>6. QED
    BY <1>1, <2>5 DEF Below
<1>9. NumberedAt(k)'
  BY <1>1, <1>3, <1>8 DEF NumberedAt
<1>10. QED
  BY <1>5, <1>6, <1>7, <1>9 DEF Numbered, NumberedAt

\* A step of the reply to a PING.
LEMMA PongNumbered ==
  ASSUME TypeOK, Placed, Numbered, NEW k \in Clients, Ponging(k)
  PROVE  Numbered'
<1>1. /\ Write(k, k) /\ status[k] = "running" /\ at[k] = "pong"
      /\ msg' = msg /\ members' = members /\ turn' = turn
  BY DEF Ponging, At, roomVars
<1>2. msg[k] \in Msgs /\ msg[k].kind = "pong"
  BY <1>1 DEF Placed, PlacedAt
<1>3. /\ SameOrder'
      /\ \A d \in Clients : \A u \in Range(wire'[d]) : Finished(u) => u \in Range(wire[d])
  BY <1>1, <1>2, WriteInOrder
<1>4. \A d \in Clients : \A n : Below(d, n) => \A u \in Range(wire'[d]) : Finished(u) => u[1].nr < n
  BY <1>3 DEF Below
<1>5. \A d \in Clients : Below(d, turn + 1)'
  BY <1>1, <1>4 DEF Numbered, Below
<1>6. ASSUME NEW d \in Clients, Broadcasting(d)' PROVE NumberedAt(d)'
  <2>1. d # k
    BY <1>1, <1>2, <1>6, WritePlaces DEF Broadcasting
  <2>2. Broadcasting(d) /\ pos'[d] = pos[d]
    BY <1>1, <1>6, <2>1, WritePlaces, WriteMoves DEF Broadcasting
  <2>3. msg[d].nr = turn /\ \A i \in DOMAIN members : i >= pos[d] => Below(members[i], turn)
    BY <2>2 DEF Numbered, NumberedAt
  <2>4. ASSUME NEW i \in DOMAIN members, i >= pos[d] PROVE Below(members[i], turn)'
    <3>1. members[i] \in Clients
      BY DEF TypeOK
    <3>2. \A u \in Range(wire'[members[i]]) : Finished(u) => u[1].nr < turn
      BY <1>4, <2>3, <2>4, <3>1
    <3>3. QED
      BY <1>1, <3>2 DEF Below
  <2>5. QED
    BY <1>1, <2>2, <2>3, <2>4 DEF NumberedAt
<1>7. QED
  BY <1>3, <1>5, <1>6 DEF Numbered, NumberedAt

\* A broadcast begins: it is newer than everything that was heard.
LEMMA LockNumbered ==
  ASSUME TypeOK, Placed, Exclusive, Numbered, NEW k \in Clients, Lock(k)
  PROVE  Numbered'
<1>1. UNCHANGED <<wire, members, status>> /\ mutex = None
  BY DEF Lock
<1>2. /\ turn' = turn + 1 /\ msg'[k].nr = turn + 1
      /\ \A d \in Clients : d # k => msg'[d] = msg[d]
  BY TurnTaken
<1>3. \A d \in Clients : d # k => ~ Broadcasting(d)'
  <2>1. \A d \in Clients : ~ Broadcasting(d)
    BY <1>1, NobodyBroadcasts
  <2>2. \A d \in Clients : d # k => at'[d] = at[d]
    BY DEF Lock, TypeOK
  <2>3. QED
    BY <1>1, <1>2, <2>1, <2>2 DEF Broadcasting
<1>4. \A d \in Clients : Below(d, turn + 1)
  BY DEF Numbered
<1>5. \A i \in DOMAIN members : members[i] \in Clients
  BY DEF TypeOK
<1>6. \A d \in Clients : Below(d, turn)'
  BY <1>1, <1>2, <1>4 DEF Below
<1>7. turn' \in Nat
  BY TurnTaken
<1>8. \A d \in Clients : Below(d, turn + 1)'
  <2>1. ASSUME NEW d \in Clients, NEW u \in Range(wire[d]), Finished(u) PROVE u[1].nr < turn' + 1
    <3>1. u[1].nr \in Nat /\ u[1].nr < turn'
      BY <1>2, <1>4, <2>1, NrIsNat DEF Below
    <3>2. QED
      BY <1>7, <3>1
  <2>2. QED
    BY <1>1, <2>1 DEF Below
<1>9. NumberedAt(k)'
  <2>1. \A i \in DOMAIN members : \A u \in Range(wire[members[i]]) : Finished(u) => u[1].nr < turn'
    BY <1>1, <1>5, <1>6 DEF Below
  <2>2. QED
    BY <1>1, <1>2, <2>1 DEF NumberedAt, Below
<1>10. SameOrder'
  BY <1>1 DEF Numbered, SameOrder
<1>11. QED
  BY <1>3, <1>8, <1>9, <1>10 DEF Numbered, NumberedAt

LEMMA NextNumbered ==
  TypeOK /\ Placed /\ Awaited /\ Exclusive /\ Numbered /\ [Next]_vars => Numbered'
<1> SUFFICES ASSUME TypeOK, Placed, Awaited, Exclusive, Numbered, [Next]_vars PROVE Numbered'
  OBVIOUS
<1> USE DEF handlerVars, roomVars, clientVars
<1>1. ASSUME NEW k \in Clients, Connect(k) PROVE Numbered'
  <2>1. \A d \in Clients : Broadcasting(d)' => Broadcasting(d)
    BY <1>1 DEF Connect, TypeOK, Broadcasting
  <2>2. QED
    BY <1>1, <2>1, NumberedElsewhere DEF Connect
<1>2. ASSUME NEW k \in Clients, ClientSends(k) \/ ClientReads(k) PROVE Numbered'
  BY <1>2, NumberedElsewhere DEF ClientSends, ClientReads, Broadcasting
<1>3. ASSUME NEW k \in Clients, Resume(k) PROVE Numbered'
  <2>1. \A d \in Clients : d # k => status'[d] = status[d] /\ at'[d] = at[d]
    BY <1>3 DEF Resume, TypeOK
  <2>2. msg' = msg /\ status[k] = "ready"
    BY <1>3 DEF Resume
  <2>3. /\ at'[k] = at[k] \/ (at[k] = "blocked" /\ (at'[k] = "send" => msg[k].kind # "pong"))
        /\ at'[k] = "blocked" => at[k] = "blocked"
    BY <1>3 DEF Resume, TypeOK
  <2>4. \A d \in Clients : Broadcasting(d)' => Broadcasting(d)
    BY <2>1, <2>2, <2>3 DEF Broadcasting
  <2>5. \A d \in Clients : pos'[d] = pos[d] \/ pos'[d] = pos[d] + 1
    <3>1. pos' = pos \/ pos' = [pos EXCEPT ![k] = pos[k] + 1]
      BY <1>3 DEF Resume
    <3>2. QED
      BY <3>1 DEF TypeOK
  <2>6. QED
    BY <1>3, <2>4, <2>5, NumberedElsewhere DEF Resume
<1>4. ASSUME NEW k \in Clients, Wake(k) PROVE Numbered'
  <2>1. waits[k].co \in Clients /\ status[waits[k].co] = "waiting"
    BY <1>4 DEF Wake, Awaited, TypeOK
  <2>2. \A d \in Clients : Broadcasting(d)' => Broadcasting(d)
    BY <1>4, <2>1 DEF Wake, TypeOK, Broadcasting
  <2>3. QED
    BY <1>4, <2>2, NumberedElsewhere DEF Wake
<1>5. ASSUME NEW k \in Clients, Join(k) \/ Leave(k) PROVE Numbered'
  <2>1. \A d \in Clients : ~ Broadcasting(d)
    BY <1>5, NobodyBroadcasts DEF Join, Leave
  <2>2. \A d \in Clients : ~ Broadcasting(d)'
    BY <1>5, <2>1 DEF Join, Leave, At, TypeOK, Broadcasting
  <2>3. UNCHANGED <<wire, turn>>
    BY <1>5 DEF Join, Leave
  <2>4. QED
    BY <2>2, <2>3 DEF Numbered, NumberedAt, SameOrder, Below
<1>6. ASSUME NEW k \in Clients, List(k) PROVE Numbered'
  <2>1. \A d \in Clients : Broadcasting(d)' => Broadcasting(d) /\ d # k
    BY <1>6 DEF List, At, TypeOK, Broadcasting
  <2>2. \A d \in Clients : d # k => msg'[d] = msg[d]
    BY <1>6 DEF List, TypeOK
  <2>3. QED
    BY <1>6, <2>1, <2>2, NumberedElsewhere DEF List
<1>7. ASSUME NEW k \in Clients, Lock(k) PROVE Numbered'
  BY <1>7, LockNumbered
<1>8. ASSUME NEW k \in Clients, Send(k) PROVE Numbered'
  BY <1>8, SendNumbered
<1>9. ASSUME NEW k \in Clients, Unlock(k) PROVE Numbered'
  <2>1. \A d \in Clients : Broadcasting(d)' => Broadcasting(d)
    BY <1>9 DEF Unlock, At, TypeOK, Broadcasting
  <2>2. QED
    BY <1>9, <2>1, NumberedElsewhere DEF Unlock
<1>10. ASSUME NEW k \in Clients, Await(k) PROVE Numbered'
  <2>1. \A d \in Clients : Broadcasting(d)' => Broadcasting(d)
    BY <1>10 DEF Await, At, WaitEvent, TypeOK, Broadcasting
  <2>2. QED
    BY <1>10, <2>1, NumberedElsewhere DEF Await
<1>11. ASSUME NEW k \in Clients, Closed(k) PROVE Numbered'
  <2>1. \A d \in Clients : Broadcasting(d)' => Broadcasting(d)
    BY <1>11 DEF Closed, At, TypeOK, Broadcasting
  <2>2. QED
    BY <1>11, <2>1, NumberedElsewhere DEF Closed
<1>12. ASSUME NEW k \in Clients, Frame(k) PROVE Numbered'
  <2>1. \A d \in Clients : d # k => at'[d] = at[d] /\ msg'[d] = msg[d]
    BY <1>12 DEF Frame, TypeOK
  <2>2. at'[k] \in {"lock", "pong", "recv", "leave"}
    BY <1>12 DEF Frame, TypeOK
  <2>3. \A d \in Clients : Broadcasting(d)' => Broadcasting(d) /\ d # k
    BY <1>12, <2>1, <2>2 DEF Frame, Broadcasting
  <2>4. QED
    BY <1>12, <2>1, <2>3, NumberedElsewhere DEF Frame
<1>13. ASSUME NEW k \in Clients, Ponging(k) PROVE Numbered'
  BY <1>13, PongNumbered
<1>14. CASE UNCHANGED vars
  BY <1>14, NumberedElsewhere DEF vars, Broadcasting
<1>15. QED
  BY <1>1, <1>2, <1>3, <1>4, <1>5, <1>6, <1>7, <1>8, <1>9, <1>10, <1>11, <1>12, <1>13,
     <1>14 DEF Next, Handler

-----------------------------------------------------------------------------
(* The theorems.                                                           *)

\* Everything together is inductive.
THEOREM Inductive == Spec => []IInv
<1>1. Init => IInv
  BY InitTyped, InitPlaced, InitAwaited, InitExclusive, InitWires, InitNumbered DEF IInv
<1>2. IInv /\ [Next]_vars => IInv'
  BY NextTyped, NextPlaced, NextAwaited, NextExclusive, NextWires, NextNumbered DEF IInv
<1>3. QED
  BY <1>1, <1>2, PTL DEF Spec

\* The variables stay in their types; a send buffer never holds more than
\* SndBuf units.
THEOREM TypeCorrect == Spec => []TypeOK
<1>1. IInv => TypeOK
  BY DEF IInv
<1>2. QED
  BY <1>1, Inductive, PTL

\* No pointer in clients_, and no iterator of a broadcast, outlives its client,
\* also while the broadcast is suspended in send().
THEOREM NoDanglingAlways == Spec => []NoDangling
<1>1. IInv => NoDangling
  <2> SUFFICES ASSUME IInv PROVE NoDangling
    OBVIOUS
  <2>1. \A k \in Clients : InRoom(k) => status[k] \notin {"new", "done"} /\ at[k] # "join"
    BY DEF IInv, Placed, PlacedAt
  <2>2. ASSUME NEW k \in Clients, Broadcasting(k), sent[k] > 0 \/ at[k] = "blocked"
        PROVE  /\ pos[k] \in DOMAIN members
               /\ status[members[pos[k]]] \notin {"new", "done"}
               /\ sent[k] > 0 => <<msg[k], 1>> \in Range(wire[members[pos[k]]])
    <3>1. pos[k] \in DOMAIN members
      BY <2>2 DEF IInv, Exclusive
    <3>2. members[pos[k]] \in Clients /\ InRoom(members[pos[k]])
      BY <3>1 DEF IInv, TypeOK, InRoom, Range
    <3>3. sent[k] > 0 => <<msg[k], 1>> \in Range(wire[members[pos[k]]])
      BY <2>2 DEF IInv, Wires, Half, Range
    <3>4. QED
      BY <2>1, <3>1, <3>2, <3>3
  <2>3. QED
    BY <2>1, <2>2 DEF NoDangling, IInv, Exclusive
<1>2. QED
  BY <1>1, Inductive, PTL

\* On every connection, each broadcast is whole: its second half follows its
\* first, with nothing but replies to PINGs between.
THEOREM BroadcastsIntactAlways == Spec => []BroadcastsIntact
<1>1. IInv => BroadcastsIntact
  BY DEF IInv, Wires
<1>2. QED
  BY <1>1, Inductive, PTL

\* All clients get the broadcasts in the order in which these took the mutex,
\* and none twice.
THEOREM SameOrderAlways == Spec => []SameOrder
<1>1. IInv => SameOrder
  BY DEF IInv, Numbered
<1>2. QED
  BY <1>1, Inductive, PTL

\* When broadcast() returns, every client in the room has the message, or is
\* closed.
THEOREM EverybodyHearsAlways == Spec => EverybodyHears
<1> DEFINE Told ==
      \A k \in Clients : At(k, "send") /\ mutex = k /\ mutex' # k =>
        \A c \in Range(members) : closed[c] \/ <<msg[k], 2>> \in Range(wire[c])
<1>1. IInv /\ [Next]_vars => [Told]_vars
  <2> SUFFICES ASSUME IInv, Next,
                      NEW k \in Clients, At(k, "send"), mutex = k, mutex' # k,
                      NEW c \in Range(members)
               PROVE  closed[c] \/ <<msg[k], 2>> \in Range(wire[c])
    OBVIOUS
  <2>1. PICK i \in DOMAIN members : members[i] = c
    BY DEF Range
  <2>2. Unlock(k)
    <3>1. k # None
      BY ChatRoomAssumption
    <3>2. PICK j \in Clients : Unlock(j)
      BY <3>1 DEF Next, Handler, Connect, ClientSends, ClientReads, Resume, Wake, Join, List,
         Lock, Send, Await, Closed, Frame, Ponging, Leave, roomVars
    <3>3. mutex = j
      BY <3>2 DEF Unlock, At, Broadcasting, IInv, Exclusive
    <3>4. QED
      BY <3>2, <3>3
  <2>3. i < pos[k]
    <3>1. DOMAIN members = 1 .. Len(members) /\ Len(members) \in Nat /\ pos[k] \in Nat
      BY LenProperties DEF IInv, TypeOK
    <3>2. QED
      BY <2>1, <2>2, <3>1 DEF Unlock
  <2>4. Broadcasting(k)
    BY DEF At, Broadcasting
  <2>5. Has(members[i], msg[k])
    BY <2>1, <2>3, <2>4 DEF IInv, Wires
  <2>6. QED
    BY <2>1, <2>5 DEF Has
<1>2. QED
  BY <1>1, Inductive, PTL DEF Spec, EverybodyHears
=============================================================================
