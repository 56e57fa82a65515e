----------------------------- MODULE WebSocket -----------------------------
(***************************************************************************)
(* The WebSocket codec and its caller: WebSocket::handshake, recv_frame    *)
(* and send_frame (websocket.cpp), driven by the handler of "/ws"          *)
(* (main.cpp) for one client that is alone in the room.                    *)
(*                                                                         *)
(* A byte is a number below Base.  Its highest bit is Base \div 2, and the  *)
(* lengths at which the format changes follow from Base: the 7-bit lengths *)
(* 126 and 127 are Near and Near + 1, and 65536 is Base^2.  The connection *)
(* keeps the promise of read_exact() that Connection checks.               *)
(***************************************************************************)
EXTENDS Integers, SequencesExt

CONSTANTS
  Base,      \* how many values a byte has (256)
  BitXor(_, _),  \* the operator ^ of C++ on bytes
  Opcodes,   \* how many opcodes there are (16),
  TextOp, CloseOp, PingOp,   \* and those that the handler knows
  Limit,     \* the largest payload that is accepted (10 MB)
  Clients,   \* what a client may send: [key, script], where key is the value of
             \* Sec-WebSocket-Key or None, and script a sequence of frames
  Greeting, Prefix,  \* the broadcast at a join; what a message is prefixed with
  None

Byte == 0 .. Base - 1
HighBit == Base \div 2
Near == HighBit - 2

\* The forms of the length, and the first length that is too long for each.
Capacity ==
  LET b4 == Base * Base * Base * Base
  IN  [form \in {"7", "16", "64"} |->
         CASE form = "7" -> Near [] form = "16" -> Base * Base [] form = "64" -> b4 * b4]

\* What a client may send: any form of the length that has room for it.
Frames ==
  {f \in [fin : BOOLEAN, op : 0 .. Opcodes - 1, payload : Seq(Byte),
          form : DOMAIN Capacity, key : [1 .. 4 -> Byte] \cup {None}] :
     Len(f.payload) < Capacity[f.form]}

ASSUME WebSocketAssumption ==
  /\ Base \in Nat /\ Base >= 6 /\ Base % 2 = 0
  /\ Opcodes \in Nat /\ HighBit % Opcodes = 0
  /\ {TextOp, CloseOp, PingOp} \subseteq 0 .. Opcodes - 1
  /\ \A a, b \in Byte : BitXor(a, b) \in Byte /\ BitXor(BitXor(a, b), b) = a
  /\ Limit \in Nat /\ Greeting \in Seq(Byte) /\ Prefix \in Seq(Byte)
  /\ Len(Greeting) < Capacity["64"] /\ Len(Prefix) + Limit < Capacity["64"]
  /\ Clients \subseteq [key : Seq(STRING) \cup {None}, script : Seq(Frames)]

VARIABLES
  client,    \* this client
  wire,      \* the bytes that have arrived,
  taken,     \* and how many of these were read
  starts,    \* history: after how many bytes each frame of the script begins
  ended,     \* the client has hung up
  pc,        \* where the handler is
  closed,    \* closed_
  frame,     \* frame, and the payload_len and mask of recv_frame()
  got,       \* history: the frames that recv_frame() returned
  out,       \* what was written to the socket
  texts      \* history: the texts that were to be sent, and from where in out

clientVars == <<client, wire, starts, ended>>
vars == <<clientVars, taken, pc, closed, frame, got, out, texts>>

-----------------------------------------------------------------------------
(* The client.                                                             *)

Flag(bit) == IF bit THEN HighBit ELSE 0

\* n in w bytes, the most significant one first.
BigEndian(n, w) ==
  LET shr[i \in 0 .. w - 1] == IF i = 0 THEN n ELSE shr[i - 1] \div Base
  IN  [i \in 1 .. w |-> shr[w - i] % Base]

Masked(p, k) == [i \in DOMAIN p |-> BitXor(p[i], k[((i - 1) % 4) + 1])]

\* The length in a form: seven bits, and the bytes that follow them.
Length7(f) == CASE f.form = "7" -> Len(f.payload) [] f.form = "16" -> Near [] f.form = "64" -> Near + 1

Extended(f) ==
  CASE f.form = "7"  -> <<>>
    [] f.form = "16" -> BigEndian(Len(f.payload), 2)
    [] f.form = "64" -> BigEndian(Len(f.payload), 8)

Encoded(f) ==
  <<Flag(f.fin) + f.op, Flag(f.key # None) + Length7(f)>> \o Extended(f)
  \o (IF f.key = None THEN f.payload ELSE f.key \o Masked(f.payload, f.key))

\* The frame that is arriving.
Arriving == Encoded(client.script[Len(starts)])

ClientSends ==
  /\ ~ ended /\ Len(starts) <= Len(client.script)
  /\ wire' = Append(wire, Arriving[Len(wire) - Last(starts) + 1])
  /\ starts' = IF Len(wire') = Last(starts) + Len(Arriving) THEN Append(starts, Len(wire')) ELSE starts
  /\ UNCHANGED <<client, ended, taken, pc, closed, frame, got, out, texts>>

HangUp ==
  /\ ~ ended
  /\ ended' = TRUE
  /\ UNCHANGED <<client, wire, starts, taken, pc, closed, frame, got, out, texts>>

-----------------------------------------------------------------------------
(* handshake().                                                            *)

\* Blanks at both ends and carriage returns at the end are dropped.
Trimmed(k) ==
  LET heads == {i \in DOMAIN k : k[i] # " "}
      tails == {i \in DOMAIN k : k[i] \notin {" ", "\r"}}
  IN  IF tails = {} THEN <<>> ELSE SubSeq(k, Min(heads), Max(tails))

\* A header that is absent is refused as an empty one is.
Nonce == IF client.key = None THEN <<>> ELSE Trimmed(client.key)

Accept(k) == [accept |-> k]

\* write(): nothing on a closed connection; it may fail in the middle after a hang-up.
Write(bytes) ==
  \/ closed /\ UNCHANGED <<out, closed>>
  \/ ~ closed /\ out' = out \o bytes /\ UNCHANGED closed
  \/ /\ ~ closed /\ ended
     /\ closed' = TRUE
     /\ \E k \in 0 .. Len(bytes) - 1 : out' = out \o SubSeq(bytes, 1, k)

Refuse ==
  /\ pc = "handshake"
  /\ Nonce = <<>>
  /\ pc' = "done"
  /\ UNCHANGED <<clientVars, taken, closed, frame, got, out, texts>>

Upgrade ==
  /\ pc = "handshake"
  /\ Nonce # <<>>
  /\ Write(<<Accept(Nonce)>>)
  /\ pc' = "join"
  /\ UNCHANGED <<clientVars, taken, frame, got, texts>>

-----------------------------------------------------------------------------
(* send_frame(TEXT, text).                                                 *)

\* Mutant of LengthField: the bound of the short form is off by one.
LengthFieldOff(n) ==
  IF n <= Near THEN <<n>>
  ELSE IF n < Base * Base THEN <<Near>> \o BigEndian(n, 2)
  ELSE <<Near + 1>> \o BigEndian(n, 8)

LengthField(n) ==
  IF n < Near THEN <<n>>
  ELSE IF n < Base * Base THEN <<Near>> \o BigEndian(n, 2)
  ELSE <<Near + 1>> \o BigEndian(n, 8)

SendText(text) ==
  /\ Write(<<HighBit + TextOp>> \o LengthField(Len(text)) \o text)
  /\ texts' = Append(texts, [text |-> text, at |-> Len(out) + 1])

\* room.join() and the broadcast that follows it.
Join ==
  /\ pc = "join"
  /\ SendText(Greeting)
  /\ pc' = "check"
  /\ UNCHANGED <<clientVars, taken, frame, got>>

-----------------------------------------------------------------------------
(* recv_frame().                                                           *)

RecvCheck ==
  /\ pc = "check"
  /\ pc' = IF closed THEN "leave" ELSE "header"
  /\ UNCHANGED <<clientVars, taken, closed, frame, got, out, texts>>

\* What read_exact() is asked for, and what it gives.
Wanted ==
  CASE pc = "header"  -> 2
    [] pc = "length"  -> IF frame.len = Near THEN 2 ELSE 8
    [] pc = "mask"    -> 4
    [] pc = "payload" -> frame.len

Reading == pc \in {"header", "length", "mask", "payload"}

Read(n) == SubSeq(wire, taken + 1, taken + n)

ReadExact ==
  /\ Len(wire) - taken >= Wanted
  /\ taken' = taken + Wanted
  /\ UNCHANGED <<clientVars, closed, out, texts>>

\* Mutant of TooLarge: the limit itself is refused.
TooLargeOff(n) == n >= Limit

TooLarge(n) == n > Limit

AfterLength(f) ==
  IF TooLarge(f.len) THEN "leave" ELSE IF f.masked THEN "mask" ELSE "payload"

RecvHeader ==
  /\ pc = "header"
  /\ ReadExact
  /\ LET b0 == Read(2)[1]  b1 == Read(2)[2]
     IN  frame' = [fin |-> b0 >= HighBit, op |-> b0 % Opcodes,
                   masked |-> b1 >= HighBit, len |-> b1 % HighBit, mask |-> <<0, 0, 0, 0>>]
  /\ pc' = IF frame'.len \in {Near, Near + 1} THEN "length" ELSE AfterLength(frame')
  /\ UNCHANGED got

\* len = len << 8 | byte, for one byte after the other.
Number(b) ==
  LET upto[i \in 0 .. Len(b)] == IF i = 0 THEN 0 ELSE upto[i - 1] * Base + b[i]
  IN  upto[Len(b)]

RecvLength ==
  /\ pc = "length"
  /\ ReadExact
  /\ frame' = [frame EXCEPT !.len = Number(Read(Wanted))]
  /\ pc' = AfterLength(frame')
  /\ UNCHANGED got

RecvMask ==
  /\ pc = "mask"
  /\ ReadExact
  /\ frame' = [frame EXCEPT !.mask = Read(4)]
  /\ pc' = "payload"
  /\ UNCHANGED got

\* Mutant of Unmasked: the mask is used from its second byte on.
UnmaskedOff(p, f) == IF f.masked THEN [i \in DOMAIN p |-> BitXor(p[i], f.mask[(i % 4) + 1])] ELSE p

Unmasked(p, f) ==
  IF f.masked THEN [i \in DOMAIN p |-> BitXor(p[i], f.mask[((i - 1) % 4) + 1])] ELSE p

RecvPayload ==
  /\ pc = "payload"
  /\ ReadExact
  /\ got' = Append(got, [fin |-> frame.fin, op |-> frame.op, masked |-> frame.masked,
                         payload |-> Unmasked(Read(frame.len), frame)])
  /\ pc' = "frame"
  /\ UNCHANGED frame

\* Mutant of RecvCut: what is left of the stream is waited for.
RecvCutWaits ==
  /\ Reading /\ ended
  /\ Len(wire) - taken < Wanted
  /\ UNCHANGED vars

\* The client hung up before it had sent what is asked for.
RecvCut ==
  /\ Reading /\ ended
  /\ Len(wire) - taken < Wanted
  /\ taken' = Len(wire)
  /\ closed' = TRUE
  /\ pc' = "leave"
  /\ UNCHANGED <<clientVars, frame, got, out, texts>>

-----------------------------------------------------------------------------
(* The loop of the handler.                                                *)

Handle ==
  /\ pc = "frame"
  /\ LET f == Last(got)
     IN  \/ /\ f.op = CloseOp
            /\ pc' = "leave"
            /\ UNCHANGED <<out, closed, texts>>
         \/ /\ f.op = PingOp
            /\ SendText(<<>>)
            /\ pc' = "check"
         \/ /\ f.op = TextOp /\ f.payload # <<>>
            /\ SendText(Prefix \o f.payload)
            /\ pc' = "check"
         \/ /\ f.op \notin {CloseOp, PingOp} /\ (f.op = TextOp => f.payload = <<>>)
            /\ pc' = "check"
            /\ UNCHANGED <<out, closed, texts>>
  /\ UNCHANGED <<clientVars, taken, frame, got>>

\* room.leave() and a broadcast that this client does not get any more.
Leave ==
  /\ pc = "leave"
  /\ pc' = "done"
  /\ UNCHANGED <<clientVars, taken, closed, frame, got, out, texts>>

Init ==
  /\ client \in Clients
  /\ wire = <<>>
  /\ starts = <<0>>
  /\ taken = 0
  /\ ended = FALSE
  /\ pc = "handshake"
  /\ closed = FALSE
  /\ frame = None
  /\ got = <<>>
  /\ out = <<>>
  /\ texts = <<>>

Server ==
  \/ Refuse \/ Upgrade \/ Join
  \/ RecvCheck \/ RecvHeader \/ RecvLength \/ RecvMask \/ RecvPayload \/ RecvCut
  \/ Handle \/ Leave

Next == ClientSends \/ HangUp \/ Server

Spec == Init /\ [][Next]_vars

\* The scheduler resumes the coroutine again and again; of clients nothing is assumed.
FairSpec == Spec /\ WF_vars(Server)

-----------------------------------------------------------------------------

AsSent(f) == [fin |-> f.fin, op |-> f.op, masked |-> f.key # None, payload |-> f.payload]

\* recv_frame() returns the frames of the client, unmasked, in order and whole,
\* whatever form their length has and wherever the stream was cut; never one
\* that is larger than the limit.
Received ==
  /\ IsPrefix(got, [i \in DOMAIN client.script |-> AsSent(client.script[i])])
  /\ \A f \in Range(got) : Len(f.payload) <= Limit

\* A client that follows the protocol reads a frame of the server at p.
Width(p) == CASE out[p + 1] = Near -> 2 [] out[p + 1] = Near + 1 -> 8 [] OTHER -> 0

Size(p) == IF Width(p) = 0 THEN out[p + 1] ELSE Number(SubSeq(out, p + 2, p + 1 + Width(p)))

Behind(p) == p + 2 + Width(p) + Size(p)

Complete(p) == p < Len(out) /\ p + 1 + Width(p) <= Len(out) /\ Behind(p) <= Len(out) + 1

ClientReads(p, text) ==
  /\ Complete(p)
  /\ out[p] = HighBit + TextOp
  /\ Width(p) = (IF Size(p) < Near THEN 0 ELSE IF Size(p) < Base * Base THEN 2 ELSE 8)
  /\ SubSeq(out, p + 2 + Width(p), Behind(p) - 1) = text

\* It reads from the socket the answer to its key without what surrounds it and
\* then, in frames that are whole, unmasked and of the shortest form, the texts
\* that were to be sent and nothing else; only what follows a failed write may
\* be missing.
KeyAnswered ==
  \E a, b \in DOMAIN client.key :
    /\ \A i \in 1 .. a - 1 : client.key[i] = " "
    /\ \A i \in b + 1 .. Len(client.key) : client.key[i] \in {" ", "\r"}
    /\ client.key[a] # " " /\ client.key[b] \notin {" ", "\r"}
    /\ out[1] = Accept(SubSeq(client.key, a, b))

RepliesReadable ==
  out # <<>> =>
    /\ KeyAnswered
    /\ \A i \in DOMAIN texts :
         \/ /\ texts[i].at = (IF i = 1 THEN 2 ELSE Behind(texts[i - 1].at))
            /\ ClientReads(texts[i].at, texts[i].text)
         \/ closed /\ \A j \in i .. Len(texts) : ~ Complete(texts[j].at)
    /\ ~ closed => Len(out) = IF texts = <<>> THEN 1 ELSE Behind(Last(texts).at) - 1

\* A frame that has arrived whole is returned, if nothing before it has ended
\* the conversation.
Ending(f) == f.op = CloseOp \/ Len(f.payload) > Limit

HasArrived(i) ==
  /\ i \in DOMAIN client.script /\ Nonce # <<>>
  /\ Len(client.script[i].payload) <= Limit
  /\ \A j \in 1 .. i - 1 : ~ Ending(client.script[j])
  /\ i < Len(starts)

EveryFrame == \A i \in 1 .. 2 : HasArrived(i) ~> (Len(got) >= i \/ closed)

\* When the client has hung up, the handler comes to its end, and the member
\* leaves the room.
HandlerEnds == ended ~> pc = "done"
=============================================================================
