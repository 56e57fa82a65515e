----------------------------- MODULE Connection -----------------------------
(***************************************************************************)
(* The byte streams of one Connection (net/connection.cpp): read_until and *)
(* read_exact over the buffer read_buf_, and write with its partial sends. *)
(*                                                                         *)
(* One coroutine reads (the connection's own) and one writes at a time     *)
(* (the own one, or one that broadcasts); the two share closed_ and switch *)
(* at system calls.  The kernel splits and delays the bytes as it likes,   *)
(* and the peer stops at any byte, in order (FIN) or not (RST).  For the   *)
(* descriptor the scheduler has one map entry and one registration, which  *)
(* the two coroutines share as well; the rest of the scheduler is left to  *)
(* Scheduler, and close() to TcpServer.                                    *)
(***************************************************************************)
EXTENDS Integers, Sequences

CONSTANTS
  Bytes,     \* the alphabet
  Delim,     \* the delimiter of read_until ("\r\n\r\n")
  Sizes,     \* arguments of read_exact
  Payloads,  \* arguments of write
  Chunk,     \* max_bytes of read() (4096)
  SndBuf,    \* room in the kernel's send buffer
  MaxIn,     \* bound: bytes the peer sends
  MaxOut     \* bound: bytes given to write

ASSUME ConnectionAssumption ==
  /\ Delim \in Seq(Bytes) /\ Delim # <<>>
  /\ Sizes \subseteq Nat
  /\ Payloads \subseteq Seq(Bytes)
  /\ Chunk \in Nat \ {0}
  /\ SndBuf \in Nat \ {0}
  /\ MaxIn \in Nat /\ MaxOut \in Nat

VARIABLES
  closed,    \* closed_
  readBuf,   \* read_buf_
  reader,    \* the call in progress on the reading side, and where it is
  writer,    \* the same on the writing side
  entry,     \* waiting_map[fd_]: "reader", "writer", or "none"
  epoll,     \* what fd_ is armed for: "in", "out"; "fired" once EPOLLONESHOT
             \* disarmed it; "none" while it is not in the epoll instance
  kernelIn,  \* bytes received and not yet read
  kernelOut, \* bytes sent and not yet taken by the peer
  peer,      \* "open", "fin" or "rst"
  arrived,   \* history: every byte that reached the kernel
  returned,  \* history: every byte that a read call returned
  last,      \* history: the last read call, its result, and closed_ by then
  written,   \* history: every byte of a finished write() that was sent
  reply,     \* history: the last write, its return value, and closed_ by then
  delivered, \* history: every byte that the peer took
  shared,    \* history: both coroutines were suspended on fd_ at a time
  refused    \* history: an EPOLL_CTL_ADD failed

readVars  == <<readBuf, reader, kernelIn, arrived, returned, last>>
writeVars == <<writer, kernelOut, written, reply, delivered>>
waitVars  == <<entry, epoll, shared, refused>>
vars == <<closed, peer, readVars, writeVars, waitVars>>

Until == [op |-> "until"]
Exactly(n) == [op |-> "exact", n |-> n]
NoCall == [op |-> "none"]
Calls == {Until} \cup {Exactly(n) : n \in Sizes}

WaitTypeOK ==
  /\ entry \in {"none", "reader", "writer"}
  /\ epoll \in {"none", "fired", "in", "out"}
  /\ {shared, refused} \subseteq BOOLEAN

TypeOK ==
  /\ closed \in BOOLEAN
  /\ peer \in {"open", "fin", "rst"}
  /\ {readBuf, kernelIn, arrived, returned} \subseteq Seq(Bytes)
  /\ reader \in [at : {"idle"}] \cup [at : {"scan", "recv", "wait", "ready"}, call : Calls]
  /\ {kernelOut, written, delivered} \subseteq Seq(Bytes)
  /\ Len(kernelOut) <= SndBuf
  /\ writer \in [at : {"idle"}]
       \cup [at : {"send", "wait", "ready"}, data : Payloads, sent : Nat]
  /\ WaitTypeOK

Init ==
  /\ closed = FALSE
  /\ peer = "open"
  /\ readBuf = <<>> /\ kernelIn = <<>> /\ arrived = <<>> /\ returned = <<>>
  /\ reader = [at |-> "idle"]
  /\ last = [call |-> NoCall, got |-> <<>>, closed |-> FALSE]
  /\ kernelOut = <<>> /\ written = <<>> /\ delivered = <<>>
  /\ writer = [at |-> "idle"]
  /\ reply = [value |-> 0, size |-> 0, closed |-> FALSE]
  /\ entry = "none" /\ epoll = "none"
  /\ shared = FALSE /\ refused = FALSE

-----------------------------------------------------------------------------
(* The peer and the kernel.                                                *)

PeerSend(b) ==
  /\ peer = "open"
  /\ Len(arrived) < MaxIn
  /\ arrived' = Append(arrived, b)
  /\ kernelIn' = Append(kernelIn, b)
  /\ UNCHANGED <<closed, peer, readBuf, reader, returned, last, writeVars, waitVars>>

PeerTake ==
  /\ kernelOut # <<>>
  /\ delivered' = Append(delivered, Head(kernelOut))
  /\ kernelOut' = Tail(kernelOut)
  /\ UNCHANGED <<closed, peer, readVars, writer, written, reply, waitVars>>

PeerEnd ==
  /\ peer # "rst"
  /\ peer' \in {"fin", "rst"} \ {peer}
  /\ UNCHANGED <<closed, readVars, writeVars, waitVars>>

-----------------------------------------------------------------------------
(* wait_event() of the scheduler, and its run(), as far as fd_ goes.       *)

Suspended(at) == at \in {"wait", "ready"}

\* MOD if the map has an entry, whatever it is for; otherwise ADD, and MOD if
\* that answers EEXIST.  Of a MOD or an ADD that fails nothing is noticed.
WaitEvent(who, other, ev) ==
  /\ entry' = who
  /\ shared' = (shared \/ Suspended(other.at))
  /\ \/ /\ entry = "none" \/ epoll # "none"
        /\ epoll' = ev
        /\ UNCHANGED refused
     \/ /\ epoll = "none"
        /\ refused' = (refused \/ entry = "none")
        /\ UNCHANGED epoll

\* EPOLLIN, EPOLLOUT, EPOLLHUP or EPOLLERR.
Pending ==
  \/ epoll = "in" /\ (kernelIn # <<>> \/ peer # "open")
  \/ epoll = "out" /\ (Len(kernelOut) < SndBuf \/ peer = "rst")

\* epoll_wait reports fd_; run() erases the map entry and puts the coroutine
\* that it names into the ready queue.
Report ==
  /\ Pending
  /\ epoll' = "fired"
  /\ entry' = "none"
  /\ IF entry = "reader" THEN reader' = [reader EXCEPT !.at = "ready"] ELSE UNCHANGED reader
  /\ IF entry = "writer" THEN writer' = [writer EXCEPT !.at = "ready"] ELSE UNCHANGED writer
  /\ UNCHANGED <<closed, peer, readBuf, kernelIn, arrived, returned, last, kernelOut,
                 written, reply, delivered, shared, refused>>

\* Back from swapcontext: EPOLL_CTL_DEL, whoever is behind fd_ by now.
Unregister == epoll' = "none" /\ UNCHANGED <<entry, shared, refused>>

-----------------------------------------------------------------------------
(* read_until, read_exact                                                  *)

Prefix(s, k) == SubSeq(s, 1, k)
Rest(s, k) == SubSeq(s, k + 1, Len(s))

\* The lengths of the prefixes of s that end in the delimiter.
DelimEnds(s) ==
  {k \in Len(Delim) .. Len(s) : SubSeq(s, k - Len(Delim) + 1, k) = Delim}

\* find() succeeds; size() >= n.
Enough(s, call) ==
  CASE call.op = "until" -> DelimEnds(s) # {}
    [] call.op = "exact" -> Len(s) >= call.n

\* Mutant of Cut: the last delimiter (rfind).
CutLast(k, s, call) ==
  CASE call.op = "until" -> k \in DelimEnds(s) /\ \A m \in DelimEnds(s) : m <= k
    [] call.op = "exact" -> k = call.n

\* The answer is the first k bytes.
Cut(k, s, call) ==
  CASE call.op = "until" -> k \in DelimEnds(s) /\ \A m \in DelimEnds(s) : k <= m
    [] call.op = "exact" -> k = call.n

Answer(k) ==
  /\ returned' = returned \o Prefix(readBuf, k)
  /\ readBuf' = Rest(readBuf, k)
  /\ last' = [call |-> reader.call, got |-> Prefix(readBuf, k), closed |-> closed']
  /\ reader' = [at |-> "idle"]

ReadCall(call) ==
  /\ reader.at = "idle"
  /\ reader' = [at |-> "scan", call |-> call]
  /\ UNCHANGED <<closed, peer, readBuf, kernelIn, arrived, returned, last, writeVars, waitVars>>

\* The buffer alone answers the call.
Found ==
  /\ reader.at = "scan"
  /\ Enough(readBuf, reader.call)
  /\ UNCHANGED closed
  /\ \E k \in 0 .. Len(readBuf) : Cut(k, readBuf, reader.call) /\ Answer(k)
  /\ UNCHANGED <<peer, kernelIn, arrived, writeVars, waitVars>>

\* More is needed: read(), which returns "" at once on a closed connection.
NotFound ==
  /\ reader.at = "scan"
  /\ ~ Enough(readBuf, reader.call)
  /\ IF closed
       THEN UNCHANGED closed /\ Answer(Len(readBuf))
       ELSE /\ reader' = [reader EXCEPT !.at = "recv"]
            /\ UNCHANGED <<closed, readBuf, returned, last>>
  /\ UNCHANGED <<peer, kernelIn, arrived, writeVars, waitVars>>

\* recv() > 0
Recv ==
  /\ reader.at = "recv"
  /\ kernelIn # <<>>
  /\ \E n \in 1 .. Len(kernelIn) :
       /\ n = Chunk \/ (n < Chunk /\ n = Len(kernelIn))
       /\ readBuf' = readBuf \o Prefix(kernelIn, n)
       /\ kernelIn' = Rest(kernelIn, n)
  /\ reader' = [reader EXCEPT !.at = "scan"]
  /\ UNCHANGED <<closed, peer, arrived, returned, last, writeVars, waitVars>>

AtEnd ==
  /\ reader.at = "recv"
  /\ \/ peer = "fin" /\ kernelIn = <<>>
     \/ peer = "rst"

\* Mutants of RecvEnd: an incomplete read returns "" and drops the buffer; 0 is
\* taken for EAGAIN.
RecvEndDrops ==
  /\ AtEnd
  /\ closed' = TRUE
  /\ readBuf' = <<>>
  /\ last' = [call |-> reader.call, got |-> <<>>, closed |-> closed']
  /\ reader' = [at |-> "idle"]
  /\ UNCHANGED <<peer, kernelIn, arrived, returned, writeVars, waitVars>>

RecvEndAsAgain ==
  /\ AtEnd
  /\ reader' = [reader EXCEPT !.at = "wait"]
  /\ WaitEvent("reader", writer, "in")
  /\ UNCHANGED <<closed, peer, readBuf, kernelIn, arrived, returned, last, writeVars>>

\* recv() = 0, or an error: the connection is marked closed and the call
\* returns what is in the buffer.
RecvEnd ==
  /\ AtEnd
  /\ closed' = TRUE
  /\ Answer(Len(readBuf))
  /\ UNCHANGED <<peer, kernelIn, arrived, writeVars, waitVars>>

\* EAGAIN: wait_event(fd_, EPOLLIN).
RecvAgain ==
  /\ reader.at = "recv"
  /\ kernelIn = <<>> /\ peer = "open"
  /\ reader' = [reader EXCEPT !.at = "wait"]
  /\ WaitEvent("reader", writer, "in")
  /\ UNCHANGED <<closed, peer, readBuf, kernelIn, arrived, returned, last, writeVars>>

\* The writer may have closed in the meantime.
RecvWoken ==
  /\ reader.at = "ready"
  /\ Unregister
  /\ IF closed
       THEN UNCHANGED closed /\ Answer(Len(readBuf))
       ELSE /\ reader' = [reader EXCEPT !.at = "recv"]
            /\ UNCHANGED <<closed, readBuf, returned, last>>
  /\ UNCHANGED <<peer, kernelIn, arrived, writeVars>>

-----------------------------------------------------------------------------
(* write                                                                   *)

Sent == IF writer.at = "idle" THEN <<>> ELSE Prefix(writer.data, writer.sent)

Reply(value, sent) ==
  /\ written' = written \o Prefix(writer.data, sent)
  /\ reply' = [value |-> value, size |-> Len(writer.data), closed |-> closed']
  /\ writer' = [at |-> "idle"]

\* write() of nothing, or on a closed connection, returns 0 and is left out.
WriteCall(data) ==
  /\ writer.at = "idle"
  /\ ~ closed /\ data # <<>>
  /\ Len(written) + Len(data) <= MaxOut
  /\ writer' = [at |-> "send", data |-> data, sent |-> 0]
  /\ UNCHANGED <<closed, peer, readVars, kernelOut, written, reply, delivered, waitVars>>

SendFrom(start) ==
  /\ writer.at = "send"
  /\ peer # "rst"
  /\ \E n \in 1 .. Len(writer.data) - writer.sent :
       /\ Len(kernelOut) + n <= SndBuf
       /\ kernelOut' = kernelOut \o Prefix(Rest(writer.data, start), n)
       /\ IF writer.sent + n = Len(writer.data)
            THEN UNCHANGED closed /\ Reply(writer.sent + n, writer.sent + n)
            ELSE /\ writer' = [writer EXCEPT !.sent = @ + n]
                 /\ UNCHANGED <<closed, written, reply>>
  /\ UNCHANGED <<peer, readVars, delivered, waitVars>>

\* Mutant of Send: each send() takes the data from its start.
SendFromStart == SendFrom(0)

\* send() > 0 takes what fits; closed_ is not looked at between two of them.
Send == SendFrom(writer.sent)

\* EAGAIN: wait_event(fd_, EPOLLOUT).
SendAgain ==
  /\ writer.at = "send"
  /\ Len(kernelOut) = SndBuf /\ peer # "rst"
  /\ writer' = [writer EXCEPT !.at = "wait"]
  /\ WaitEvent("writer", reader, "out")
  /\ UNCHANGED <<closed, peer, readVars, kernelOut, written, reply, delivered>>

\* The reader may have closed in the meantime.
SendWoken ==
  /\ writer.at = "ready"
  /\ Unregister
  /\ IF closed
       THEN UNCHANGED closed /\ Reply(writer.sent, writer.sent)
       ELSE /\ writer' = [writer EXCEPT !.at = "send"]
            /\ UNCHANGED <<closed, written, reply>>
  /\ UNCHANGED <<peer, readVars, kernelOut, delivered>>

SendError ==
  /\ writer.at = "send"
  /\ peer = "rst"
  /\ closed' = TRUE
  /\ Reply(IF writer.sent > 0 THEN writer.sent ELSE -1, writer.sent)
  /\ UNCHANGED <<peer, readVars, kernelOut, delivered, waitVars>>

-----------------------------------------------------------------------------

Reading == Found \/ NotFound \/ Recv \/ RecvEnd \/ RecvAgain \/ RecvWoken
Writing == Send \/ SendAgain \/ SendWoken \/ SendError

Next ==
  \/ \E b \in Bytes : PeerSend(b)
  \/ PeerTake
  \/ PeerEnd
  \/ \E call \in Calls : ReadCall(call)
  \/ Reading
  \/ \E data \in Payloads : WriteCall(data)
  \/ Writing
  \/ Report

Spec == Init /\ [][Next]_vars

\* The coroutines and run() go on; what the peer does is up to the peer.
FairSpec == Spec /\ WF_vars(Reading) /\ WF_vars(Writing) /\ WF_vars(Report)

-----------------------------------------------------------------------------

\* No byte is lost, repeated or reordered between the kernel and the results
\* of the calls, however the stream is cut into chunks and whatever mixture of
\* read_until and read_exact consumes it.
StreamIntact == returned \o readBuf \o kernelIn = arrived

\* read_until returns up to the first delimiter and no further, also when the
\* delimiter is spread over chunks; without a delimiter only when closed.
UntilFirst ==
  last.call.op = "until" =>
    \/ DelimEnds(last.got) = {Len(last.got)}
    \/ DelimEnds(last.got) = {} /\ last.closed

\* read_exact returns n bytes, or fewer on a closed connection.
ExactSize ==
  last.call.op = "exact" =>
    \/ Len(last.got) = last.call.n
    \/ Len(last.got) < last.call.n /\ last.closed

\* Every read call gets what it asked for.
CallsHonoured == UntilFirst /\ ExactSize

\* What the peer gets is what was written, in order, and write() counts it.
InOrder == delivered \o kernelOut = written \o Sent

\* write() leaves a rest behind only on a closed connection.
AllWritten == reply.value = reply.size \/ reply.closed

\* The stream to the peer is that of the calls of write(), although send() takes
\* parts of the data and the connection may die between two parts; and the
\* results of write() say so.
WireIntact == InOrder /\ AllWritten

\* A call whose answer has arrived returns, although the coroutine went to
\* sleep before the bytes came, or the writer closed the connection; unless the
\* reader and the writer came to wait for fd_ at the same time, or epoll did not
\* take it.
ReadReturns ==
  \A call \in Calls :
    (/\ reader.at # "idle" /\ reader.call = call
     /\ Enough(readBuf \o kernelIn, call) \/ peer # "open")
    ~> reader.at = "idle" \/ shared \/ refused

\* What connection.h says of read(): a coroutine that is suspended for want of
\* data goes on when there is some.  The code does not keep it if a writer has
\* to wait on the same descriptor.
ReadResumes ==
  reader.at = "wait" /\ kernelIn # <<>> ~> reader.at # "wait" \/ refused
=============================================================================
