-------------------------- MODULE ConnectionProofs --------------------------
(***************************************************************************)
(* Theorems about Connection for every delimiter, chunk size, buffer size  *)
(* and history of the peer.                                                *)
(***************************************************************************)
EXTENDS Connection, SequenceTheorems, TLAPS

-----------------------------------------------------------------------------
(* Cutting sequences.                                                      *)

LEMMA Associative ==
  \A s, t, u \in Seq(Bytes) : (s \o t) \o u = s \o (t \o u)
<1>1. TAKE s, t, u \in Seq(Bytes)
<1>2. QED
  BY ConcatAssociative

\* A sequence is the first k elements followed by the others.
LEMMA CutInTwo ==
  ASSUME NEW s \in Seq(Bytes), NEW k \in 0 .. Len(s)
  PROVE  /\ Prefix(s, k) \in Seq(Bytes) /\ Len(Prefix(s, k)) = k
         /\ Rest(s, k) \in Seq(Bytes) /\ Len(Rest(s, k)) = Len(s) - k
         /\ Prefix(s, k) \o Rest(s, k) = s
<1>1. Len(s) \in Nat /\ \A i \in 1 .. Len(s) : s[i] \in Bytes
  BY LenProperties, ElementOfSeq
<1>2. Prefix(s, k) \in Seq(Bytes) /\ Len(Prefix(s, k)) = k
  <2>1. \A i \in 1 .. k : s[i] \in Bytes
    BY <1>1
  <2>2. QED
    BY <1>1, <2>1, SubSeqProperties DEF Prefix
<1>3. Rest(s, k) \in Seq(Bytes) /\ Len(Rest(s, k)) = Len(s) - k
  <2>1. \A i \in k + 1 .. Len(s) : s[i] \in Bytes
    BY <1>1
  <2>2. QED
    BY <1>1, <2>1, SubSeqProperties DEF Rest
<1>4. Prefix(s, k) \o Rest(s, k) = s
  <2>1. 1 \in 1 .. Len(s) + 1 /\ k \in 1 - 1 .. Len(s) /\ Len(s) \in k .. Len(s)
    BY <1>1
  <2>2. SubSeq(s, 1, k) \o SubSeq(s, k + 1, Len(s)) = SubSeq(s, 1, Len(s))
    BY <2>1, ConcatAdjacentSubSeq, Zenon
  <2>3. QED
    BY <2>2, SubSeqFull DEF Prefix, Rest
<1>5. QED
  BY <1>2, <1>3, <1>4

\* The prefix grows by what follows it.
LEMMA LongerPrefix ==
  ASSUME NEW s \in Seq(Bytes), NEW k \in 0 .. Len(s), NEW n \in 1 .. Len(s) - k
  PROVE  Prefix(s, k) \o Prefix(Rest(s, k), n) = Prefix(s, k + n)
<1>1. Len(s) \in Nat
  BY LenProperties
<1>2. Prefix(Rest(s, k), n) = SubSeq(s, k + 1, k + n)
  <2>1. /\ 1 \in 1 .. Len(s) - (k + 1) + 1 /\ n \in 1 .. Len(s) - (k + 1) + 1
        /\ k + 1 \in 1 .. Len(s) /\ Len(s) \in 1 .. Len(s)
    BY <1>1
  <2>2. SubSeq(SubSeq(s, k + 1, Len(s)), 1, n) = SubSeq(s, (k + 1) + 1 - 1, (k + 1) + n - 1)
    BY <2>1, SubSeqOfSubSeq
  <2>3. QED
    BY <1>1, <2>2 DEF Prefix, Rest
<1>3. SubSeq(s, 1, k) \o SubSeq(s, k + 1, k + n) = SubSeq(s, 1, k + n)
  BY <1>1, ConcatAdjacentSubSeq
<1>4. QED
  BY <1>2, <1>3 DEF Prefix

\* A prefix of a prefix.
LEMMA PrefixOfPrefix ==
  ASSUME NEW s \in Seq(Bytes), NEW k \in 0 .. Len(s)
  PROVE  DelimEnds(Prefix(s, k)) = {j \in DelimEnds(s) : j <= k}
<1>1. /\ Len(s) \in Nat /\ Len(Delim) \in Nat \ {0}
      /\ Prefix(s, k) \in Seq(Bytes) /\ Len(Prefix(s, k)) = k
  BY LenProperties, CutInTwo, ConnectionAssumption, EmptySeq
<1>2. ASSUME NEW j \in Len(Delim) .. k
      PROVE  SubSeq(Prefix(s, k), j - Len(Delim) + 1, j) = SubSeq(s, j - Len(Delim) + 1, j)
  <2> DEFINE i == j - Len(Delim) + 1
  <2>1. /\ 1 \in 1 .. Len(s) /\ k \in 1 .. Len(s)
        /\ i \in 1 .. k - 1 + 1 /\ j \in 1 .. k - 1 + 1
    BY <1>1
  <2>2. 1 + i - 1 = i /\ 1 + j - 1 = j
    BY <1>1
  <2> HIDE DEF i
  <2>3. SubSeq(SubSeq(s, 1, k), i, j) = SubSeq(s, 1 + i - 1, 1 + j - 1)
    BY <2>1, SubSeqOfSubSeq
  <2>4. QED
    BY <2>2, <2>3 DEF Prefix, i
<1> DEFINE p == Prefix(s, k)
           Ends(t) == {j \in Len(Delim) .. k : SubSeq(t, j - Len(Delim) + 1, j) = Delim}
<1>3. DelimEnds(p) = Ends(p)
  <2>1. Len(p) = k
    BY <1>1
  <2> HIDE DEF p
  <2>2. QED
    BY <2>1 DEF DelimEnds
<1>4. Ends(p) = Ends(s)
  BY <1>2
<1>5. Ends(s) = {j \in DelimEnds(s) : j <= k}
  BY <1>1 DEF DelimEnds
<1>6. QED
  BY <1>3, <1>4, <1>5

-----------------------------------------------------------------------------
(* Type correctness.                                                       *)

\* What a read call that ends leaves behind has its type.
LEMMA AnswerTypeOK ==
  ASSUME TypeOK, NEW k \in 0 .. Len(readBuf), Answer(k)
  PROVE  /\ readBuf' \in Seq(Bytes) /\ returned' \in Seq(Bytes)
         /\ reader' \in [at : {"idle"}] \cup [at : {"scan", "recv", "wait", "ready"}, call : Calls]
<1>1. readBuf \in Seq(Bytes) /\ returned \in Seq(Bytes)
  BY DEF TypeOK
<1>2. Prefix(readBuf, k) \in Seq(Bytes) /\ Rest(readBuf, k) \in Seq(Bytes)
  BY <1>1, CutInTwo
<1>3. QED
  BY <1>1, <1>2, ConcatProperties DEF Answer

\* The map entry of fd_ names a coroutine that is suspended.
Behind ==
  /\ entry = "reader" => reader.at = "wait"
  /\ entry = "writer" => writer.at = "wait"

\* The payload being written, how far it got, and who is behind fd_.
WriterOK ==
  /\ writer.at # "idle" => writer.sent < Len(writer.data)
  /\ Behind

\* What a write that ends leaves behind has its type.
LEMMA ReplyTypeOK ==
  ASSUME TypeOK, writer.at # "idle", NEW n \in 0 .. Len(writer.data), NEW v, Reply(v, n)
  PROVE  /\ written' \in Seq(Bytes)
         /\ writer' \in [at : {"idle"}] \cup [at : {"send", "wait", "ready"}, data : Payloads, sent : Nat]
<1>1. writer.data \in Seq(Bytes) /\ written \in Seq(Bytes)
  BY ConnectionAssumption DEF TypeOK
<1>2. Prefix(writer.data, n) \in Seq(Bytes)
  BY <1>1, CutInTwo
<1>3. QED
  BY <1>1, <1>2, ConcatProperties DEF Reply

\* n bytes of the payload move into the kernel.
LEMMA SendTypeOK ==
  ASSUME TypeOK, WriterOK, writer.at # "idle",
         NEW n \in 1 .. Len(writer.data) - writer.sent, Len(kernelOut) + n <= SndBuf,
         kernelOut' = kernelOut \o Prefix(Rest(writer.data, writer.sent), n)
  PROVE  /\ kernelOut' \in Seq(Bytes) /\ Len(kernelOut') <= SndBuf
         /\ writer.sent \in Nat /\ Len(writer.data) \in Nat
         /\ writer.sent + n \in 0 .. Len(writer.data)
<1>1. /\ writer.data \in Seq(Bytes) /\ kernelOut \in Seq(Bytes)
      /\ writer.sent \in 0 .. Len(writer.data) /\ Len(writer.data) \in Nat
  BY ConnectionAssumption, LenProperties DEF TypeOK, WriterOK
<1> DEFINE r == Rest(writer.data, writer.sent)
<1>2. r \in Seq(Bytes) /\ Len(r) = Len(writer.data) - writer.sent
  BY <1>1, CutInTwo
<1>3. n \in 0 .. Len(r)
  BY <1>1, <1>2
<1> HIDE DEF r
<1>4. Prefix(r, n) \in Seq(Bytes) /\ Len(Prefix(r, n)) = n
  BY <1>2, <1>3, CutInTwo
<1>5. kernelOut' \in Seq(Bytes) /\ Len(kernelOut') = Len(kernelOut) + n
  BY <1>1, <1>4, ConcatProperties DEF r
<1>6. QED
  BY <1>1, <1>5

LEMMA InitTypeOK == Init => TypeOK /\ WriterOK
<1> SUFFICES ASSUME Init PROVE TypeOK /\ WriterOK
  OBVIOUS
<1>1. <<>> \in Seq(Bytes) /\ Len(<<>>) <= SndBuf
  BY ConnectionAssumption, EmptySeq
<1>2. QED
  BY <1>1 DEF Init, TypeOK, WaitTypeOK, WriterOK, Behind

\* wait_event() puts the caller, which suspends itself, into the map; a report
\* takes the entry out.
LEMMA NextBehind ==
  TypeOK /\ Behind /\ [Next]_vars => WaitTypeOK' /\ Behind'
<1> SUFFICES ASSUME TypeOK, Behind, [Next]_vars PROVE WaitTypeOK' /\ Behind'
  OBVIOUS
<1>1. /\ reader.at \in {"idle", "scan", "recv", "wait", "ready"}
      /\ writer.at \in {"idle", "send", "wait", "ready"}
      /\ WaitTypeOK
  BY DEF TypeOK
<1>2. /\ reader.at # "idle" =>
           \A place \in {"scan", "recv", "wait", "ready"} : [reader EXCEPT !.at = place].at = place
      /\ writer.at # "idle" =>
           \A place \in {"send", "wait", "ready"} : [writer EXCEPT !.at = place].at = place
  BY DEF TypeOK
<1>3. CASE UNCHANGED waitVars /\ (UNCHANGED reader \/ reader.at # "wait")
                              /\ (UNCHANGED writer \/ writer.at # "wait")
  BY <1>1, <1>3 DEF WaitTypeOK, Behind, waitVars
<1>4. CASE RecvAgain
  BY <1>1, <1>2, <1>4 DEF RecvAgain, WaitEvent, WaitTypeOK, Behind, writeVars
<1>5. CASE SendAgain
  BY <1>1, <1>2, <1>5 DEF SendAgain, WaitEvent, WaitTypeOK, Behind, readVars
<1>6. CASE RecvWoken
  BY <1>1, <1>6 DEF RecvWoken, Unregister, WaitTypeOK, Behind, writeVars
<1>7. CASE SendWoken
  BY <1>1, <1>7 DEF SendWoken, Unregister, WaitTypeOK, Behind, readVars
<1>8. CASE Report
  BY <1>1, <1>8 DEF Report, WaitTypeOK, Behind
<1>9. QED
  BY <1>3, <1>4, <1>5, <1>6, <1>7, <1>8
  DEF Next, vars, readVars, writeVars, Reading, Writing, PeerSend, PeerTake, PeerEnd, ReadCall,
      WriteCall, Found, NotFound, Recv, RecvEnd, AtEnd, Send, SendFrom, SendError

\* One step of the peer, the reader or the writer keeps the types.
LEMMA NextTypeOK ==
  TypeOK /\ WriterOK /\ [Next]_vars => TypeOK' /\ WriterOK'
<1> SUFFICES ASSUME TypeOK, WriterOK, [Next]_vars PROVE TypeOK' /\ WriterOK'
  OBVIOUS
<1>0. WaitTypeOK' /\ Behind'
  BY NextBehind DEF WriterOK
<1> USE <1>0 DEF readVars, writeVars
<1>1. ASSUME NEW b \in Bytes, PeerSend(b) PROVE TypeOK' /\ WriterOK'
  <2>1. arrived' \in Seq(Bytes) /\ kernelIn' \in Seq(Bytes)
    BY <1>1, AppendProperties DEF PeerSend, TypeOK
  <2>2. QED
    BY <1>1, <2>1 DEF PeerSend, TypeOK, WriterOK
<1>2. CASE PeerTake
  <2>1. /\ delivered' \in Seq(Bytes) /\ kernelOut' \in Seq(Bytes)
        /\ Len(kernelOut') = Len(kernelOut) - 1
    <3>1. delivered \in Seq(Bytes) /\ kernelOut \in Seq(Bytes) /\ kernelOut # <<>>
      BY <1>2 DEF PeerTake, TypeOK
    <3>2. QED
      BY <1>2, <3>1, AppendProperties, HeadTailProperties DEF PeerTake
  <2>2. Len(kernelOut') <= SndBuf
    <3>1. Len(kernelOut) \in Nat /\ Len(kernelOut) <= SndBuf /\ SndBuf \in Nat
      BY ConnectionAssumption, LenProperties DEF TypeOK
    <3>2. QED
      BY <2>1, <3>1
  <2>3. QED
    BY <1>2, <2>1, <2>2 DEF PeerTake, TypeOK, WriterOK
<1>3. CASE PeerEnd
  BY <1>3 DEF PeerEnd, TypeOK, WriterOK
<1>4. ASSUME NEW call \in Calls, ReadCall(call) PROVE TypeOK' /\ WriterOK'
  BY <1>4 DEF ReadCall, TypeOK, WriterOK
<1>5. ASSUME NEW k \in 0 .. Len(readBuf), Answer(k), closed' \in BOOLEAN,
             UNCHANGED <<peer, kernelIn, arrived, writeVars>>
      PROVE  TypeOK' /\ WriterOK'
  BY <1>5, AnswerTypeOK DEF TypeOK, WriterOK
<1>6. Len(readBuf) \in 0 .. Len(readBuf)
  BY LenProperties DEF TypeOK
<1>7. CASE Found
  BY <1>5, <1>7 DEF Found, TypeOK
<1>8. CASE NotFound
  <2>1. CASE closed
    BY <1>5, <1>6, <1>8, <2>1 DEF NotFound, TypeOK
  <2>2. CASE ~ closed
    BY <1>8, <2>2 DEF NotFound, TypeOK, WriterOK
  <2>3. QED
    BY <2>1, <2>2
<1>9. CASE Recv
  <2>1. readBuf' \in Seq(Bytes) /\ kernelIn' \in Seq(Bytes)
    <3>1. PICK n \in 1 .. Len(kernelIn) : /\ readBuf' = readBuf \o Prefix(kernelIn, n)
                                          /\ kernelIn' = Rest(kernelIn, n)
      BY <1>9 DEF Recv
    <3>2. kernelIn \in Seq(Bytes) /\ readBuf \in Seq(Bytes) /\ n \in 0 .. Len(kernelIn)
      BY DEF TypeOK
    <3>3. QED
      BY <3>1, <3>2, CutInTwo, ConcatProperties
  <2>2. QED
    BY <1>9, <2>1 DEF Recv, TypeOK, WriterOK
<1>10. CASE RecvEnd
  BY <1>5, <1>6, <1>10 DEF RecvEnd, AtEnd
<1>11. CASE RecvAgain
  BY <1>11 DEF RecvAgain, TypeOK, WriterOK
<1>12. CASE RecvWoken
  <2>1. CASE closed
    BY <1>5, <1>6, <1>12, <2>1 DEF RecvWoken, TypeOK
  <2>2. CASE ~ closed
    BY <1>12, <2>2 DEF RecvWoken, TypeOK, WriterOK
  <2>3. QED
    BY <2>1, <2>2
<1>13. ASSUME NEW data \in Payloads, WriteCall(data) PROVE TypeOK' /\ WriterOK'
  <2>1. 0 < Len(data)
    BY <1>13, ConnectionAssumption, EmptySeq DEF WriteCall
  <2>2. QED
    BY <1>13, <2>1 DEF WriteCall, TypeOK, WriterOK
<1>14. ASSUME NEW n \in 0 .. Len(writer.data), NEW v, writer.at # "idle", Reply(v, n),
              closed' \in BOOLEAN, kernelOut' \in Seq(Bytes), Len(kernelOut') <= SndBuf,
              UNCHANGED <<peer, readVars, delivered>>
       PROVE  TypeOK' /\ WriterOK'
  <2>1. /\ written' \in Seq(Bytes)
        /\ writer' \in [at : {"idle"}] \cup [at : {"send", "wait", "ready"}, data : Payloads, sent : Nat]
    BY <1>14, ReplyTypeOK
  <2>2. WriterOK'
    BY <1>14 DEF Reply, WriterOK
  <2>3. QED
    BY <1>14, <2>1, <2>2 DEF TypeOK
<1>15. CASE Send
  <2>1. PICK n \in 1 .. Len(writer.data) - writer.sent :
          /\ Len(kernelOut) + n <= SndBuf
          /\ kernelOut' = kernelOut \o Prefix(Rest(writer.data, writer.sent), n)
          /\ IF writer.sent + n = Len(writer.data)
               THEN UNCHANGED closed /\ Reply(writer.sent + n, writer.sent + n)
               ELSE /\ writer' = [writer EXCEPT !.sent = @ + n]
                    /\ UNCHANGED <<closed, written, reply>>
    BY <1>15 DEF Send, SendFrom
  <2>2. writer.at = "send" /\ UNCHANGED <<peer, readVars, delivered>>
    BY <1>15 DEF Send, SendFrom
  <2>3. /\ kernelOut' \in Seq(Bytes) /\ Len(kernelOut') <= SndBuf
        /\ writer.sent \in Nat /\ Len(writer.data) \in Nat
        /\ writer.sent + n \in 0 .. Len(writer.data)
    BY <2>1, <2>2, SendTypeOK
  <2>4. CASE writer.sent + n = Len(writer.data)
    BY <1>14, <2>1, <2>2, <2>3, <2>4 DEF TypeOK
  <2>5. CASE writer.sent + n # Len(writer.data)
    <3>1. /\ writer' = [writer EXCEPT !.sent = @ + n]
          /\ UNCHANGED <<closed, written, reply>>
      BY <2>1, <2>5
    <3>2. writer \in [at : {"send", "wait", "ready"}, data : Payloads, sent : Nat]
      BY <2>2 DEF TypeOK
    <3>3. /\ writer' \in [at : {"send", "wait", "ready"}, data : Payloads, sent : Nat]
          /\ writer'.sent = writer.sent + n /\ writer'.data = writer.data
      <4> DEFINE m == writer.sent + n
      <4>1. m \in Nat /\ writer' = [writer EXCEPT !.sent = m]
        BY <2>3, <3>1
      <4> HIDE DEF m
      <4>2. /\ writer' \in [at : {"send", "wait", "ready"}, data : Payloads, sent : Nat]
            /\ writer'.sent = m /\ writer'.data = writer.data
        BY <3>2, <4>1
      <4>3. QED
        BY <4>2 DEF m
    <3>4. writer'.sent < Len(writer'.data)
      BY <2>3, <2>5, <3>3
    <3>5. QED
      BY <2>2, <2>3, <3>1, <3>3, <3>4 DEF TypeOK, WriterOK
  <2>6. QED
    BY <2>4, <2>5
<1>16. CASE SendAgain
  BY <1>16 DEF SendAgain, TypeOK, WriterOK
<1>17. writer.at # "idle" => writer.sent \in 0 .. Len(writer.data)
  BY ConnectionAssumption, LenProperties DEF TypeOK, WriterOK
<1>18. CASE SendWoken
  <2>1. CASE closed
    BY <1>14, <1>17, <1>18, <2>1 DEF SendWoken, TypeOK
  <2>2. CASE ~ closed
    BY <1>18, <2>2 DEF SendWoken, TypeOK, WriterOK
  <2>3. QED
    BY <2>1, <2>2
<1>19. CASE SendError
  BY <1>14, <1>17, <1>19 DEF SendError, TypeOK
<1>20. CASE Report
  <2>1. /\ reader' \in [at : {"idle"}] \cup [at : {"scan", "recv", "wait", "ready"}, call : Calls]
        /\ UNCHANGED <<closed, peer, readBuf, kernelIn, arrived, returned, kernelOut, written,
                       delivered>>
    BY <1>20 DEF Report, TypeOK, WriterOK, Behind
  <2>2. /\ writer' \in [at : {"idle"}] \cup [at : {"send", "wait", "ready"}, data : Payloads, sent : Nat]
        /\ writer'.at # "idle" => writer'.sent < Len(writer'.data)
    BY <1>20 DEF Report, TypeOK, WriterOK, Behind
  <2>3. QED
    BY <2>1, <2>2 DEF TypeOK, WriterOK
<1>21. CASE UNCHANGED vars
  BY <1>21 DEF vars, TypeOK, WriterOK
<1>22. QED
  BY <1>1, <1>2, <1>3, <1>4, <1>7, <1>8, <1>9, <1>10, <1>11, <1>12, <1>13, <1>15, <1>16,
     <1>18, <1>19, <1>20, <1>21 DEF Next, Reading, Writing

\* Type correctness, and the place of write() in its payload.
THEOREM TypeCorrect == Spec => [](TypeOK /\ WriterOK)
<1>1. QED
  BY InitTypeOK, NextTypeOK, PTL DEF Spec

-----------------------------------------------------------------------------
(* The reading side.                                                       *)

\* The end of a read call moves bytes from the buffer to the caller.
LEMMA AnswerIntact ==
  ASSUME TypeOK, StreamIntact, NEW k \in 0 .. Len(readBuf), Answer(k),
         UNCHANGED <<kernelIn, arrived>>
  PROVE  StreamIntact'
<1>1. /\ readBuf \in Seq(Bytes) /\ returned \in Seq(Bytes) /\ kernelIn \in Seq(Bytes)
      /\ Prefix(readBuf, k) \in Seq(Bytes) /\ Rest(readBuf, k) \in Seq(Bytes)
      /\ Prefix(readBuf, k) \o Rest(readBuf, k) = readBuf
  BY CutInTwo DEF TypeOK
<1> DEFINE p == Prefix(readBuf, k)
           r == Rest(readBuf, k)
<1>2. returned' = returned \o p /\ readBuf' = r /\ p \o r = readBuf
  BY <1>1 DEF Answer
<1>3. p \in Seq(Bytes) /\ r \in Seq(Bytes)
  BY <1>1
<1> HIDE DEF p, r
<1>4. (returned \o p) \o r = returned \o (p \o r)
  BY <1>1, <1>3, Associative
<1>5. QED
  BY <1>2, <1>4, Zenon DEF StreamIntact

\* recv() moves bytes from the kernel to the end of the buffer.
LEMMA RecvIntact ==
  ASSUME TypeOK, StreamIntact, NEW n \in 0 .. Len(kernelIn),
         readBuf' = readBuf \o Prefix(kernelIn, n), kernelIn' = Rest(kernelIn, n),
         UNCHANGED <<returned, arrived>>
  PROVE  StreamIntact'
<1>1. /\ readBuf \in Seq(Bytes) /\ returned \in Seq(Bytes) /\ kernelIn \in Seq(Bytes)
      /\ Prefix(kernelIn, n) \in Seq(Bytes) /\ Rest(kernelIn, n) \in Seq(Bytes)
      /\ Prefix(kernelIn, n) \o Rest(kernelIn, n) = kernelIn
  BY CutInTwo DEF TypeOK
<1> DEFINE p == Prefix(kernelIn, n)
           r == Rest(kernelIn, n)
<1>2. /\ readBuf' = readBuf \o p /\ kernelIn' = r /\ p \o r = kernelIn
      /\ p \in Seq(Bytes) /\ r \in Seq(Bytes)
  BY <1>1
<1> HIDE DEF p, r
<1>3. returned \o (readBuf \o p) = (returned \o readBuf) \o p
  <2>1. (returned \o readBuf) \o p = returned \o (readBuf \o p)
    <3>1. returned \in Seq(Bytes) /\ readBuf \in Seq(Bytes) /\ p \in Seq(Bytes)
      BY <1>1, <1>2
    <3>2. QED
      BY <3>1, Associative, Zenon
  <2>2. QED
    BY <2>1, Zenon
<1>4. returned \o readBuf \in Seq(Bytes)
  BY <1>1, ConcatProperties
<1>5. ((returned \o readBuf) \o p) \o r = (returned \o readBuf) \o (p \o r)
  BY <1>2, <1>4, Associative
<1>6. QED
  BY <1>2, <1>3, <1>5, Zenon DEF StreamIntact

\* A step changes StreamIntact in one of these ways only.
LEMMA NextIntact == TypeOK /\ StreamIntact /\ [Next]_vars => StreamIntact'
<1> SUFFICES ASSUME TypeOK, StreamIntact, [Next]_vars PROVE StreamIntact'
  OBVIOUS
<1> USE DEF readVars, writeVars
<1>1. ASSUME NEW b \in Bytes, PeerSend(b) PROVE StreamIntact'
  <2>1. /\ readBuf \in Seq(Bytes) /\ returned \in Seq(Bytes) /\ kernelIn \in Seq(Bytes)
        /\ arrived \in Seq(Bytes) /\ <<b>> \in Seq(Bytes)
    BY DEF TypeOK
  <2>2. kernelIn' = kernelIn \o <<b>> /\ arrived' = arrived \o <<b>>
    BY <1>1, <2>1, AppendIsConcat DEF PeerSend
  <2>3. returned \o readBuf \in Seq(Bytes)
    BY <2>1, ConcatProperties
  <2>4. (returned \o readBuf) \o (kernelIn \o <<b>>) = ((returned \o readBuf) \o kernelIn) \o <<b>>
    BY <2>1, <2>3, ConcatAssociative
  <2>5. UNCHANGED <<readBuf, returned>>
    BY <1>1 DEF PeerSend
  <2>6. QED
    BY <2>2, <2>4, <2>5 DEF StreamIntact
<1>2. Len(readBuf) \in 0 .. Len(readBuf)
  BY LenProperties DEF TypeOK
<1>3. CASE Found
  BY <1>3, AnswerIntact DEF Found
<1>4. CASE NotFound
  BY <1>2, <1>4, AnswerIntact DEF NotFound, StreamIntact
<1>5. CASE Recv
  <2>1. PICK n \in 1 .. Len(kernelIn) : /\ readBuf' = readBuf \o Prefix(kernelIn, n)
                                        /\ kernelIn' = Rest(kernelIn, n)
    BY <1>5 DEF Recv
  <2>2. UNCHANGED <<returned, arrived>>
    BY <1>5 DEF Recv
  <2>3. QED
    BY <2>1, <2>2, RecvIntact
<1>6. CASE RecvEnd
  BY <1>2, <1>6, AnswerIntact DEF RecvEnd, AtEnd
<1>7. CASE RecvWoken
  BY <1>2, <1>7, AnswerIntact DEF RecvWoken, StreamIntact
<1>8. CASE UNCHANGED <<readBuf, returned, kernelIn, arrived>>
  BY <1>8 DEF StreamIntact
<1>9. \/ \E b \in Bytes : PeerSend(b)
      \/ Found \/ NotFound \/ Recv \/ RecvEnd \/ RecvWoken
      \/ UNCHANGED <<readBuf, returned, kernelIn, arrived>>
  BY DEF Next, vars, Reading, Writing, PeerTake, PeerEnd, ReadCall, RecvAgain, WriteCall,
         Send, SendFrom, SendAgain, SendWoken, SendError, Report
<1>10. QED
  BY <1>1, <1>3, <1>4, <1>5, <1>6, <1>7, <1>8, <1>9

\* No byte of the stream is lost, repeated or reordered.
THEOREM StreamIntactAlways == Spec => []StreamIntact
<1>1. Init => StreamIntact
  <2>1. SUFFICES ASSUME Init PROVE StreamIntact
    OBVIOUS
  <2>2. <<>> \in Seq(Bytes)
    OBVIOUS
  <2>3. (<<>> \o <<>>) \o <<>> = <<>>
    BY <2>2, ConcatEmptySeq
  <2>4. QED
    BY <2>1, <2>3 DEF Init, StreamIntact
<1>2. QED
  BY <1>1, NextIntact, TypeCorrect, PTL DEF Spec

-----------------------------------------------------------------------------
(* What the calls return.                                                  *)

\* Past the scan, the buffer does not answer the call: read_buf_ does not
\* change before the next chunk is appended to it.
NotEnough ==
  reader.at \in {"recv", "wait", "ready"} => ~ Enough(readBuf, reader.call)

\* A call that the buffer answers.
LEMMA FoundExact ==
  ASSUME TypeOK, reader.at = "scan",
         NEW k \in 0 .. Len(readBuf), Cut(k, readBuf, reader.call), Answer(k)
  PROVE  UntilFirst' /\ ExactSize' /\ NotEnough'
<1>1. reader.call \in Calls /\ readBuf \in Seq(Bytes)
  BY DEF TypeOK
<1>2. last'.call = reader.call /\ last'.got = Prefix(readBuf, k) /\ Len(last'.got) = k
  BY <1>1, CutInTwo DEF Answer
<1>3. CASE reader.call.op = "until"
  <2>1. k \in DelimEnds(readBuf) /\ \A m \in DelimEnds(readBuf) : k <= m
    BY <1>3 DEF Cut
  <2>2. DelimEnds(readBuf) \subseteq Int
    BY <1>1, LenProperties, ConnectionAssumption DEF DelimEnds
  <2>3. {j \in DelimEnds(readBuf) : j <= k} = {k}
    BY <2>1, <2>2
  <2>4. DelimEnds(last'.got) = {k}
    BY <1>1, <1>2, <2>3, PrefixOfPrefix
  <2>5. QED
    BY <1>2, <1>3, <2>4 DEF UntilFirst, ExactSize, NotEnough, Answer
<1>4. CASE reader.call.op = "exact"
  <2>1. k = reader.call.n
    BY <1>4 DEF Cut
  <2>2. QED
    BY <1>2, <1>4, <2>1 DEF UntilFirst, ExactSize, NotEnough, Answer
<1>5. QED
  BY <1>1, <1>3, <1>4 DEF Calls, Until, Exactly

\* A call that ends for want of bytes, on a closed connection.
LEMMA ShortAnswer ==
  ASSUME TypeOK, reader.at # "idle", ~ Enough(readBuf, reader.call), Answer(Len(readBuf)),
         closed'
  PROVE  UntilFirst' /\ ExactSize' /\ NotEnough'
<1>1. reader.call \in Calls /\ readBuf \in Seq(Bytes) /\ Len(readBuf) \in Nat
  BY LenProperties DEF TypeOK
<1>2. last'.call = reader.call /\ last'.got = readBuf /\ last'.closed = closed'
  BY <1>1, SubSeqFull DEF Answer, Prefix
<1>3. CASE reader.call.op = "until"
  <2>1. DelimEnds(readBuf) = {}
    BY <1>3 DEF Enough
  <2>2. QED
    BY <1>2, <1>3, <2>1 DEF UntilFirst, ExactSize, NotEnough, Answer
<1>4. CASE reader.call.op = "exact"
  <2>1. ~ (Len(readBuf) >= reader.call.n)
    BY <1>4 DEF Enough
  <2>2. reader.call.n \in Nat
    BY <1>1, <1>4, ConnectionAssumption DEF Calls, Until, Exactly
  <2>3. Len(readBuf) < reader.call.n
    BY <1>1, <2>1, <2>2
  <2>4. QED
    BY <1>2, <1>4, <2>3 DEF UntilFirst, ExactSize, NotEnough, Answer
<1>5. QED
  BY <1>1, <1>3, <1>4 DEF Calls, Until, Exactly

ReadsOK == UntilFirst /\ ExactSize /\ NotEnough

LEMMA NextReadsOK == TypeOK /\ WriterOK /\ ReadsOK /\ [Next]_vars => ReadsOK'
<1> SUFFICES ASSUME TypeOK, WriterOK, ReadsOK, [Next]_vars PROVE ReadsOK'
  OBVIOUS
<1> USE DEF readVars, writeVars
<1>1. ASSUME UNCHANGED last, NotEnough' PROVE ReadsOK'
  BY <1>1 DEF ReadsOK, UntilFirst, ExactSize
<1>2. CASE UNCHANGED <<last, reader, readBuf>>
  BY <1>1, <1>2 DEF ReadsOK, NotEnough
<1>3. ASSUME NEW call \in Calls, ReadCall(call) PROVE ReadsOK'
  BY <1>1, <1>3 DEF ReadCall, NotEnough
<1>4. CASE Found
  BY <1>4, FoundExact DEF Found, ReadsOK
<1>5. CASE NotFound
  <2>1. CASE closed
    BY <1>5, <2>1, ShortAnswer DEF NotFound, ReadsOK
  <2>2. CASE ~ closed
    <3>1. /\ ~ Enough(readBuf, reader.call)
          /\ UNCHANGED <<readBuf, last>> /\ reader' = [reader EXCEPT !.at = "recv"]
      BY <1>5, <2>2 DEF NotFound
    <3>2. reader \in [at : {"scan", "recv", "wait", "ready"}, call : Calls]
      BY <1>5 DEF NotFound, TypeOK
    <3>3. reader'.call = reader.call
      BY <3>1, <3>2
    <3>4. QED
      BY <1>1, <3>1, <3>3 DEF NotEnough
  <2>3. QED
    BY <2>1, <2>2
<1>6. CASE Recv
  <2>1. reader'.at = "scan" /\ UNCHANGED last
    BY <1>6 DEF Recv, TypeOK
  <2>2. QED
    BY <1>1, <2>1 DEF NotEnough
<1>7. CASE RecvEnd
  BY <1>7, ShortAnswer DEF RecvEnd, AtEnd, ReadsOK, NotEnough
<1>8. ASSUME reader.at \in {"recv", "wait", "ready"}, NEW place \in {"recv", "wait", "ready"},
             reader' = [reader EXCEPT !.at = place], UNCHANGED <<readBuf, last>>
      PROVE  ReadsOK'
  <2>1. reader \in [at : {"scan", "recv", "wait", "ready"}, call : Calls]
    BY <1>8 DEF TypeOK
  <2>2. reader'.call = reader.call
    BY <1>8, <2>1
  <2>3. QED
    BY <1>1, <1>8, <2>2 DEF ReadsOK, NotEnough
<1>9. CASE RecvAgain
  BY <1>8, <1>9 DEF RecvAgain
<1>10. CASE RecvWoken
  <2>1. CASE closed
    BY <1>10, <2>1, ShortAnswer DEF RecvWoken, ReadsOK, NotEnough
  <2>2. CASE ~ closed
    BY <1>8, <1>10, <2>2 DEF RecvWoken
  <2>3. QED
    BY <2>1, <2>2
<1>11. CASE Report
  BY <1>2, <1>8, <1>11 DEF Report, WriterOK, Behind
<1>12. \/ \E call \in Calls : ReadCall(call)
       \/ Found \/ NotFound \/ Recv \/ RecvEnd \/ RecvAgain \/ RecvWoken \/ Report
       \/ UNCHANGED <<last, reader, readBuf>>
  BY DEF Next, vars, Reading, Writing, PeerSend, PeerTake, PeerEnd, WriteCall,
         Send, SendFrom, SendAgain, SendWoken, SendError
<1>13. QED
  BY <1>2, <1>3, <1>4, <1>5, <1>6, <1>7, <1>9, <1>10, <1>11, <1>12

LEMMA ReadsCorrect == Spec => []ReadsOK
<1>1. Init => ReadsOK
  BY DEF Init, ReadsOK, UntilFirst, ExactSize, NotEnough, NoCall
<1>2. QED
  BY <1>1, NextReadsOK, TypeCorrect, PTL DEF Spec

\* Every read call gets what it asked for: read_until stops at the first
\* delimiter and read_exact returns its number of bytes, or the connection has
\* ended.
THEOREM CallsHonouredAlways == Spec => []CallsHonoured
<1>1. ReadsOK => CallsHonoured
  BY DEF ReadsOK, CallsHonoured
<1>2. QED
  BY <1>1, ReadsCorrect, PTL

-----------------------------------------------------------------------------
(* The writing side.                                                       *)

LEMMA SentType ==
  ASSUME TypeOK, WriterOK, writer.at # "idle"
  PROVE  /\ writer.data \in Seq(Bytes) /\ writer.sent \in 0 .. Len(writer.data)
         /\ Len(writer.data) \in Nat
         /\ Sent = Prefix(writer.data, writer.sent) /\ Sent \in Seq(Bytes)
<1>1. /\ writer.data \in Seq(Bytes) /\ writer.sent \in 0 .. Len(writer.data)
      /\ Len(writer.data) \in Nat
  BY ConnectionAssumption, LenProperties DEF TypeOK, WriterOK
<1>2. Sent = Prefix(writer.data, writer.sent)
  BY DEF Sent
<1>3. QED
  BY <1>1, <1>2, CutInTwo

\* A write that ends hands its sent prefix over to the history.
LEMMA ReplyIntact ==
  ASSUME TypeOK, WriterOK, InOrder, writer.at # "idle", NEW v, Reply(v, writer.sent),
         UNCHANGED <<kernelOut, delivered>>
  PROVE  InOrder'
<1>1. Sent = Prefix(writer.data, writer.sent)
  BY SentType
<1>2. written' = written \o Sent /\ written' \in Seq(Bytes)
  BY <1>1, SentType, ConcatProperties DEF Reply, TypeOK
<1>3. Sent' = <<>>
  BY DEF Reply, Sent
<1>4. written' \o Sent' = written'
  BY <1>2, <1>3, ConcatEmptySeq
<1>5. QED
  BY <1>2, <1>4 DEF InOrder

\* send() takes the next n bytes.
LEMMA SendIntact ==
  ASSUME TypeOK, WriterOK, InOrder, writer.at # "idle",
         NEW n \in 1 .. Len(writer.data) - writer.sent,
         kernelOut' = kernelOut \o Prefix(Rest(writer.data, writer.sent), n),
         UNCHANGED delivered
  PROVE  delivered' \o kernelOut' = written \o Prefix(writer.data, writer.sent + n)
<1> DEFINE r == Rest(writer.data, writer.sent)
           b == Prefix(r, n)
<1>1. /\ writer.data \in Seq(Bytes) /\ writer.sent \in 0 .. Len(writer.data)
      /\ Len(writer.data) \in Nat /\ Sent \in Seq(Bytes)
      /\ Sent = Prefix(writer.data, writer.sent)
  BY SentType
<1>2. r \in Seq(Bytes) /\ Len(r) = Len(writer.data) - writer.sent
  BY <1>1, CutInTwo
<1>3. b \in Seq(Bytes)
  <2> HIDE DEF r
  <2>1. n \in 0 .. Len(r)
    BY <1>1, <1>2
  <2>2. QED
    BY <1>2, <2>1, CutInTwo
<1>4. Sent \o b = Prefix(writer.data, writer.sent + n)
  BY <1>1, LongerPrefix
<1>5. delivered \in Seq(Bytes) /\ kernelOut \in Seq(Bytes) /\ written \in Seq(Bytes)
  BY DEF TypeOK
<1> HIDE DEF b
<1>6. (delivered \o kernelOut) \o b = delivered \o (kernelOut \o b)
  BY <1>3, <1>5, Associative, Zenon
<1>7. (written \o Sent) \o b = written \o (Sent \o b)
  BY <1>1, <1>3, <1>5, Associative, Zenon
<1>8. delivered' \o kernelOut' = delivered \o (kernelOut \o b)
  BY DEF b
<1>9. QED
  BY <1>4, <1>6, <1>7, <1>8, Zenon DEF InOrder

LEMMA NextInOrder == TypeOK /\ WriterOK /\ InOrder /\ [Next]_vars => InOrder'
<1> SUFFICES ASSUME TypeOK, WriterOK, InOrder, [Next]_vars PROVE InOrder'
  OBVIOUS
<1> USE DEF readVars, writeVars
<1>1. CASE PeerTake
  <2>1. /\ delivered \in Seq(Bytes) /\ kernelOut \in Seq(Bytes) /\ kernelOut # <<>>
        /\ delivered' = Append(delivered, Head(kernelOut)) /\ kernelOut' = Tail(kernelOut)
    BY <1>1 DEF PeerTake, TypeOK
  <2> DEFINE h == <<Head(kernelOut)>>
  <2>2. /\ h \in Seq(Bytes) /\ Tail(kernelOut) \in Seq(Bytes)
        /\ h \o Tail(kernelOut) = kernelOut
    <3>1. Len(kernelOut) \in Nat \ {0} /\ Head(kernelOut) \in Bytes
      BY <2>1, EmptySeq, HeadTailProperties
    <3>2. 1 \in 1 .. Len(kernelOut) /\ Len(kernelOut) \in 1 .. Len(kernelOut)
      BY <3>1
    <3>3. SubSeq(kernelOut, 1, Len(kernelOut))
            = <<kernelOut[1]>> \o SubSeq(kernelOut, 1 + 1, Len(kernelOut))
      BY <2>1, <3>2, SubSeqRecursiveFirst
    <3>4. /\ SubSeq(kernelOut, 1, Len(kernelOut)) = kernelOut
          /\ Tail(kernelOut) = SubSeq(kernelOut, 2, Len(kernelOut))
          /\ Head(kernelOut) = kernelOut[1]
      BY <2>1, SubSeqFull, TailIsSubSeq
    <3>5. QED
      BY <2>1, <3>1, <3>3, <3>4, HeadTailProperties
  <2>3. delivered' = delivered \o h
    BY <2>1, <2>2, AppendIsConcat, HeadTailProperties
  <2> HIDE DEF h
  <2>4. (delivered \o h) \o Tail(kernelOut) = delivered \o (h \o Tail(kernelOut))
    BY <2>1, <2>2, Associative, Zenon
  <2>5. delivered' \o kernelOut' = delivered \o kernelOut
    BY <2>1, <2>2, <2>3, <2>4, Zenon
  <2>6. UNCHANGED <<written, Sent>>
    BY <1>1 DEF PeerTake, Sent
  <2>7. QED
    BY <2>5, <2>6 DEF InOrder
<1>2. ASSUME NEW data \in Payloads, WriteCall(data) PROVE InOrder'
  <2>1. Sent = <<>> /\ writer' = [at |-> "send", data |-> data, sent |-> 0]
    BY <1>2 DEF WriteCall, Sent
  <2>2. Sent' = <<>>
    BY <2>1, SubSeqEmpty DEF Sent, Prefix
  <2>3. QED
    BY <1>2, <2>1, <2>2 DEF WriteCall, InOrder
<1>3. CASE Send
  <2>1. PICK n \in 1 .. Len(writer.data) - writer.sent :
          /\ kernelOut' = kernelOut \o Prefix(Rest(writer.data, writer.sent), n)
          /\ IF writer.sent + n = Len(writer.data)
               THEN UNCHANGED closed /\ Reply(writer.sent + n, writer.sent + n)
               ELSE /\ writer' = [writer EXCEPT !.sent = @ + n]
                    /\ UNCHANGED <<closed, written, reply>>
    BY <1>3 DEF Send, SendFrom
  <2>2. writer.at = "send" /\ UNCHANGED delivered
    BY <1>3 DEF Send, SendFrom
  <2>3. delivered' \o kernelOut' = written \o Prefix(writer.data, writer.sent + n)
    BY <2>1, <2>2, SendIntact
  <2>4. CASE writer.sent + n = Len(writer.data)
    <3>1. written' = written \o Prefix(writer.data, writer.sent + n) /\ Sent' = <<>>
      BY <2>1, <2>4 DEF Reply, Sent
    <3>2. written' \in Seq(Bytes)
      BY NextTypeOK DEF TypeOK
    <3>3. written' \o Sent' = written'
      BY <3>1, <3>2, ConcatEmptySeq
    <3>4. QED
      BY <2>3, <3>1, <3>3 DEF InOrder
  <2>5. CASE writer.sent + n # Len(writer.data)
    <3>1. writer' = [writer EXCEPT !.sent = writer.sent + n] /\ UNCHANGED written
      BY <2>1, <2>5
    <3>2. writer \in [at : {"send", "wait", "ready"}, data : Payloads, sent : Nat]
      BY <2>2 DEF TypeOK
    <3>3. Sent' = Prefix(writer.data, writer.sent + n)
      BY <2>2, <3>1, <3>2 DEF Sent
    <3>4. QED
      BY <2>3, <3>1, <3>3 DEF InOrder
  <2>6. QED
    BY <2>4, <2>5
<1>4. CASE SendError
  BY <1>4, ReplyIntact DEF SendError
<1>5. CASE SendWoken /\ closed
  BY <1>5, ReplyIntact DEF SendWoken
<1>6. ASSUME NEW place \in {"send", "wait", "ready"}, writer.at # "idle",
             writer' = [writer EXCEPT !.at = place],
             UNCHANGED <<kernelOut, delivered, written>>
      PROVE  InOrder'
  <2>1. writer \in [at : {"send", "wait", "ready"}, data : Payloads, sent : Nat]
    BY <1>6 DEF TypeOK
  <2>2. Sent' = Sent
    BY <1>6, <2>1 DEF Sent
  <2>3. QED
    BY <1>6, <2>2 DEF InOrder
<1>7. CASE SendAgain
  BY <1>6, <1>7 DEF SendAgain
<1>8. CASE SendWoken /\ ~ closed
  BY <1>6, <1>8 DEF SendWoken
<1>9. CASE UNCHANGED writeVars
  BY <1>9 DEF InOrder, Sent
<1>10. CASE Report
  <2>1. CASE entry = "writer"
    BY <1>6, <1>10, <2>1 DEF Report, WriterOK, Behind
  <2>2. CASE entry # "writer"
    BY <1>9, <1>10, <2>2 DEF Report
  <2>3. QED
    BY <2>1, <2>2
<1>11. \/ PeerTake \/ \E data \in Payloads : WriteCall(data)
       \/ Send \/ SendError \/ SendWoken \/ SendAgain \/ Report
       \/ UNCHANGED writeVars
  BY DEF Next, vars, Reading, Writing, PeerSend, PeerEnd, ReadCall, Found, NotFound, Recv,
         RecvEnd, AtEnd, RecvAgain, RecvWoken
<1>12. QED
  BY <1>1, <1>2, <1>3, <1>4, <1>5, <1>7, <1>8, <1>9, <1>10, <1>11

\* write() says when it could not send everything.
LEMMA NextAllWritten == AllWritten /\ [Next]_vars => AllWritten'
<1> SUFFICES ASSUME AllWritten, [Next]_vars PROVE AllWritten'
  OBVIOUS
<1>1. CASE Send
  <2>1. PICK n \in 1 .. Len(writer.data) - writer.sent :
          IF writer.sent + n = Len(writer.data)
            THEN Reply(writer.sent + n, writer.sent + n)
            ELSE UNCHANGED reply
    BY <1>1 DEF Send, SendFrom
  <2>2. QED
    BY <2>1 DEF Reply, AllWritten
<1>2. CASE SendWoken
  BY <1>2 DEF SendWoken, Reply, AllWritten
<1>3. CASE SendError
  BY <1>3 DEF SendError, Reply, AllWritten
<1>4. Send \/ SendWoken \/ SendError \/ UNCHANGED reply
  BY DEF Next, vars, readVars, writeVars, Reading, Writing, PeerSend, PeerTake, PeerEnd,
         ReadCall, WriteCall, Found, NotFound, Recv, RecvEnd, RecvAgain, RecvWoken, SendAgain, Report
<1>5. CASE UNCHANGED reply
  BY <1>5 DEF AllWritten
<1>6. QED
  BY <1>1, <1>2, <1>3, <1>4, <1>5

\* What the peer gets is what was written, in order, and write() says when that
\* was not all.
THEOREM WireIntactAlways == Spec => []WireIntact
<1>1. Init => InOrder /\ AllWritten
  BY DEF Init, InOrder, Sent, AllWritten
<1>2. QED
  BY <1>1, NextInOrder, NextAllWritten, TypeCorrect, PTL DEF Spec, WireIntact
=============================================================================
