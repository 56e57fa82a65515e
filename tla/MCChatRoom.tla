----------------------------- MODULE MCChatRoom -----------------------------
(* ChatRoom on small instances.                                            *)
EXTENDS ChatRoom

CONSTANTS k1, k2, k3, t1, t2

\* Two clients share a thread; all do; none do.
MCHome == [k \in {k1, k2, k3} |-> IF k = k3 THEN t2 ELSE t1]
OneHome == [k \in {k1, k2} |-> t1]
TwoHomes == [k \in {k1, k2} |-> IF k = k1 THEN t1 ELSE t2]

Script(s1, s2, s3) ==
  [k \in {k1, k2, k3} |-> CASE k = k1 -> s1 [] k = k2 -> s2 [] k = k3 -> s3]

\* One client hangs up while another one talks; or one pings and says goodbye.
Talk == {Script(<<"eof">>, <<"text">>, <<>>), Script(<<>>, <<"ping", "close">>, <<"other">>)}

\* The clients join, and the first says something, or nothing.
OneText == {[k \in {k1, k2} |-> IF k = k1 THEN <<"text">> ELSE <<>>]}
Silence == {[k \in {k1, k2} |-> <<>>]}
=============================================================================
