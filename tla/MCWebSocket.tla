----------------------------- MODULE MCWebSocket -----------------------------
(* WebSocket with bytes of three bits: 7-bit lengths are 0 and 1, two bytes   *)
(* hold up to 63, and the limit is 66.                                        *)
EXTENDS WebSocket, Bitwise

MCBitXor(a, b) == a ^^ b

Mask == <<5, 1, 6, 3>>
Bytes(n) == [i \in 1 .. n |-> i % Base]
F(op, n, form, mask) ==
  [fin |-> TRUE, op |-> op, payload |-> Bytes(n), form |-> form, key |-> mask]

\* Lengths on both sides of every boundary, in the shortest form and in longer ones.
Sizes == {<<0, "7">>, <<1, "7">>, <<1, "16">>, <<2, "16">>, <<63, "16">>, <<62, "64">>,
          <<64, "64">>, <<66, "64">>, <<67, "64">>}

First == {F(TextOp, s[1], s[2], Mask) : s \in Sizes}
         \cup {F(TextOp, 5, "16", None), F(PingOp, 1, "7", Mask), F(CloseOp, 0, "7", Mask),
               [F(0, 1, "7", Mask) EXCEPT !.fin = FALSE]}
Talk(f) == <<f, F(TextOp, 5, "16", Mask)>>

MCClients ==
  {[key |-> <<" ", "k", " ", "\r">>, script |-> Talk(f)] : f \in First}
  \cup {[key |-> k, script |-> Talk(F(TextOp, 1, "7", Mask))] : k \in {None, <<" ">>, <<"k">>}}

MCGreeting == <<7>>
MCPrefix == <<0>>
=============================================================================
