--------------------------- MODULE MCConnection ---------------------------
(* Connection on a small instance.                                         *)
EXTENDS Connection

\* A delimiter that overlaps with itself, as "\r\n\r\n" does.
MCDelim == <<"n", "n">>
MCPayloads == {<<"n">>, <<"r", "n", "n">>}
=============================================================================
