----------------------------- MODULE MCChannel -----------------------------
(* Channel on a small instance.                                            *)
EXTENDS Channel

CONSTANTS a, b, c, ab, bc

\* A pipeline: a sends to b, b to c.
LineSenders == [ch \in {ab, bc} |-> IF ch = ab THEN {a} ELSE {b}]
LineReceivers == [ch \in {ab, bc} |-> IF ch = ab THEN {b} ELSE {c}]

ASSUME SingleEnds
=============================================================================
