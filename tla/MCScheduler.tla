---------------------------- MODULE MCScheduler ----------------------------
(* Scheduler on a small instance: coroutines that share a connection.      *)
EXTENDS Scheduler

CONSTANTS c1, c2, f1, f2

\* Two coroutines use the connection f1, one of them another one as well.
SharedAccess == [c \in {c1, c2} |-> IF c = c1 THEN {f1} ELSE {f1, f2}]
=============================================================================
