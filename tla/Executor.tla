------------------------------ MODULE Executor ------------------------------
(***************************************************************************)
(* What a Scheduler promises to its clients, without its pipe, its epoll   *)
(* instance, its heap or its clock.  Tasks are submitted from outside into *)
(* an inbox, admitted in the order of submission into a line, and run one  *)
(* at a time, first come first served, until each gives the thread up by   *)
(* pausing, blocking or finishing.                                         *)
(***************************************************************************)
EXTENDS Sequences, Functions

CONSTANTS Tasks, None

VARIABLES
  inbox,    \* submitted from outside, not yet admitted
  line,     \* runnable, in the order in which they will run
  cur,      \* the task that has the thread
  blocked,  \* waiting for a descriptor or a timer
  done      \* finished

vars == <<inbox, line, cur, blocked, done>>

Init ==
  /\ inbox = <<>>
  /\ line \in {<<>>} \cup {<<t>> : t \in Tasks}
  /\ cur = None
  /\ blocked = {}
  /\ done = {}

Known(t) ==
  t \in Range(inbox) \cup Range(line) \cup {cur} \cup blocked \cup done

Submit(t) ==
  /\ ~ Known(t)
  /\ inbox' = Append(inbox, t)
  /\ UNCHANGED <<line, cur, blocked, done>>

Admit ==
  /\ inbox # <<>>
  /\ line' = line \o inbox
  /\ inbox' = <<>>
  /\ UNCHANGED <<cur, blocked, done>>

Start ==
  /\ cur = None
  /\ line # <<>>
  /\ cur' = Head(line)
  /\ line' = Tail(line)
  /\ UNCHANGED <<inbox, blocked, done>>

\* The running task creates another one.
Fork(t) ==
  /\ cur # None
  /\ ~ Known(t)
  /\ line' = Append(line, t)
  /\ UNCHANGED <<inbox, cur, blocked, done>>

Pause ==
  /\ cur # None
  /\ line' = Append(line, cur)
  /\ cur' = None
  /\ UNCHANGED <<inbox, blocked, done>>

Block ==
  /\ cur # None
  /\ blocked' = blocked \cup {cur}
  /\ cur' = None
  /\ UNCHANGED <<inbox, line, done>>

Unblock(t) ==
  /\ t \in blocked
  /\ blocked' = blocked \ {t}
  /\ line' = Append(line, t)
  /\ UNCHANGED <<inbox, cur, done>>

End ==
  /\ cur # None
  /\ done' = done \cup {cur}
  /\ cur' = None
  /\ UNCHANGED <<inbox, line, blocked>>

\* The executor ends: what is runnable is discarded, and so is what is blocked,
\* except for tasks that the executor has lost track of.
Shutdown ==
  /\ cur = None
  /\ inbox' = <<>>
  /\ line' = <<>>
  /\ blocked' \in SUBSET blocked
  /\ done' = done \cup Range(line) \cup (blocked \ blocked')
  /\ UNCHANGED cur

Next ==
  \/ \E t \in Tasks : Submit(t) \/ Fork(t) \/ Unblock(t)
  \/ Admit \/ Start \/ Pause \/ Block \/ End \/ Shutdown

Spec == Init /\ [][Next]_vars
=============================================================================
