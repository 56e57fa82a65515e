--------------------------- MODULE MultiScheduler ---------------------------
(***************************************************************************)
(* MultiScheduler of core/coroutine.{h,cpp}: N schedulers, and a post()    *)
(* that deals tasks out to them in turn.  Any thread may call post(); the  *)
(* turn is an atomic<int> that wraps around, and the remainder is the one  *)
(* of C++, which has the sign of the dividend.                             *)
(***************************************************************************)
EXTENDS Integers, FiniteSets

CONSTANTS
  N,         \* schedulers_.size()
  Callers,   \* threads that call MultiScheduler::post
  NoIdx,     \* a caller that is outside post() has no index
  MaxInt,    \* the largest int (2^31 - 1)
  MaxPosts   \* bound: rr_index_ goes no further

ASSUME MultiSchedulerAssumption ==
  /\ N \in Nat \ {0}
  /\ NoIdx \notin Int
  /\ IsFiniteSet(Callers)
  /\ MaxInt \in Nat
  /\ MaxPosts \in Nat

VARIABLES
  rrIndex,  \* rr_index_
  idx,      \* per caller: the local idx
  dealt,    \* per scheduler: how often its index was computed
  inbox     \* per scheduler: how many tasks were handed to Scheduler::post

vars == <<rrIndex, idx, dealt, inbox>>

Ids == 0 .. N - 1

TypeOK ==
  /\ rrIndex \in -MaxInt - 1 .. MaxInt
  /\ idx \in [Callers -> 1 - N .. N - 1 \cup {NoIdx}]
  /\ dealt \in [Ids -> Nat]
  /\ inbox \in [Ids -> Nat]

Init ==
  /\ rrIndex = 0
  /\ idx = [p \in Callers |-> NoIdx]
  /\ dealt = [i \in Ids |-> 0]
  /\ inbox = [i \in Ids |-> 0]

\* int arithmetic: % truncates towards zero, an atomic increment wraps.
Rem(a, b) == IF a >= 0 THEN a % b ELSE -((-a) % b)
Inc(a) == IF a = MaxInt THEN -MaxInt - 1 ELSE a + 1

AddOne(f, i) == [j \in Ids |-> IF j = i THEN f[j] + 1 ELSE f[j]]

\* Mutant of Deal: the increment is a load and a store, so that one made by
\* another caller in between is lost.
DealRacy(p) ==
  /\ idx[p] = NoIdx
  /\ rrIndex < MaxPosts
  /\ rrIndex' \in {Inc(rrIndex)} \cup {rrIndex : q \in {r \in Callers : idx[r] # NoIdx}}
  /\ idx' = [idx EXCEPT ![p] = Rem(rrIndex, N)]
  /\ dealt' = AddOne(dealt, Rem(rrIndex, N))
  /\ UNCHANGED inbox

\* fetch_add takes the turn and moves it on in one step.
Deal(p) ==
  /\ idx[p] = NoIdx
  /\ rrIndex < MaxPosts
  /\ rrIndex' = Inc(rrIndex)
  /\ idx' = [idx EXCEPT ![p] = Rem(rrIndex, N)]
  /\ dealt' = AddOne(dealt, Rem(rrIndex, N))
  /\ UNCHANGED inbox

\* Mutant of Forward: the shared turn is read a second time.
ForwardStale(p) ==
  /\ idx[p] \in Ids
  /\ inbox' = AddOne(inbox, Rem(rrIndex, N))
  /\ idx' = [idx EXCEPT ![p] = NoIdx]
  /\ UNCHANGED <<rrIndex, dealt>>

\* schedulers_[idx]->post(f).  Any other index is undefined behaviour, and the
\* model stops there.
Forward(p) ==
  /\ idx[p] \in Ids
  /\ inbox' = AddOne(inbox, idx[p])
  /\ idx' = [idx EXCEPT ![p] = NoIdx]
  /\ UNCHANGED <<rrIndex, dealt>>

Next == \E p \in Callers : Deal(p) \/ Forward(p)

Spec == Init /\ [][Next]_vars

-----------------------------------------------------------------------------

\* The vector is indexed inside its bounds, whatever other callers do between
\* the increment and the use of the index.
InRange == \A p \in Callers : idx[p] \in Ids \cup {NoIdx}

\* Round robin: no scheduler is ever dealt two tasks more than another.
Balanced == \A i, j \in Ids : dealt[i] <= dealt[j] + 1

\* What was dealt to a scheduler was handed to it, or a caller is about to.
NothingLost ==
  \A i \in Ids : dealt[i] = inbox[i] + Cardinality({p \in Callers : idx[p] = i})
=============================================================================
