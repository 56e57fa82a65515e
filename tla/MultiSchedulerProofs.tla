------------------------ MODULE MultiSchedulerProofs ------------------------
(***************************************************************************)
(* Theorems about MultiScheduler for any number of schedulers and callers. *)
(* No task is lost whatever happens to the counter; that every index is    *)
(* that of a scheduler, and that the turns are even, needs fewer than 2^31 *)
(* tasks: MaxPosts <= MaxInt.                                              *)
(***************************************************************************)
EXTENDS MultiScheduler, FiniteSetTheorems, TLAPS

\* Quotient and remainder are unique.
LEMMA RemUnique ==
  ASSUME NEW a \in Int, NEW q \in Int, NEW r \in Ids, a = (N * q) + r
  PROVE  a % N = r
<1> DEFINE p == a \div N
           s == a % N
<1>1. p \in Int /\ s \in Ids /\ a = (N * p) + s /\ N \in Nat \ {0}
  BY MultiSchedulerAssumption DEF Ids
<1> HIDE DEF p, s
<1>2. ASSUME NEW d \in Nat \ {0} PROVE N * d >= N
  <2>1. N * d = (N * (d - 1)) + N
    BY <1>1
  <2>2. N * (d - 1) >= 0
    BY <1>1
  <2>3. QED
    BY <1>1, <2>1, <2>2
<1>3. N * (q - p) = s - r /\ N * (p - q) = r - s
  <2>1. N * (q - p) = (N * q) - (N * p) /\ N * (p - q) = (N * p) - (N * q)
    BY <1>1
  <2>2. QED
    BY <1>1, <2>1 DEF Ids
<1>4. s - r < N /\ r - s < N
  BY <1>1 DEF Ids
<1>5. ~ (q > p)
  <2>1. SUFFICES ASSUME q > p PROVE FALSE
    OBVIOUS
  <2>2. N * (q - p) >= N
    BY <1>1, <1>2, <2>1
  <2>3. QED
    BY <1>1, <1>3, <1>4, <2>2 DEF Ids
<1>6. ~ (p > q)
  <2>1. SUFFICES ASSUME p > q PROVE FALSE
    OBVIOUS
  <2>2. N * (p - q) >= N
    BY <1>1, <1>2, <2>1
  <2>3. QED
    BY <1>1, <1>3, <1>4, <2>2 DEF Ids
<1>7. p = q
  BY <1>1, <1>5, <1>6
<1>8. QED
  BY <1>1, <1>7 DEF s, Ids

\* The remainder moves on by one and starts again at the divisor.
LEMMA RemStep ==
  ASSUME NEW a \in Nat
  PROVE  /\ Rem(a, N) \in Ids
         /\ Rem(a + 1, N) = IF Rem(a, N) = N - 1 THEN 0 ELSE Rem(a, N) + 1
<1> DEFINE q == a \div N
           r == a % N
<1>1. q \in Int /\ r \in Ids /\ a = (N * q) + r /\ N \in Nat \ {0}
  BY MultiSchedulerAssumption DEF Ids
<1>2. Rem(a, N) = r /\ Rem(a + 1, N) = (a + 1) % N
  BY DEF Rem
<1> HIDE DEF q, r
<1>3. CASE r # N - 1
  <2> DEFINE b == a + 1
             t == r + 1
  <2>1. b \in Int /\ t \in Ids /\ b = (N * q) + t
    BY <1>1, <1>3 DEF Ids
  <2>2. b % N = t
    <3> HIDE DEF b, t
    <3>1. QED
      BY <1>1, <2>1, RemUnique
  <2>3. QED
    BY <1>1, <1>2, <1>3, <2>2
<1>4. CASE r = N - 1
  <2> DEFINE b == a + 1
             p == q + 1
  <2>1. b \in Int /\ 0 \in Ids /\ p \in Int /\ N * p = (N * q) + N
    BY <1>1 DEF Ids
  <2>2. b = (N * p) + 0
    BY <1>1, <1>4, <2>1
  <2>3. b % N = 0
    <3> HIDE DEF b, p
    <3>1. QED
      BY <2>1, <2>2, RemUnique
  <2>4. QED
    BY <1>1, <1>2, <1>4, <2>3
<1>5. QED
  BY <1>3, <1>4

-----------------------------------------------------------------------------

\* Before the wrap.  The schedulers below the turn have been dealt one task
\* more than those at or above it.
Dealt ==
  /\ rrIndex \in 0 .. MaxInt
  /\ \A i, j \in Ids :
       /\ (i < Rem(rrIndex, N) <=> j < Rem(rrIndex, N)) => dealt[i] = dealt[j]
       /\ (i < Rem(rrIndex, N) /\ ~ (j < Rem(rrIndex, N))) => dealt[i] = dealt[j] + 1

Fits == MaxPosts <= MaxInt

LEMMA InitDealt == Init => TypeOK /\ InRange /\ Dealt
  BY MultiSchedulerAssumption DEF Init, TypeOK, InRange, Dealt, Ids, Rem

LEMMA NextDealt ==
  ASSUME Fits
  PROVE  TypeOK /\ InRange /\ Dealt /\ [Next]_vars => (TypeOK /\ InRange /\ Dealt)'
<1> SUFFICES ASSUME TypeOK, InRange, Dealt, [Next]_vars
             PROVE  (TypeOK /\ InRange /\ Dealt)'
  OBVIOUS
<1>1. ASSUME NEW p \in Callers, Deal(p) PROVE (TypeOK /\ InRange /\ Dealt)'
  <2> DEFINE r == Rem(rrIndex, N)
             s == Rem(rrIndex + 1, N)
  <2>1. /\ rrIndex \in Nat /\ rrIndex' = rrIndex + 1 /\ rrIndex' \in 0 .. MaxInt
    BY <1>1, MultiSchedulerAssumption DEF Deal, Inc, Dealt, Fits
  <2>2. r \in Ids /\ s = IF r = N - 1 THEN 0 ELSE r + 1
    BY <2>1, RemStep
  <2>3. /\ idx' = [idx EXCEPT ![p] = r] /\ inbox' = inbox
        /\ dealt' = [j \in Ids |-> IF j = r THEN dealt[j] + 1 ELSE dealt[j]]
    BY <1>1 DEF Deal, AddOne
  <2>4. Rem(rrIndex', N) = s
    BY <2>1
  <2>5. \A i, j \in Ids : /\ (i < r <=> j < r) => dealt[i] = dealt[j]
                          /\ (i < r /\ ~ (j < r)) => dealt[i] = dealt[j] + 1
    BY DEF Dealt
  <2> HIDE DEF r, s
  <2>6. \A i \in Ids : dealt[i] \in Nat /\ dealt'[i] = IF i = r THEN dealt[i] + 1 ELSE dealt[i]
    BY <2>3 DEF TypeOK
  <2>7. TypeOK'
    <3>1. rrIndex' \in -MaxInt - 1 .. MaxInt
      BY <2>1, MultiSchedulerAssumption
    <3>2. idx' \in [Callers -> 1 - N .. N - 1 \cup {NoIdx}]
      <4>1. r \in 1 - N .. N - 1
        BY <2>2, MultiSchedulerAssumption DEF Ids
      <4>2. QED
        BY <2>3, <4>1 DEF TypeOK
    <3>3. dealt' \in [Ids -> Nat] /\ inbox' \in [Ids -> Nat]
      BY <2>3, <2>6 DEF TypeOK
    <3>4. QED
      BY <3>1, <3>2, <3>3 DEF TypeOK
  <2>8. InRange'
    BY <2>2, <2>3 DEF InRange, TypeOK
  <2>9. Dealt'
    <3>1. CASE r = N - 1
      <4>1. s = 0 /\ \A i \in Ids : ~ (i < s) /\ (i # r => i < r)
        BY <2>2, <3>1, MultiSchedulerAssumption DEF Ids
      <4>2. \A i, j \in Ids : dealt'[i] = dealt'[j]
        BY <2>2, <2>5, <2>6, <4>1 DEF Ids
      <4>3. QED
        BY <2>1, <2>4, <4>1, <4>2 DEF Dealt
    <3>2. CASE r # N - 1
      <4>1. s = r + 1 /\ \A i \in Ids : i < s <=> i < r \/ i = r
        BY <2>2, <3>2, MultiSchedulerAssumption DEF Ids
      <4>2. \A i, j \in Ids : /\ (i < s <=> j < s) => dealt'[i] = dealt'[j]
                              /\ (i < s /\ ~ (j < s)) => dealt'[i] = dealt'[j] + 1
        BY <2>2, <2>5, <2>6, <4>1 DEF Ids
      <4>3. QED
        BY <2>1, <2>4, <4>2 DEF Dealt
    <3>3. QED
      BY <3>1, <3>2
  <2>10. QED
    BY <2>7, <2>8, <2>9
<1>2. ASSUME NEW p \in Callers, Forward(p) PROVE (TypeOK /\ InRange /\ Dealt)'
  <2>1. /\ UNCHANGED <<rrIndex, dealt>>
        /\ idx' = [idx EXCEPT ![p] = NoIdx]
        /\ inbox' = [j \in Ids |-> IF j = idx[p] THEN inbox[j] + 1 ELSE inbox[j]]
    BY <1>2 DEF Forward, AddOne
  <2>2. inbox' \in [Ids -> Nat]
    BY <2>1 DEF TypeOK
  <2>3. TypeOK'
    BY <2>1, <2>2 DEF TypeOK
  <2>4. InRange'
    BY <2>1 DEF InRange, TypeOK
  <2>5. Dealt'
    BY <2>1 DEF Dealt
  <2>6. QED
    BY <2>3, <2>4, <2>5
<1>3. CASE UNCHANGED vars
  BY <1>3 DEF vars, TypeOK, InRange, Dealt
<1>4. QED
  BY <1>1, <1>2, <1>3 DEF Next

LEMMA AlwaysDealt == ASSUME Fits PROVE Spec => [](TypeOK /\ InRange /\ Dealt)
<1>1. TypeOK /\ InRange /\ Dealt /\ [Next]_vars => (TypeOK /\ InRange /\ Dealt)'
  BY NextDealt
<1>2. QED
  BY <1>1, InitDealt, PTL DEF Spec

\* Fewer than 2^31 posts: schedulers_ is indexed inside its bounds.
THEOREM InRangeAlways == ASSUME Fits PROVE Spec => []InRange
  BY AlwaysDealt, PTL

\* Fewer than 2^31 posts: round robin, for any number of schedulers and
\* whatever the interleaving of the callers.
THEOREM BalancedAlways == ASSUME Fits PROVE Spec => []Balanced
<1>1. TypeOK /\ Dealt => Balanced
  <2> SUFFICES ASSUME TypeOK, Dealt, NEW i \in Ids, NEW j \in Ids
               PROVE  dealt[i] <= dealt[j] + 1
    BY DEF Balanced
  <2>1. dealt[i] \in Nat /\ dealt[j] \in Nat
    BY DEF TypeOK
  <2>2. \/ dealt[i] = dealt[j] \/ dealt[i] = dealt[j] + 1 \/ dealt[j] = dealt[i] + 1
    BY DEF Dealt
  <2>3. QED
    BY <2>1, <2>2
<1>2. QED
  BY <1>1, AlwaysDealt, PTL

-----------------------------------------------------------------------------

\* The callers that hold an index, and the counters of the schedulers.
Holders(i) == {p \in Callers : idx[p] = i}

Counted ==
  /\ idx = [p \in Callers |-> idx[p]]
  /\ dealt \in [Ids -> Nat] /\ inbox \in [Ids -> Nat]
  /\ \A i \in Ids : dealt[i] = inbox[i] + Cardinality(Holders(i))

LEMMA HoldersFinite ==
  ASSUME NEW i PROVE IsFiniteSet(Holders(i)) /\ Cardinality(Holders(i)) \in Nat
  BY FS_Subset, FS_CardinalityType, MultiSchedulerAssumption DEF Holders

LEMMA InitCounted == Init => Counted
<1> SUFFICES ASSUME Init PROVE Counted
  OBVIOUS
<1>1. ASSUME NEW i \in Ids PROVE Cardinality(Holders(i)) = 0
  <2>1. Holders(i) = {}
    BY MultiSchedulerAssumption DEF Init, Holders, Ids
  <2>2. QED
    BY <2>1, FS_EmptySet
<1>2. QED
  BY <1>1 DEF Init, Counted

LEMMA NextCounted == Counted /\ [Next]_vars => Counted'
<1> SUFFICES ASSUME Counted, [Next]_vars PROVE Counted'
  OBVIOUS
<1>1. ASSUME NEW p \in Callers, Deal(p) PROVE Counted'
  <2> DEFINE r == Rem(rrIndex, N)
  <2>1. /\ idx' = [idx EXCEPT ![p] = r] /\ inbox' = inbox /\ idx[p] = NoIdx
        /\ dealt' = [j \in Ids |-> IF j = r THEN dealt[j] + 1 ELSE dealt[j]]
    BY <1>1 DEF Deal, AddOne
  <2> HIDE DEF r
  <2>2. ASSUME NEW i \in Ids PROVE dealt'[i] = inbox'[i] + Cardinality(Holders(i)')
    <3>1. p \notin Holders(i)
      BY <2>1, MultiSchedulerAssumption DEF Holders, Ids
    <3>2. CASE i = r
      <4>1. Holders(i)' = Holders(i) \cup {p}
        BY <2>1, <3>2 DEF Holders, Counted
      <4>2. Cardinality(Holders(i)') = Cardinality(Holders(i)) + 1
        BY <3>1, <4>1, HoldersFinite, FS_AddElement
      <4>3. QED
        BY <2>1, <3>2, <4>2, HoldersFinite DEF Counted
    <3>3. CASE i # r
      <4>1. Holders(i)' = Holders(i)
        BY <2>1, <3>1, <3>3 DEF Holders, Counted
      <4>2. QED
        BY <2>1, <3>3, <4>1 DEF Counted
    <3>4. QED
      BY <3>2, <3>3
  <2>3. QED
    BY <2>1, <2>2 DEF Counted
<1>2. ASSUME NEW p \in Callers, Forward(p) PROVE Counted'
  <2>1. /\ idx' = [idx EXCEPT ![p] = NoIdx] /\ dealt' = dealt /\ idx[p] \in Ids
        /\ inbox' = [j \in Ids |-> IF j = idx[p] THEN inbox[j] + 1 ELSE inbox[j]]
    BY <1>2 DEF Forward, AddOne
  <2>2. ASSUME NEW i \in Ids PROVE dealt'[i] = inbox'[i] + Cardinality(Holders(i)')
    <3>1. Holders(i)' = Holders(i) \ {p}
      BY <2>1, MultiSchedulerAssumption DEF Holders, Counted, Ids
    <3>2. Cardinality(Holders(i)') =
            IF p \in Holders(i) THEN Cardinality(Holders(i)) - 1 ELSE Cardinality(Holders(i))
      BY <3>1, HoldersFinite, FS_RemoveElement
    <3>3. p \in Holders(i) <=> i = idx[p]
      BY DEF Holders
    <3>4. QED
      BY <2>1, <3>2, <3>3, HoldersFinite DEF Counted
  <2>3. QED
    BY <2>1, <2>2 DEF Counted
<1>3. CASE UNCHANGED vars
  <2>1. \A i : Holders(i)' = Holders(i)
    BY <1>3 DEF vars, Holders
  <2>2. QED
    BY <1>3, <2>1 DEF vars, Counted
<1>4. QED
  BY <1>1, <1>2, <1>3 DEF Next

\* What was dealt to a scheduler was handed to it, or a caller is about to, for
\* any number of schedulers and callers, and also when the turn has wrapped.
THEOREM NothingLostAlways == Spec => []NothingLost
<1>1. Counted => NothingLost
  BY DEF Counted, NothingLost, Holders
<1>2. QED
  BY <1>1, InitCounted, NextCounted, PTL DEF Spec
=============================================================================
