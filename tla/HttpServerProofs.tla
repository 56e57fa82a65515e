-------------------------- MODULE HttpServerProofs --------------------------
(***************************************************************************)
(* Theorems about Router for all patterns and paths, and about HttpServer  *)
(* for all routes, dialogs and middlewares.                                *)
(*                                                                         *)
(* The answer of Route::match is right since everything in front of ri     *)
(* agrees.                                                                 *)
(*                                                                         *)
(* AnswersInOrder holds because the units that are not read yet are a      *)
(* piece of the dialog without gaps (Gapless), and lie behind the header   *)
(* blocks of all requests that were handled (Fresh).  InStep needs that    *)
(* parse() begins at a request each time (Aligned), NothingAfterEnd that   *)
(* whoever comes back to it was told to (Stays), RightHandler that the     *)
(* routes in front of the one that is tried do not suit (Tried).           *)
(*                                                                         *)
(* AsMeant, and what the others need of the parser, come from HttpText:    *)
(* whatever a client writes (ClientAssumption) is decoded to what it meant *)
(* and cut where it was put together.  HttpText is made of recursive       *)
(* functions.  What they yield for every text is proved with a least       *)
(* counterexample: Least, and with it WalkExists and FlattenInduction.     *)
(***************************************************************************)
EXTENDS HttpServer, SequenceTheorems, WellFoundedInduction, TLAPS

-----------------------------------------------------------------------------
(* Route::match.                                                           *)

Shape ==
  /\ pattern \in Seq(Words \cup Names \cup {Star})
  /\ path \in Seq(Words)
  /\ ri \in Nat \ {0} /\ ri <= Len(pattern) + 1 /\ ri <= Len(path) + 1
  /\ params \in [Names -> Words \cup {None}]
  /\ rest \in Seq(Words)
  /\ result \in BOOLEAN \cup {None}

\* What the loop has passed agrees, and a verdict is right.
IInv ==
  /\ Shape
  /\ \A i \in 1 .. ri - 1 : Agrees(pattern, path, i)
  /\ RightAnswer

LEMMA InitIInv == MatchInit => IInv
  BY RouterAssumption, RoutesAssumption DEF MatchInit, Unbound, IInv, Shape, RightAnswer

\* A segment that does not agree stands in the way of every match.
LEMMA Blocked ==
  ASSUME NEW pat \in Seq(Words \cup Names \cup {Star}), NEW p \in Seq(Words),
         NEW j \in Nat \ {0}, j <= Len(pat), j <= Len(p),
         pat[j] \in Words, pat[j] # p[j],
         \A i \in 1 .. j - 1 : Agrees(pat, p, i)
  PROVE  ~ Matches(pat, p)
<1>1. pat[j] # Star
  BY RouterAssumption, RoutesAssumption
<1>2. ~ Agrees(pat, p, j)
  BY DEF Agrees
<1>3. ASSUME NEW s \in 1 .. Len(pat), pat[s] = Star PROVE j \in 1 .. s - 1
  <2>1. s \notin 1 .. j - 1
    BY <1>3 DEF Agrees
  <2>2. s # j
    BY <1>1, <1>3
  <2> QED
    BY <2>1, <2>2
<1>4. j \in 1 .. Len(pat)
  OBVIOUS
<1> QED
  BY <1>2, <1>3, <1>4 DEF Matches

\* At the end of the loop everything agrees that both sides have.
LEMMA AtTheEnd ==
  ASSUME NEW pat \in Seq(Words \cup Names \cup {Star}), NEW p \in Seq(Words),
         NEW j \in Nat \ {0}, j <= Len(pat) + 1, j <= Len(p) + 1,
         \A i \in 1 .. j - 1 : Agrees(pat, p, i),
         ~ (j <= Len(pat) /\ j <= Len(p))
  PROVE  Matches(pat, p) = (j > Len(pat) /\ j > Len(p))
<1>0. Len(pat) \in Nat /\ Len(p) \in Nat
  OBVIOUS
<1>1. CASE j > Len(pat) /\ j > Len(p)
  <2>1. Len(pat) = Len(p) /\ j - 1 = Len(pat)
    BY <1>0, <1>1
  <2> QED
    BY <1>1, <2>1 DEF Matches
<1>2. CASE ~ (j > Len(pat) /\ j > Len(p))
  <2>1. Len(pat) # Len(p)
    BY <1>0, <1>2
  <2>2. ASSUME NEW s \in 1 .. Len(pat), pat[s] = Star, s <= Len(p) PROVE FALSE
    <3>1. s \in 1 .. j - 1
      BY <1>0, <2>2
    <3> QED
      BY <2>2, <3>1 DEF Agrees
  <2> QED
    BY <1>2, <2>1, <2>2 DEF Matches
<1> QED
  BY <1>1, <1>2

LEMMA StepIInv == IInv /\ [MatchNext]_matchVars => IInv'
<1> SUFFICES ASSUME IInv, [MatchNext]_matchVars PROVE IInv'
  OBVIOUS
<1> USE DEF IInv, Shape
<1>1. CASE Wildcard
  <2>1. pattern' = pattern /\ path' = path /\ ri' = ri /\ result' = TRUE /\ params' = params
    BY <1>1 DEF Wildcard
  <2>2. rest' \in Seq(Words)
    BY <1>1 DEF Wildcard, InLoop
  <2>3. Matches(pattern, path)
    BY <1>1 DEF Wildcard, InLoop, Matches
  <2> QED
    BY <2>1, <2>2, <2>3 DEF RightAnswer
<1>2. CASE Param
  <2>1. /\ pattern' = pattern /\ path' = path /\ rest' = rest /\ result' = None /\ result = None
        /\ ri' = ri + 1 /\ ri <= Len(pattern) /\ ri <= Len(path) /\ pattern[ri] \in Names
    BY <1>2 DEF Param, InLoop
  <2>2. params' \in [Names -> Words \cup {None}]
    <3>1. path[ri] \in Words
      BY <2>1
    <3> QED
      BY <1>2, <3>1 DEF Param
  <2>3. Agrees(pattern, path, ri)
    BY <2>1, RouterAssumption, RoutesAssumption DEF Agrees
  <2>4. \A i \in 1 .. ri' - 1 : Agrees(pattern, path, i)
    BY <2>1, <2>3
  <2> QED
    BY <2>1, <2>2, <2>4 DEF RightAnswer
<1>3. CASE Literal
  <2>1. /\ pattern' = pattern /\ path' = path /\ rest' = rest /\ params' = params
        /\ result = None
        /\ ri <= Len(pattern) /\ ri <= Len(path) /\ pattern[ri] \in Words
    BY <1>3 DEF Literal, InLoop
  <2>2. CASE pattern[ri] = path[ri]
    <3>1. ri' = ri + 1 /\ result' = None
      BY <1>3, <2>1, <2>2 DEF Literal
    <3>2. Agrees(pattern, path, ri)
      BY <2>1, <2>2, RouterAssumption, RoutesAssumption DEF Agrees
    <3>3. \A i \in 1 .. ri' - 1 : Agrees(pattern, path, i)
      BY <3>1, <3>2
    <3> QED
      BY <2>1, <3>1, <3>3 DEF RightAnswer
  <2>3. CASE pattern[ri] # path[ri]
    <3>1. ri' = ri /\ result' = FALSE
      BY <1>3, <2>3 DEF Literal
    <3>2. ~ Matches(pattern, path)
      BY <2>1, <2>3, Blocked
    <3>3. Matches(pattern, path) = FALSE
      BY <3>2 DEF Matches
    <3>4. RightAnswer'
      BY <2>1, <3>1, <3>3 DEF RightAnswer
    <3>5. Shape'
      BY <2>1, <3>1
    <3>6. (\A i \in 1 .. ri - 1 : Agrees(pattern, path, i))'
      BY <2>1, <3>1
    <3> QED
      BY <3>4, <3>5, <3>6
  <2> QED
    BY <2>2, <2>3
<1>4. CASE EndLoop
  <2>1. /\ pattern' = pattern /\ path' = path /\ rest' = rest /\ params' = params
        /\ ri' = ri /\ result = None
        /\ result' = (ri > Len(pattern) /\ ri > Len(path))
    BY <1>4 DEF EndLoop
  <2>2. ~ (ri <= Len(pattern) /\ ri <= Len(path))
    BY <1>4 DEF EndLoop, InLoop
  <2>3. Matches(pattern, path) = (ri > Len(pattern) /\ ri > Len(path))
    BY <2>2, AtTheEnd
  <2> QED
    BY <2>1, <2>3 DEF RightAnswer
<1>5. CASE UNCHANGED matchVars
  BY <1>5 DEF matchVars, RightAnswer
<1> QED
  BY <1>1, <1>2, <1>3, <1>4, <1>5 DEF MatchNext

\* Route::match says yes to the paths of the pattern's shape and to no others,
\* for all patterns and paths.
THEOREM RightAnswerAlways == MatchSpec => []RightAnswer
<1>1. IInv => RightAnswer
  BY DEF IInv
<1> QED
  BY <1>1, InitIInv, StepIInv, PTL DEF MatchSpec

-----------------------------------------------------------------------------
(* The parameters.                                                         *)

LEMMA MaxIs ==
  ASSUME NEW S \in SUBSET Nat, NEW m \in S, \A y \in S : y <= m
  PROVE  Max(S) = m
<1>1. \A x \in S : (\A y \in S : x >= y) => x = m
  OBVIOUS
<1> QED
  BY <1>1 DEF Max

LEMMA MinIs ==
  ASSUME NEW S \in SUBSET Nat, NEW m \in S, \A y \in S : m <= y
  PROVE  Min(S) = m
<1>1. \A x \in S : (\A y \in S : x =< y) => x = m
  OBVIOUS
<1> QED
  BY <1>1 DEF Min

\* Where the name n stands in the part of the pattern that the loop has passed.
Passed(n) == {i \in 1 .. ri - 1 : pattern[i] = n}

\* A name is bound to the last segment it was passed at, and after a match the
\* loop stands where RightParams looks.
ParamsSoFar ==
  /\ \A n \in Names : params[n] = IF Passed(n) = {} THEN None ELSE path[Max(Passed(n))]
  /\ result # TRUE => rest = <<>>
  /\ result = TRUE => ri = Stop(pattern) /\ rest = SubSeq(path, ri, Len(path))

\* The loop has passed no "*".
LEMMA NoStarPassed ==
  ASSUME IInv
  PROVE  \A s \in 1 .. ri - 1 : pattern[s] # Star
  BY DEF IInv, Shape, Agrees

LEMMA StepParams == IInv /\ ParamsSoFar /\ [MatchNext]_matchVars => ParamsSoFar'
<1> SUFFICES ASSUME IInv, ParamsSoFar, [MatchNext]_matchVars PROVE ParamsSoFar'
  OBVIOUS
<1>0. Shape
  BY DEF IInv
<1>1. CASE Wildcard
  <2>1. /\ pattern' = pattern /\ path' = path /\ ri' = ri /\ result' = TRUE /\ params' = params
        /\ rest' = SubSeq(path, ri, Len(path))
        /\ ri \in 1 .. Len(pattern) /\ pattern[ri] = Star
    BY <1>0, <1>1 DEF Wildcard, InLoop, Shape
  <2>2. Stop(pattern) = ri
    <3> DEFINE S == {s \in 1 .. Len(pattern) : pattern[s] = Star} \cup {Len(pattern) + 1}
    <3>1. S \in SUBSET Nat /\ ri \in S
      BY <1>0, <2>1 DEF Shape
    <3>2. \A y \in S : ri <= y
      BY <1>0, <2>1, NoStarPassed DEF Shape
    <3>3. Min(S) = ri
      BY <3>1, <3>2, MinIs
    <3> QED
      BY <3>3 DEF Stop
  <2>3. Stop(pattern') = ri'
    BY <2>1, <2>2
  <2>4. \A n \in Names : Passed(n)' = Passed(n)
    BY <2>1 DEF Passed
  <2> QED
    BY <2>1, <2>3, <2>4 DEF ParamsSoFar
<1>2. CASE Param
  <2>1. /\ pattern' = pattern /\ path' = path /\ ri' = ri + 1 /\ rest' = rest
        /\ result' = None /\ result = None
        /\ pattern[ri] \in Names /\ ri \in Nat \ {0}
        /\ params' = [params EXCEPT ![pattern[ri]] = path[ri]]
        /\ params \in [Names -> Words \cup {None}]
    BY <1>0, <1>2 DEF Param, InLoop, Shape
  <2>2. None # TRUE
    BY RouterAssumption
  <2>3. ASSUME NEW n \in Names
        PROVE  (params[n] = IF Passed(n) = {} THEN None ELSE path[Max(Passed(n))])'
    <3>1. CASE n = pattern[ri]
      <4>1. Passed(n)' = Passed(n) \cup {ri}
        BY <2>1, <3>1 DEF Passed
      <4>2. Passed(n) \cup {ri} \in SUBSET Nat /\ \A y \in Passed(n) \cup {ri} : y <= ri
        BY <2>1 DEF Passed
      <4>3. Max(Passed(n) \cup {ri}) = ri
        BY <4>2, MaxIs
      <4>4. params'[n] = path[ri]
        BY <2>1, <3>1
      <4> QED
        BY <2>1, <4>1, <4>3, <4>4
    <3>2. CASE n # pattern[ri]
      <4>1. Passed(n)' = Passed(n)
        BY <2>1, <3>2 DEF Passed
      <4>2. params'[n] = params[n]
        BY <2>1, <3>2
      <4> QED
        BY <2>1, <4>1, <4>2 DEF ParamsSoFar
    <3> QED
      BY <3>1, <3>2
  <2> QED
    BY <2>1, <2>2, <2>3 DEF ParamsSoFar
<1>3. CASE Literal
  <2>1. /\ pattern' = pattern /\ path' = path /\ rest' = rest /\ params' = params
        /\ result = None /\ result' # TRUE
        /\ ri \in Nat \ {0} /\ pattern[ri] \in Words
        /\ ri' = ri \/ ri' = ri + 1
    BY <1>0, <1>3, RouterAssumption DEF Literal, InLoop, Shape
  <2>2. None # TRUE
    BY RouterAssumption
  <2>3. \A n \in Names : pattern[ri] # n
    BY <2>1, RoutesAssumption
  <2>4. \A n \in Names : Passed(n)' = Passed(n)
    BY <2>1, <2>3 DEF Passed
  <2> QED
    BY <2>1, <2>2, <2>4 DEF ParamsSoFar
<1>4. CASE EndLoop
  <2>1. /\ pattern' = pattern /\ path' = path /\ rest' = rest /\ params' = params
        /\ ri' = ri /\ result = None
        /\ result' = (ri > Len(pattern) /\ ri > Len(path))
    BY <1>4 DEF EndLoop
  <2>2. \A n \in Names : Passed(n)' = Passed(n)
    BY <2>1 DEF Passed
  <2>3. rest = <<>>
    BY <2>1, RouterAssumption DEF ParamsSoFar
  <2>4. CASE ri > Len(pattern) /\ ri > Len(path)
    <3>1. ri = Len(pattern) + 1 /\ ri = Len(path) + 1
      BY <1>0, <2>1, <2>4 DEF Shape
    <3> DEFINE S == {s \in 1 .. Len(pattern) : pattern[s] = Star} \cup {Len(pattern) + 1}
    <3>2. S \in SUBSET Nat /\ ri \in S
      BY <1>0, <3>1 DEF Shape
    <3>3. \A y \in S : ri <= y
      BY <1>0, <3>1, NoStarPassed DEF Shape
    <3>4. Min(S) = ri
      BY <3>2, <3>3, MinIs
    <3>5. Stop(pattern) = ri
      BY <3>4 DEF Stop
    <3>6. SubSeq(path, ri, Len(path)) = <<>>
      BY <1>0, <3>1 DEF Shape
    <3> QED
      BY <2>1, <2>2, <2>3, <3>5, <3>6 DEF ParamsSoFar
  <2>5. CASE ~ (ri > Len(pattern) /\ ri > Len(path))
    BY <2>1, <2>2, <2>3, <2>5 DEF ParamsSoFar
  <2> QED
    BY <2>4, <2>5
<1>5. CASE UNCHANGED matchVars
  <2>1. \A n \in Names : Passed(n)' = Passed(n)
    BY <1>5 DEF matchVars, Passed
  <2> QED
    BY <1>5, <2>1 DEF matchVars, ParamsSoFar
<1> QED
  BY <1>1, <1>2, <1>3, <1>4, <1>5 DEF MatchNext

\* After a match each name of the pattern is bound to its segment and "*" to all
\* that is left, for all patterns and paths.
THEOREM RightParamsAlways == MatchSpec => []RightParams
<1>1. MatchInit => ParamsSoFar
  <2> SUFFICES ASSUME MatchInit PROVE ParamsSoFar
    OBVIOUS
  <2>1. ri = 1 /\ params = [n \in Names |-> None] /\ rest = <<>> /\ result = None
    BY DEF MatchInit, Unbound
  <2>2. \A n \in Names : Passed(n) = {}
    BY <2>1 DEF Passed
  <2> QED
    BY <2>1, <2>2, RouterAssumption DEF ParamsSoFar
<1>2. IInv /\ ParamsSoFar => RightParams
  BY DEF ParamsSoFar, RightParams, Passed
<1> QED
  BY <1>1, <1>2, InitIInv, StepIInv, StepParams, PTL DEF MatchSpec

-----------------------------------------------------------------------------
(* Induction.                                                              *)

\* Induction over data needs no theorem about operators: a set of numbers has a least
\* element, and the set is that of the counterexamples.
LEMMA Least ==
  ASSUME NEW n \in Int, NEW T, T \subseteq 0 .. n, T # {}
  PROVE  \E x \in T : \A y \in T : x <= y
<1>0. T \subseteq Nat
  OBVIOUS
<1> DEFINE R == OpToRel(<, Nat)
<1>1. IsWellFoundedOn(R, Nat)
  BY NatLessThanWellFounded
<1>2. \A x, y \in Nat : <<y, x>> \in R <=> y < x
  BY DEF OpToRel
<1> HIDE DEF R
<1>3. PICK x \in T : \A y \in T : <<y, x>> \notin R
  BY <1>0, <1>1, WFMin, Zenon
<1>4. \A y \in T : ~ (y < x)
  BY <1>0, <1>2, <1>3
<1>5. \A y \in T : x <= y
  BY <1>0, <1>3, <1>4
<1> QED
  BY <1>3, <1>5

\* The functions of HttpText run from the front of a text to its end.  At i they put
\* head[i] in front of what they make of the text from nxt[i] on.
IsWalk(f, n, m, head, nxt) ==
  f = [i \in 1 .. m |-> IF i > n THEN <<>> ELSE head[i] \o f[nxt[i]]]

Forward(n, m, nxt) ==
  /\ n \in Nat /\ m \in Nat /\ n < m
  /\ \A i \in 1 .. n : nxt[i] \in i + 1 .. m

LEMMA WalkExists ==
  ASSUME NEW n, NEW m, NEW head, NEW nxt, Forward(n, m, nxt)
  PROVE  \E f : IsWalk(f, n, m, head, nxt)
<1> DEFINE From(f, k) ==
      f = [i \in m - k .. m |-> IF i > n THEN <<>> ELSE head[i] \o f[nxt[i]]]
<1> DEFINE T == {k \in 0 .. m - 1 : ~ \E f : From(f, k)}
<1>0. n \in Nat /\ m \in Nat /\ n < m /\ \A i \in 1 .. n : nxt[i] \in i + 1 .. m
  BY DEF Forward
<1>1. T = {}
  <2> SUFFICES ASSUME T # {} PROVE FALSE
    OBVIOUS
  <2>1. PICK k \in T : \A j \in T : k <= j
    <3>1. T \subseteq 0 .. m - 1
      OBVIOUS
    <3>2. m - 1 \in Int
      BY <1>0
    <3> HIDE DEF T
    <3> QED
      BY <3>1, <3>2, Least
  <2>2. k \in 0 .. m - 1
    OBVIOUS
  <2>3. CASE k = 0
    <3> DEFINE f == [i \in m .. m |-> <<>>]
    <3>0. m - k = m
      BY <1>0, <2>3
    <3>1. f = [i \in m .. m |-> IF i > n THEN <<>> ELSE head[i] \o f[nxt[i]]]
      BY <1>0
    <3>2. From(f, k)
      BY <3>0, <3>1
    <3> HIDE DEF f, From
    <3> QED
      BY <3>2
  <2>4. CASE k # 0
    <3>0. k - 1 \in 0 .. m - 1 /\ ~ (k <= k - 1)
      BY <2>2, <2>4, <1>0
    <3>1. k - 1 \in 0 .. m - 1 /\ k - 1 \notin T
      <4> HIDE DEF T
      <4> QED
        BY <2>1, <3>0
    <3>2. PICK g : From(g, k - 1)
      BY <3>1
    <3> DEFINE a == m - k
               f == [i \in a .. m |->
                       IF i = a THEN (IF i > n THEN <<>> ELSE head[i] \o g[nxt[i]]) ELSE g[i]]
    <3>3. a \in 1 .. m /\ m - (k - 1) = a + 1
      BY <2>2, <1>0
    <3>4. g = [i \in a + 1 .. m |-> IF i > n THEN <<>> ELSE head[i] \o g[nxt[i]]]
      BY <3>2, <3>3
    <3>5. \A i \in a + 1 .. m : f[i] = g[i]
      BY <3>3
    <3>6. ASSUME NEW i \in a .. m, i <= n PROVE nxt[i] \in a + 1 .. m /\ f[nxt[i]] = g[nxt[i]]
      <4>1. i \in 1 .. n /\ nxt[i] \in i + 1 .. m
        BY <1>0, <3>3, <3>6
      <4>2. nxt[i] \in a + 1 .. m
        BY <4>1, <3>3
      <4> QED
        BY <3>5, <4>2
    <3>7. \A i \in a .. m : f[i] = IF i > n THEN <<>> ELSE head[i] \o f[nxt[i]]
      <4> TAKE i \in a .. m
      <4>1. CASE i > n
        <5>0. i # a => i \in a + 1 .. m
          BY <3>3
        <5>1. i # a => g[i] = <<>>
          BY <3>4, <4>1, <5>0
        <5> QED
          BY <4>1, <5>1
      <4>2. CASE ~ i > n
        <5>0. i <= n
          BY <4>2, <3>3, <1>0
        <5>1. f[nxt[i]] = g[nxt[i]]
          BY <5>0, <3>6
        <5>2. i # a => i \in a + 1 .. m
          BY <3>3
        <5>4. i # a => g[i] = head[i] \o g[nxt[i]]
          BY <3>4, <4>2, <5>2
        <5>3. f[i] = head[i] \o g[nxt[i]]
          BY <4>2, <5>4
        <5> HIDE DEF f
        <5> QED
          BY <4>2, <5>1, <5>3
      <4> QED
        BY <4>1, <4>2
    <3>8. f = [i \in a .. m |-> IF i > n THEN <<>> ELSE head[i] \o f[nxt[i]]]
      <4>1. f = [i \in a .. m |-> f[i]]
        OBVIOUS
      <4> HIDE DEF f
      <4> QED
        BY <3>7, <4>1
    <3>9. From(f, k)
      BY <3>8
    <3> QED
      BY <3>9
  <2> QED
    BY <2>3, <2>4
<1>2. m - 1 \in 0 .. m - 1 /\ m - 1 \notin T
  <2>1. m - 1 \in 0 .. m - 1
    BY <1>0
  <2> HIDE DEF T
  <2> QED
    BY <1>1, <2>1
<1>3. PICK f : From(f, m - 1)
  BY <1>2
<1>4. m - (m - 1) = 1
  BY <1>0
<1> QED
  BY <1>3, <1>4 DEF IsWalk

\* What is made of the end of a text does not depend on what is in front of it.
LEMMA WalkSuffix ==
  ASSUME NEW k \in Nat, NEW n, NEW m, NEW n1, NEW m1, n1 = k + n, m1 = k + m,
         NEW f, NEW head, NEW nxt, IsWalk(f, n1, m1, head, nxt),
         NEW g, NEW head2, NEW nxt2, IsWalk(g, n, m, head2, nxt2),
         Forward(n, m, nxt2),
         \A i \in 1 .. n : head[k + i] = head2[i] /\ nxt[k + i] = k + nxt2[i]
  PROVE  \A i \in 1 .. m : f[k + i] = g[i]
<1>0. n \in Nat /\ m \in Nat /\ n < m /\ \A i \in 1 .. n : nxt2[i] \in i + 1 .. m
  BY DEF Forward
<1> DEFINE T == {j \in 0 .. m - 1 : f[k + (m - j)] # g[m - j]}
<1>1. T = {}
  <2> SUFFICES ASSUME T # {} PROVE FALSE
    OBVIOUS
  <2>1. PICK j \in T : \A l \in T : j <= l
    <3>1. T \subseteq 0 .. m - 1
      OBVIOUS
    <3>2. m - 1 \in Int
      BY <1>0
    <3> HIDE DEF T
    <3> QED
      BY <3>1, <3>2, Least
  <2> DEFINE i == m - j
  <2>2. j \in 0 .. m - 1 /\ i \in 1 .. m /\ k + i \in 1 .. k + m /\ f[k + i] # g[i]
    BY <1>0
  <2>3. CASE i > n
    <3>1. k + i > n1 /\ k + i \in 1 .. m1
      BY <1>0, <2>2, <2>3
    <3>2. f[k + i] = <<>>
      BY <3>1 DEF IsWalk
    <3>3. g[i] = <<>>
      BY <2>3, <2>2 DEF IsWalk
    <3> QED
      BY <2>2, <3>2, <3>3
  <2>4. CASE ~ i > n
    <3>1. i \in 1 .. n /\ ~ k + i > n1 /\ k + i \in 1 .. m1
      BY <1>0, <2>2, <2>4
    <3>2. f[k + i] = head[k + i] \o f[nxt[k + i]]
      BY <3>1 DEF IsWalk
    <3>3. g[i] = head2[i] \o g[nxt2[i]]
      BY <2>2, <2>4 DEF IsWalk
    <3> DEFINE l == m - nxt2[i]
    <3>4. nxt2[i] \in i + 1 .. m
      BY <1>0, <3>1
    <3>5. l \in 0 .. m - 1 /\ l < j /\ m - l = nxt2[i]
      BY <1>0, <2>2, <3>4
    <3>6. l \notin T
      BY <2>1, <2>2, <3>5
    <3>7. f[k + nxt2[i]] = g[nxt2[i]]
      BY <3>5, <3>6
    <3> QED
      BY <2>2, <3>1, <3>2, <3>3, <3>7
  <2> QED
    BY <2>2, <2>3, <2>4
<1> TAKE i \in 1 .. m
<1>2. m - i \in 0 .. m - 1 /\ m - (m - i) = i
  BY <1>0
<1> QED
  BY <1>1, <1>2

\* The result is a text over any alphabet that has the heads.
LEMMA WalkType ==
  ASSUME NEW n, NEW m, NEW f, NEW head, NEW nxt, IsWalk(f, n, m, head, nxt),
         Forward(n, m, nxt), NEW C, \A i \in 1 .. n : head[i] \in Seq(C)
  PROVE  \A i \in 1 .. m : f[i] \in Seq(C)
<1>0. n \in Nat /\ m \in Nat /\ n < m /\ \A i \in 1 .. n : nxt[i] \in i + 1 .. m
  BY DEF Forward
<1> DEFINE T == {j \in 0 .. m - 1 : f[m - j] \notin Seq(C)}
<1>1. T = {}
  <2> SUFFICES ASSUME T # {} PROVE FALSE
    OBVIOUS
  <2>1. PICK j \in T : \A l \in T : j <= l
    <3>1. T \subseteq 0 .. m - 1
      OBVIOUS
    <3>2. m - 1 \in Int
      BY <1>0
    <3> HIDE DEF T
    <3> QED
      BY <3>1, <3>2, Least
  <2> DEFINE i == m - j
  <2>2. j \in 0 .. m - 1 /\ i \in 1 .. m /\ f[i] \notin Seq(C)
    BY <1>0
  <2>3. f[i] = IF i > n THEN <<>> ELSE head[i] \o f[nxt[i]]
    BY <2>2 DEF IsWalk
  <2>4. ~ i > n
    BY <2>2, <2>3
  <2>5. i \in 1 .. n
    BY <1>0, <2>2, <2>4
  <2> DEFINE l == m - nxt[i]
  <2>6. nxt[i] \in i + 1 .. m
    BY <1>0, <2>5
  <2>7. l \in 0 .. m - 1 /\ l < j /\ m - l = nxt[i]
    BY <1>0, <2>2, <2>6
  <2>8. l \notin T
    BY <2>1, <2>2, <2>7
  <2>9. f[nxt[i]] \in Seq(C)
    BY <2>7, <2>8
  <2> QED
    BY <2>2, <2>3, <2>4, <2>5, <2>9, ConcatProperties
<1> TAKE i \in 1 .. m
<1>2. m - i \in 0 .. m - 1 /\ m - (m - i) = i
  BY <1>0
<1> QED
  BY <1>1, <1>2

\* A character, or a byte that stands for itself because nobody writes it.
Marks == {"%", "+", " ", "/", "&", "=", "?"}
Chars == STRING \cup HexDigits \cup Marks \cup {c[1] : c \in Codes} \cup HexDigits \X HexDigits
Text == Seq(Chars)

LEMMA CharsHave == HexDigits \subseteq Chars /\ Marks \subseteq Chars /\ STRING \subseteq Chars
  BY DEF Chars

LEMMA CharOfType == ASSUME NEW hi \in HexDigits, NEW lo \in HexDigits PROVE CharOf(hi, lo) \in Chars
<1> DEFINE known == {c \in Codes : c[2] = hi /\ c[3] = lo}
<1>1. CASE known = {}
  BY <1>1 DEF CharOf, Chars
<1>2. CASE known # {}
  <2>1. (CHOOSE c \in known : TRUE) \in Codes
    BY <1>2
  <2>2. \A c \in Codes : c[1] \in Chars
    BY DEF Chars
  <2> QED
    BY <1>2, <2>1, <2>2 DEF CharOf
<1> QED
  BY <1>1, <1>2

\* Two texts one behind the other.
LEMMA Joined ==
  ASSUME NEW C, NEW x \in Seq(C), NEW t \in Seq(C)
  PROVE  /\ x \o t \in Seq(C) /\ Len(x \o t) = Len(x) + Len(t)
         /\ Len(x) \in Nat /\ Len(t) \in Nat
         /\ \A i \in 1 .. Len(x) : (x \o t)[i] = x[i]
         /\ \A i \in 1 .. Len(t) : (x \o t)[Len(x) + i] = t[i]
<1>1. Len(x) \in Nat /\ Len(t) \in Nat
  OBVIOUS
<1>2. \A i \in 1 .. Len(x) + Len(t) : (x \o t)[i] = IF i <= Len(x) THEN x[i] ELSE t[i - Len(x)]
  BY ConcatProperties
<1>3. x \o t \in Seq(C) /\ Len(x \o t) = Len(x) + Len(t)
  BY ConcatProperties
<1> QED
  BY <1>1, <1>2, <1>3

LEMMA JoinedText ==
  ASSUME NEW x \in Text, NEW t \in Text
  PROVE  /\ x \o t \in Text /\ Len(x \o t) = Len(x) + Len(t)
         /\ Len(x) \in Nat /\ Len(t) \in Nat
         /\ \A i \in 1 .. Len(x) : (x \o t)[i] = x[i]
         /\ \A i \in 1 .. Len(t) : (x \o t)[Len(x) + i] = t[i]
  BY Joined DEF Text

-----------------------------------------------------------------------------
(* url_decode().                                                           *)

DecodeHead(s) ==
  [i \in 1 .. Len(s) |-> IF Escape(s, i) THEN <<CharOf(s[i + 1], s[i + 2])>>
                         ELSE <<IF s[i] = "+" THEN " " ELSE s[i]>>]
DecodeNext(s) == [i \in 1 .. Len(s) |-> IF Escape(s, i) THEN i + 3 ELSE i + 1]

LEMMA DecodeForward ==
  ASSUME NEW s \in Text
  PROVE  Forward(Len(s), Len(s) + 1, DecodeNext(s))
<1>1. Len(s) \in Nat
  BY DEF Text
<1>2. ASSUME NEW i \in 1 .. Len(s) PROVE DecodeNext(s)[i] \in i + 1 .. Len(s) + 1
  BY <1>1 DEF DecodeNext, Escape
<1> QED
  BY <1>1, <1>2 DEF Forward

LEMMA DecodeHeads ==
  ASSUME NEW s \in Text
  PROVE  \A i \in 1 .. Len(s) : DecodeHead(s)[i] \in Text
<1> TAKE i \in 1 .. Len(s)
<1>1. s[i] \in Chars
  BY DEF Text
<1>2. CASE Escape(s, i)
  <2>1. CharOf(s[i + 1], s[i + 2]) \in Chars
    BY <1>2, CharOfType DEF Escape
  <2> QED
    BY <1>2, <2>1 DEF DecodeHead, Text
<1>3. CASE ~ Escape(s, i)
  <2>1. " " \in Chars
    BY CharsHave DEF Marks
  <2> DEFINE c == IF s[i] = "+" THEN " " ELSE s[i]
  <2>2. c \in Chars
    BY <1>1, <2>1
  <2>3. DecodeHead(s)[i] = <<c>>
    BY <1>3 DEF DecodeHead
  <2> HIDE DEF c
  <2> QED
    BY <2>2, <2>3 DEF Text
<1> QED
  BY <1>2, <1>3

\* The recursive function of url_decode() exists, and is such a walk.
LEMMA DecodeIs ==
  ASSUME NEW s \in Text
  PROVE  \E f : /\ IsWalk(f, Len(s), Len(s) + 1, DecodeHead(s), DecodeNext(s))
                /\ url_decode(s) = f[1]
<1> DEFINE Is(f) == f = [i \in 1 .. Len(s) + 1 |->
             IF i > Len(s) THEN <<>>
             ELSE IF Escape(s, i) THEN <<CharOf(s[i + 1], s[i + 2])>> \o f[i + 3]
             ELSE <<IF s[i] = "+" THEN " " ELSE s[i]>> \o f[i + 1]]
<1>1. Len(s) \in Nat
  BY DEF Text
<1>2. ASSUME NEW f PROVE IsWalk(f, Len(s), Len(s) + 1, DecodeHead(s), DecodeNext(s)) <=> Is(f)
  <2>1. ASSUME NEW i \in 1 .. Len(s) + 1, ~ i > Len(s)
        PROVE  DecodeHead(s)[i] \o f[DecodeNext(s)[i]] =
                 IF Escape(s, i) THEN <<CharOf(s[i + 1], s[i + 2])>> \o f[i + 3]
                 ELSE <<IF s[i] = "+" THEN " " ELSE s[i]>> \o f[i + 1]
    <3>1. i \in 1 .. Len(s)
      BY <1>1, <2>1
    <3>2. CASE Escape(s, i)
      BY <3>1, <3>2 DEF DecodeHead, DecodeNext
    <3>3. CASE ~ Escape(s, i)
      BY <3>1, <3>3 DEF DecodeHead, DecodeNext
    <3> QED
      BY <3>2, <3>3
  <2>2. [i \in 1 .. Len(s) + 1 |->
           IF i > Len(s) THEN <<>> ELSE DecodeHead(s)[i] \o f[DecodeNext(s)[i]]]
        = [i \in 1 .. Len(s) + 1 |->
             IF i > Len(s) THEN <<>>
             ELSE IF Escape(s, i) THEN <<CharOf(s[i + 1], s[i + 2])>> \o f[i + 3]
             ELSE <<IF s[i] = "+" THEN " " ELSE s[i]>> \o f[i + 1]]
    BY <2>1
  <2> QED
    BY <2>2 DEF IsWalk
<1>3. \E f : Is(f)
  BY <1>2, DecodeForward, WalkExists
<1> DEFINE from == CHOOSE f : Is(f)
<1>4. Is(from)
  BY <1>3
<1>5. url_decode(s) = from[1]
  BY DEF url_decode
<1> HIDE DEF from, Is
<1> QED
  BY <1>2, <1>4, <1>5

LEMMA DecodeType == ASSUME NEW s \in Text PROVE url_decode(s) \in Text
<1>1. PICK f : IsWalk(f, Len(s), Len(s) + 1, DecodeHead(s), DecodeNext(s)) /\ url_decode(s) = f[1]
  BY DecodeIs
<1>2. \A i \in 1 .. Len(s) + 1 : f[i] \in Text
  BY <1>1, DecodeForward, DecodeHeads, WalkType DEF Text
<1>3. 1 \in 1 .. Len(s) + 1
  BY DEF Text
<1> QED
  BY <1>1, <1>2, <1>3

LEMMA DecodeNothing == url_decode(<<>>) = <<>>
<1>1. <<>> \in Text /\ Len(<<>>) = 0
  BY DEF Text
<1>2. PICK f : IsWalk(f, 0, 0 + 1, DecodeHead(<<>>), DecodeNext(<<>>)) /\ url_decode(<<>>) = f[1]
  BY <1>1, DecodeIs
<1> QED
  BY <1>2 DEF IsWalk

\* What is behind x is decoded as it is alone, if x is decoded without it.
LEMMA DecodeBehind ==
  ASSUME NEW x \in Text, NEW t \in Text, x # <<>>,
         DecodeNext(x \o t)[1] = Len(x) + 1
  PROVE  url_decode(x \o t) = DecodeHead(x \o t)[1] \o url_decode(t)
<1> DEFINE s == x \o t
           k == Len(x)
<1>0. /\ s \in Text /\ Len(s) = k + Len(t) /\ k \in Nat /\ Len(t) \in Nat /\ k > 0
      /\ \A i \in 1 .. Len(t) : s[k + i] = t[i]
  <2>1. k > 0
    BY DEF Text
  <2> QED
    BY <2>1, JoinedText
<1>1. PICK f : IsWalk(f, Len(s), Len(s) + 1, DecodeHead(s), DecodeNext(s)) /\ url_decode(s) = f[1]
  BY <1>0, DecodeIs
<1>2. PICK g : IsWalk(g, Len(t), Len(t) + 1, DecodeHead(t), DecodeNext(t)) /\ url_decode(t) = g[1]
  BY DecodeIs
<1> HIDE DEF s, k
<1>3. ASSUME NEW i \in 1 .. Len(t)
      PROVE  DecodeHead(s)[k + i] = DecodeHead(t)[i] /\ DecodeNext(s)[k + i] = k + DecodeNext(t)[i]
  <2>1. k + i \in 1 .. Len(s) /\ s[k + i] = t[i]
    BY <1>0
  <2>2. k + i + 2 <= Len(s) <=> i + 2 <= Len(t)
    BY <1>0
  <2>3. i + 2 <= Len(t) => s[k + i + 1] = t[i + 1] /\ s[k + i + 2] = t[i + 2]
    <3>1. i + 2 <= Len(t) => i + 1 \in 1 .. Len(t) /\ i + 2 \in 1 .. Len(t)
      BY <1>0
    <3>2. k + (i + 1) = k + i + 1 /\ k + (i + 2) = k + i + 2
      BY <1>0
    <3> QED
      BY <1>0, <3>1, <3>2
  <2>4. Escape(s, k + i) <=> Escape(t, i)
    BY <2>1, <2>2, <2>3 DEF Escape
  <2>5. Escape(t, i) => i + 2 <= Len(t)
    BY DEF Escape
  <2>6. DecodeHead(s)[k + i] = DecodeHead(t)[i]
    BY <2>1, <2>3, <2>4, <2>5 DEF DecodeHead
  <2>7. DecodeNext(s)[k + i] = k + DecodeNext(t)[i]
    BY <1>0, <2>1, <2>4 DEF DecodeNext
  <2> QED
    BY <2>6, <2>7
<1>4. Len(s) = k + Len(t) /\ Len(s) + 1 = k + (Len(t) + 1)
  BY <1>0
<1>5. \A i \in 1 .. Len(t) + 1 : f[k + i] = g[i]
  <2> DEFINE n == Len(t)
             m == Len(t) + 1
             n1 == Len(s)
             m1 == Len(s) + 1
             h == DecodeHead(s)
             x1 == DecodeNext(s)
             h2 == DecodeHead(t)
             x2 == DecodeNext(t)
  <2>1. Forward(n, m, x2) /\ k \in Nat
    BY <1>0, DecodeForward
  <2>2. IsWalk(f, n1, m1, h, x1) /\ IsWalk(g, n, m, h2, x2)
    BY <1>1, <1>2
  <2>3. n1 = k + n /\ m1 = k + m
    BY <1>4
  <2>4. \A i \in 1 .. n : h[k + i] = h2[i] /\ x1[k + i] = k + x2[i]
    BY <1>3
  <2>5. \A i \in 1 .. m : f[k + i] = g[i]
    <3> HIDE DEF n, m, n1, m1, h, x1, h2, x2
    <3> QED
      BY <2>1, <2>2, <2>3, <2>4, WalkSuffix
  <2> QED
    BY <2>5
<1>6. f[k + 1] = g[1]
  BY <1>0, <1>5
<1>7. f[1] = DecodeHead(s)[1] \o f[DecodeNext(s)[1]]
  <2>1. 1 \in 1 .. Len(s) + 1 /\ ~ 1 > Len(s)
    BY <1>0
  <2> QED
    BY <1>1, <2>1 DEF IsWalk
<1>8. DecodeNext(s)[1] = k + 1
  BY DEF s, k
<1> QED
  BY <1>1, <1>2, <1>6, <1>7, <1>8 DEF s

\* One character that begins no escape.
LEMMA DecodeOne ==
  ASSUME NEW c \in Chars, NEW t \in Text, ~ Escape(<<c>> \o t, 1)
  PROVE  url_decode(<<c>> \o t) = <<IF c = "+" THEN " " ELSE c>> \o url_decode(t)
<1> DEFINE x == <<c>>
<1>1. x \in Text /\ x # <<>> /\ Len(x) = 1 /\ x[1] = c
  BY DEF Text
<1> HIDE DEF x
<1>2. Len(x \o t) \in Nat /\ 1 \in 1 .. Len(x \o t) /\ (x \o t)[1] = c
  <2>1. 1 \in 1 .. Len(x)
    BY <1>1
  <2>2. x \in Text /\ t \in Text
    BY <1>1
  <2>3. /\ Len(x \o t) = Len(x) + Len(t) /\ Len(t) \in Nat
        /\ \A i \in 1 .. Len(x) : (x \o t)[i] = x[i]
    BY <2>2, JoinedText
  <2> QED
    BY <1>1, <2>1, <2>3
<1>3. DecodeNext(x \o t)[1] = Len(x) + 1
  BY <1>1, <1>2 DEF DecodeNext, x
<1>4. DecodeHead(x \o t)[1] = <<IF c = "+" THEN " " ELSE c>>
  BY <1>2 DEF DecodeHead, x
<1>5. url_decode(x \o t) = DecodeHead(x \o t)[1] \o url_decode(t)
  BY <1>1, <1>3, DecodeBehind
<1> QED
  BY <1>4, <1>5 DEF x

\* One escape.
LEMMA DecodeEscape ==
  ASSUME NEW hi \in HexDigits, NEW lo \in HexDigits, NEW t \in Text
  PROVE  url_decode(<<"%", hi, lo>> \o t) = <<CharOf(hi, lo)>> \o url_decode(t)
<1> DEFINE x == <<"%", hi, lo>>
<1>1. x \in Text /\ x # <<>> /\ Len(x) = 3 /\ x[1] = "%" /\ x[2] = hi /\ x[3] = lo
  <2>1. "%" \in Chars /\ hi \in Chars /\ lo \in Chars
    BY CharsHave DEF Marks
  <2> QED
    BY <2>1 DEF Text
<1> HIDE DEF x
<1> DEFINE s == x \o t
<1>2. Len(s) \in Nat /\ 3 <= Len(s) /\ s[1] = "%" /\ s[1 + 1] = hi /\ s[1 + 2] = lo
  <2>1. 1 \in 1 .. Len(x) /\ 2 \in 1 .. Len(x) /\ 3 \in 1 .. Len(x)
    BY <1>1
  <2>2. /\ s[1] = x[1] /\ s[2] = x[2] /\ s[3] = x[3]
        /\ Len(s) = Len(x) + Len(t) /\ Len(t) \in Nat
    BY <1>1, <2>1, JoinedText
  <2> QED
    BY <1>1, <2>2
<1> HIDE DEF s
<1>3. Escape(s, 1)
  BY <1>2 DEF Escape
<1>4. DecodeNext(s)[1] = Len(x) + 1
  BY <1>1, <1>2, <1>3 DEF DecodeNext
<1>5. DecodeHead(s)[1] = <<CharOf(hi, lo)>>
  <2>1. 1 \in 1 .. Len(s)
    BY <1>2
  <2>2. DecodeHead(s)[1] = <<CharOf(s[1 + 1], s[1 + 2])>>
    BY <1>3, <2>1 DEF DecodeHead
  <2> QED
    BY <1>2, <2>2
<1>6. url_decode(s) = DecodeHead(s)[1] \o url_decode(t)
  BY <1>1, <1>4, DecodeBehind DEF s
<1> QED
  BY <1>5, <1>6 DEF x, s

-----------------------------------------------------------------------------
(* getline().                                                              *)

LEMMA SubSeqBehind ==
  ASSUME NEW x \in Text, NEW t \in Text, NEW i \in 1 .. Len(t) + 1, NEW e \in i - 1 .. Len(t)
  PROVE  SubSeq(x \o t, Len(x) + i, Len(x) + e) = SubSeq(t, i, e)
<1> DEFINE s == x \o t
           k == Len(x)
           a == SubSeq(s, k + i, k + e)
           b == SubSeq(t, i, e)
<1>0. /\ s \in Text /\ Len(s) = k + Len(t) /\ k \in Nat /\ Len(t) \in Nat
      /\ \A j \in 1 .. Len(t) : s[k + j] = t[j] /\ t[j] \in Chars
  <2>1. \A j \in 1 .. Len(t) : t[j] \in Chars
    BY DEF Text
  <2> QED
    BY <2>1, JoinedText
<1> HIDE DEF s, k
<1>1. i \in Int /\ e \in Int /\ k + i \in Int /\ k + e \in Int /\ i >= 1 /\ e <= Len(t) /\ i - 1 <= e
  BY <1>0
<1>2. \A j \in i .. e : t[j] \in Chars
  BY <1>0, <1>1
<1>3. /\ b \in Seq(Chars) /\ Len(b) = (IF i <= e THEN e - i + 1 ELSE 0)
      /\ \A j \in 1 .. e - i + 1 : b[j] = t[i + j - 1]
  BY <1>1, <1>2, SubSeqProperties
<1>4. \A j \in k + i .. k + e : s[j] \in Chars
  <2> TAKE j \in k + i .. k + e
  <2>1. j - k \in 1 .. Len(t) /\ k + (j - k) = j
    BY <1>0, <1>1
  <2> QED
    BY <1>0, <2>1
<1>5. /\ a \in Seq(Chars) /\ Len(a) = (IF k + i <= k + e THEN (k + e) - (k + i) + 1 ELSE 0)
      /\ \A j \in 1 .. (k + e) - (k + i) + 1 : a[j] = s[k + i + j - 1]
  BY <1>1, <1>4, SubSeqProperties
<1> HIDE DEF a, b
<1>6. Len(a) = Len(b) /\ Len(a) = e - i + 1
  BY <1>0, <1>1, <1>3, <1>5
<1>7. \A j \in 1 .. Len(a) : a[j] = b[j]
  <2> TAKE j \in 1 .. Len(a)
  <2>1. j \in 1 .. e - i + 1 /\ (k + e) - (k + i) + 1 = e - i + 1
    BY <1>0, <1>1, <1>6
  <2>2. i + j - 1 \in 1 .. Len(t) /\ k + i + j - 1 = k + (i + j - 1)
    BY <1>0, <1>1, <2>1
  <2> QED
    BY <1>0, <1>3, <1>5, <2>1, <2>2
<1>8. a = b
  BY <1>3, <1>5, <1>6, <1>7, SeqEqual
<1> QED
  BY <1>8 DEF a, b, s, k

LEMMA SubSeqFront ==
  ASSUME NEW x \in Text, NEW t \in Text
  PROVE  SubSeq(x \o t, 1, Len(x)) = x
<1> DEFINE s == x \o t
           k == Len(x)
           a == SubSeq(s, 1, k)
<1>0. k \in Nat /\ \A j \in 1 .. k : s[j] = x[j] /\ x[j] \in Chars
  <2>1. \A j \in 1 .. k : x[j] \in Chars
    BY DEF Text
  <2> QED
    BY <2>1, JoinedText
<1> HIDE DEF s
<1>1. \A j \in 1 .. k : s[j] \in Chars
  BY <1>0
<1>2. /\ a \in Seq(Chars) /\ Len(a) = (IF 1 <= k THEN k - 1 + 1 ELSE 0)
      /\ \A j \in 1 .. k - 1 + 1 : a[j] = s[1 + j - 1]
  <2> HIDE DEF k
  <2> QED
    BY <1>0, <1>1, SubSeqProperties
<1>3. Len(a) = k /\ \A j \in 1 .. k : a[j] = x[j]
  BY <1>0, <1>2
<1>4. x \in Seq(Chars)
  BY DEF Text
<1> HIDE DEF a
<1>5. a = x
  BY <1>2, <1>3, <1>4, SeqEqual
<1> QED
  BY <1>5 DEF a, s

PieceEnd(s, sep, i) == Min({j \in i .. Len(s) + 1 : j = Len(s) + 1 \/ s[j] = sep})

IsEnd(s, sep, i, e) ==
  /\ e \in i .. Len(s) + 1
  /\ e = Len(s) + 1 \/ s[e] = sep
  /\ \A j \in i .. e - 1 : s[j] # sep

LEMMA EndUnique ==
  ASSUME NEW s \in Text, NEW sep, NEW i \in 1 .. Len(s) + 1, NEW e, IsEnd(s, sep, i, e)
  PROVE  PieceEnd(s, sep, i) = e
<1> DEFINE S == {j \in i .. Len(s) + 1 : j = Len(s) + 1 \/ s[j] = sep}
<1>0. Len(s) \in Nat
  BY DEF Text
<1>1. S \in SUBSET Nat
  BY <1>0
<1>2. e \in S
  BY DEF IsEnd
<1>3. \A y \in S : e <= y
  <2> TAKE y \in S
  <2>1. y \in i .. Len(s) + 1 /\ (y = Len(s) + 1 \/ s[y] = sep)
    OBVIOUS
  <2>2. y \notin i .. e - 1
    BY <1>0, <2>1 DEF IsEnd
  <2> QED
    BY <1>0, <2>1, <2>2 DEF IsEnd
<1> HIDE DEF S
<1>4. Min(S) = e
  BY <1>1, <1>2, <1>3, MinIs
<1> QED
  BY <1>4 DEF PieceEnd, S

LEMMA EndExists ==
  ASSUME NEW s \in Text, NEW sep, NEW i \in 1 .. Len(s) + 1
  PROVE  IsEnd(s, sep, i, PieceEnd(s, sep, i))
<1> DEFINE T == {j \in 0 .. Len(s) + 1 : j >= i /\ (j = Len(s) + 1 \/ s[j] = sep)}
<1>0. Len(s) \in Nat /\ Len(s) + 1 \in Int
  BY DEF Text
<1>1. T \subseteq 0 .. Len(s) + 1
  OBVIOUS
<1>2. Len(s) + 1 \in T
  BY <1>0
<1>3. PICK e \in T : \A y \in T : e <= y
  <2> HIDE DEF T
  <2> QED
    BY <1>0, <1>1, <1>2, Least
<1>4. e \in i .. Len(s) + 1 /\ (e = Len(s) + 1 \/ s[e] = sep)
  BY <1>0, <1>3
<1>5. ASSUME NEW j \in i .. e - 1 PROVE s[j] # sep
  <2>1. j \in 0 .. Len(s) + 1 /\ j >= i /\ ~ e <= j
    BY <1>0, <1>4
  <2> QED
    BY <1>3, <2>1
<1>6. IsEnd(s, sep, i, e)
  BY <1>4, <1>5 DEF IsEnd
<1> QED
  BY <1>6, EndUnique

\* What is behind x ends where it ends alone.
LEMMA EndBehind ==
  ASSUME NEW x \in Text, NEW t \in Text, NEW sep, NEW i \in 1 .. Len(t) + 1
  PROVE  PieceEnd(x \o t, sep, Len(x) + i) = Len(x) + PieceEnd(t, sep, i)
<1> DEFINE s == x \o t
           k == Len(x)
           e == PieceEnd(t, sep, i)
<1>0. /\ s \in Text /\ Len(s) = k + Len(t) /\ k \in Nat /\ Len(t) \in Nat
      /\ \A j \in 1 .. Len(t) : s[k + j] = t[j]
  BY JoinedText
<1>1. IsEnd(t, sep, i, e)
  BY EndExists
<1> HIDE DEF s, k, e
<1>2. e \in i .. Len(t) + 1 /\ (e = Len(t) + 1 \/ t[e] = sep) /\ \A j \in i .. e - 1 : t[j] # sep
  BY <1>1 DEF IsEnd
<1>3. k + e \in k + i .. Len(s) + 1
  BY <1>0, <1>2
<1>4. k + e = Len(s) + 1 \/ s[k + e] = sep
  <2>1. e # Len(t) + 1 => e \in 1 .. Len(t)
    BY <1>0, <1>2
  <2> QED
    BY <1>0, <1>2, <2>1
<1>5. \A j \in k + i .. (k + e) - 1 : s[j] # sep
  <2> TAKE j \in k + i .. (k + e) - 1
  <2>1. j - k \in i .. e - 1 /\ j - k \in 1 .. Len(t) /\ k + (j - k) = j
    BY <1>0, <1>2
  <2> QED
    BY <1>0, <1>2, <2>1
<1>6. IsEnd(s, sep, k + i, k + e)
  <2> DEFINE a == k + i
             b == k + e
  <2>1. b \in a .. Len(s) + 1
    BY <1>3
  <2>3. b = Len(s) + 1 \/ s[b] = sep
    BY <1>4
  <2>4. \A j \in a .. b - 1 : s[j] # sep
    BY <1>5
  <2>2. IsEnd(s, sep, a, b)
    <3> HIDE DEF a, b
    <3> QED
      BY <2>1, <2>3, <2>4 DEF IsEnd
  <2> QED
    BY <2>2
<1>7. k + i \in 1 .. Len(s) + 1
  BY <1>0
<1>8. PieceEnd(s, sep, k + i) = k + e
  BY <1>0, <1>6, <1>7, EndUnique
<1> QED
  BY <1>8 DEF s, k, e

PieceHead(s, sep) ==
  [i \in 1 .. Len(s) |-> IF PieceEnd(s, sep, i) = i THEN <<>>
                         ELSE <<SubSeq(s, i, PieceEnd(s, sep, i) - 1)>>]
PieceNext(s, sep) == [i \in 1 .. Len(s) |-> PieceEnd(s, sep, i) + 1]

LEMMA PieceForward ==
  ASSUME NEW s \in Text, NEW sep
  PROVE  Forward(Len(s), Len(s) + 2, PieceNext(s, sep))
<1>1. Len(s) \in Nat
  BY DEF Text
<1>2. ASSUME NEW i \in 1 .. Len(s) PROVE PieceNext(s, sep)[i] \in i + 1 .. Len(s) + 2
  <2>1. i \in 1 .. Len(s) + 1
    BY <1>1
  <2>2. PieceEnd(s, sep, i) \in i .. Len(s) + 1
    BY <2>1, EndExists DEF IsEnd
  <2>3. PieceNext(s, sep)[i] = PieceEnd(s, sep, i) + 1
    BY DEF PieceNext
  <2> QED
    BY <1>1, <2>2, <2>3
<1>3. Len(s) + 2 \in Nat /\ Len(s) < Len(s) + 2
  BY <1>1
<1> QED
  BY <1>1, <1>2, <1>3 DEF Forward

LEMMA PieceHeads ==
  ASSUME NEW s \in Text, NEW sep
  PROVE  \A i \in 1 .. Len(s) : PieceHead(s, sep)[i] \in Seq(Text)
<1> TAKE i \in 1 .. Len(s)
<1>0. Len(s) \in Nat /\ \A j \in 1 .. Len(s) : s[j] \in Chars
  BY DEF Text
<1> DEFINE e == PieceEnd(s, sep, i)
<1>1. e \in i .. Len(s) + 1
  <2>1. i \in 1 .. Len(s) + 1
    BY <1>0
  <2> QED
    BY <2>1, EndExists DEF IsEnd
<1>2. PieceHead(s, sep)[i] = IF e = i THEN <<>> ELSE <<SubSeq(s, i, e - 1)>>
  BY DEF PieceHead
<1> HIDE DEF e
<1>3. SubSeq(s, i, e - 1) \in Text
  <2>1. i \in Int /\ e - 1 \in Int /\ \A j \in i .. e - 1 : s[j] \in Chars
    BY <1>0, <1>1
  <2> QED
    BY <2>1, SubSeqProperties DEF Text
<1> DEFINE p == SubSeq(s, i, e - 1)
<1> HIDE DEF p
<1>4. PieceHead(s, sep)[i] = <<>> \/ PieceHead(s, sep)[i] = <<p>>
  BY <1>2 DEF p
<1>5. p \in Text
  BY <1>3 DEF p
<1>6. <<>> \in Seq(Text) /\ <<p>> \in Seq(Text)
  BY <1>5
<1> QED
  BY <1>4, <1>6

\* The recursive function of Pieces() exists, and is such a walk.
LEMMA PiecesAre ==
  ASSUME NEW s \in Text, NEW sep
  PROVE  \E f : /\ IsWalk(f, Len(s), Len(s) + 2, PieceHead(s, sep), PieceNext(s, sep))
                /\ Pieces(s, sep) = f[1]
<1> DEFINE End(i) == Min({j \in i .. Len(s) + 1 : j = Len(s) + 1 \/ s[j] = sep})
           Is(f) == f = [i \in 1 .. Len(s) + 2 |->
             IF i > Len(s) THEN <<>>
             ELSE (IF End(i) = i THEN <<>> ELSE <<SubSeq(s, i, End(i) - 1)>>) \o f[End(i) + 1]]
<1>1. Len(s) \in Nat
  BY DEF Text
<1>2. ASSUME NEW f PROVE IsWalk(f, Len(s), Len(s) + 2, PieceHead(s, sep), PieceNext(s, sep)) <=> Is(f)
  <2>1. ASSUME NEW i \in 1 .. Len(s) + 2, ~ i > Len(s)
        PROVE  PieceHead(s, sep)[i] \o f[PieceNext(s, sep)[i]] =
                 (IF End(i) = i THEN <<>> ELSE <<SubSeq(s, i, End(i) - 1)>>) \o f[End(i) + 1]
    <3>1. i \in 1 .. Len(s)
      BY <1>1, <2>1
    <3>2. PieceHead(s, sep)[i] = IF End(i) = i THEN <<>> ELSE <<SubSeq(s, i, End(i) - 1)>>
      BY <3>1 DEF PieceHead, PieceEnd
    <3>3. PieceNext(s, sep)[i] = End(i) + 1
      BY <3>1 DEF PieceNext, PieceEnd
    <3> HIDE DEF End
    <3> QED
      BY <3>2, <3>3
  <2>2. [i \in 1 .. Len(s) + 2 |->
           IF i > Len(s) THEN <<>> ELSE PieceHead(s, sep)[i] \o f[PieceNext(s, sep)[i]]]
        = [i \in 1 .. Len(s) + 2 |->
             IF i > Len(s) THEN <<>>
             ELSE (IF End(i) = i THEN <<>> ELSE <<SubSeq(s, i, End(i) - 1)>>) \o f[End(i) + 1]]
    <3> HIDE DEF End
    <3> QED
      BY <2>1
  <2> HIDE DEF End
  <2> QED
    BY <2>2 DEF IsWalk
<1>3. \E f : Is(f)
  <2> HIDE DEF Is
  <2> QED
    BY <1>2, PieceForward, WalkExists
<1> DEFINE from == CHOOSE f : Is(f)
<1>4. Is(from)
  <2> HIDE DEF Is
  <2> QED
    BY <1>3
<1>5. Pieces(s, sep) = from[1]
  BY DEF Pieces
<1> HIDE DEF from, Is
<1> QED
  BY <1>2, <1>4, <1>5

LEMMA PiecesType == ASSUME NEW s \in Text, NEW sep PROVE Pieces(s, sep) \in Seq(Text)
<1>1. PICK f : /\ IsWalk(f, Len(s), Len(s) + 2, PieceHead(s, sep), PieceNext(s, sep))
               /\ Pieces(s, sep) = f[1]
  BY PiecesAre
<1>2. Forward(Len(s), Len(s) + 2, PieceNext(s, sep))
  BY PieceForward
<1>3. \A i \in 1 .. Len(s) : PieceHead(s, sep)[i] \in Seq(Text)
  BY PieceHeads
<1>4. \A i \in 1 .. Len(s) + 2 : f[i] \in Seq(Text)
  BY <1>1, <1>2, <1>3, WalkType
<1>5. 1 \in 1 .. Len(s) + 2
  BY DEF Text
<1> QED
  BY <1>1, <1>4, <1>5

LEMMA PiecesOfNothing == \A sep : Pieces(<<>>, sep) = <<>>
<1> TAKE sep
<1>1. <<>> \in Text /\ Len(<<>>) = 0
  BY DEF Text
<1>2. PICK f : IsWalk(f, 0, 0 + 2, PieceHead(<<>>, sep), PieceNext(<<>>, sep)) /\ Pieces(<<>>, sep) = f[1]
  BY <1>1, PiecesAre
<1> QED
  BY <1>2 DEF IsWalk

\* What is behind the first separator is cut as it is alone.
LEMMA PiecesBehind ==
  ASSUME NEW x \in Text, NEW t \in Text, NEW sep, x # <<>>, PieceEnd(x \o t, sep, 1) = Len(x)
  PROVE  Pieces(x \o t, sep) = PieceHead(x \o t, sep)[1] \o Pieces(t, sep)
<1> DEFINE s == x \o t
           k == Len(x)
<1>0. /\ s \in Text /\ Len(s) = k + Len(t) /\ k \in Nat /\ Len(t) \in Nat /\ k > 0
  <2>1. k > 0
    BY DEF Text
  <2> QED
    BY <2>1, JoinedText
<1>1. PICK f : /\ IsWalk(f, Len(s), Len(s) + 2, PieceHead(s, sep), PieceNext(s, sep))
               /\ Pieces(s, sep) = f[1]
  BY <1>0, PiecesAre
<1>2. PICK g : /\ IsWalk(g, Len(t), Len(t) + 2, PieceHead(t, sep), PieceNext(t, sep))
               /\ Pieces(t, sep) = g[1]
  BY PiecesAre
<1>3. ASSUME NEW i \in 1 .. Len(t)
      PROVE  /\ PieceHead(s, sep)[k + i] = PieceHead(t, sep)[i]
             /\ PieceNext(s, sep)[k + i] = k + PieceNext(t, sep)[i]
  <2> DEFINE e == PieceEnd(t, sep, i)
             d == PieceEnd(s, sep, k + i)
  <2>1. i \in 1 .. Len(t) + 1 /\ k + i \in 1 .. Len(s)
    BY <1>0
  <2>2. d = k + e
    BY <2>1, EndBehind
  <2>3. e \in i .. Len(t) + 1
    BY <2>1, EndExists DEF IsEnd
  <2>4. /\ PieceHead(s, sep)[k + i] = IF d = k + i THEN <<>> ELSE <<SubSeq(s, k + i, d - 1)>>
        /\ PieceNext(s, sep)[k + i] = d + 1
    <3> HIDE DEF s, k
    <3> QED
      BY <2>1 DEF PieceHead, PieceNext
  <2>5. /\ PieceHead(t, sep)[i] = IF e = i THEN <<>> ELSE <<SubSeq(t, i, e - 1)>>
        /\ PieceNext(t, sep)[i] = e + 1
    BY DEF PieceHead, PieceNext
  <2> HIDE DEF d, e
  <2>6. d = k + i <=> e = i
    BY <1>0, <2>2, <2>3
  <2>7. SubSeq(s, k + i, d - 1) = SubSeq(t, i, e - 1)
    <3>1. e - 1 \in i - 1 .. Len(t) /\ d - 1 = k + (e - 1)
      BY <1>0, <2>2, <2>3
    <3> QED
      BY <2>1, <3>1, SubSeqBehind
  <2>8. d + 1 = k + (e + 1)
    BY <1>0, <2>2, <2>3
  <2> HIDE DEF s, k
  <2> QED
    BY <2>4, <2>5, <2>6, <2>7, <2>8
<1>4. Len(s) + 2 = k + (Len(t) + 2)
  BY <1>0
<1> HIDE DEF s, k
<1>5. \A i \in 1 .. Len(t) + 2 : f[k + i] = g[i]
  <2> DEFINE n == Len(t)
             m == Len(t) + 2
             n1 == Len(s)
             m1 == Len(s) + 2
             h == PieceHead(s, sep)
             x1 == PieceNext(s, sep)
             h2 == PieceHead(t, sep)
             x2 == PieceNext(t, sep)
  <2>1. Forward(n, m, x2) /\ k \in Nat
    BY <1>0, PieceForward
  <2>2. IsWalk(f, n1, m1, h, x1) /\ IsWalk(g, n, m, h2, x2)
    BY <1>1, <1>2
  <2>3. n1 = k + n /\ m1 = k + m
    BY <1>0, <1>4
  <2>4. \A i \in 1 .. n : h[k + i] = h2[i] /\ x1[k + i] = k + x2[i]
    BY <1>3
  <2>5. \A i \in 1 .. m : f[k + i] = g[i]
    <3> HIDE DEF n, m, n1, m1, h, x1, h2, x2
    <3> QED
      BY <2>1, <2>2, <2>3, <2>4, WalkSuffix
  <2> QED
    BY <2>5
<1>6. f[k + 1] = g[1]
  BY <1>0, <1>5
<1>7. f[1] = PieceHead(s, sep)[1] \o f[PieceNext(s, sep)[1]]
  <2>1. 1 \in 1 .. Len(s) + 2 /\ ~ 1 > Len(s)
    BY <1>0
  <2> QED
    BY <1>1, <2>1 DEF IsWalk
<1>8. PieceNext(s, sep)[1] = k + 1
  <2>1. 1 \in 1 .. Len(s)
    BY <1>0
  <2>2. PieceEnd(s, sep, 1) = k
    BY DEF s, k
  <2> QED
    BY <2>1, <2>2 DEF PieceNext
<1> QED
  BY <1>1, <1>2, <1>6, <1>7, <1>8 DEF s

\* A separator in front is passed over.
LEMMA PiecesSkip ==
  ASSUME NEW t \in Text, NEW sep \in Chars
  PROVE  Pieces(<<sep>> \o t, sep) = Pieces(t, sep)
<1> DEFINE x == <<sep>>
           s == x \o t
<1>1. x \in Text /\ Len(x) = 1 /\ x[1] = sep /\ x # <<>> /\ 1 \in 1 .. Len(x)
  BY DEF Text
<1> HIDE DEF x
<1>2. s \in Text /\ Len(s) = 1 + Len(t) /\ Len(t) \in Nat /\ s[1] = sep
  <2>1. \A i \in 1 .. Len(x) : s[i] = x[i]
    BY <1>1, JoinedText
  <2>2. s \in Text /\ Len(s) = Len(x) + Len(t) /\ Len(t) \in Nat
    BY <1>1, JoinedText
  <2> QED
    BY <1>1, <2>1, <2>2
<1> HIDE DEF s
<1>3. IsEnd(s, sep, 1, 1) /\ 1 \in 1 .. Len(s) + 1 /\ 1 \in 1 .. Len(s)
  BY <1>2 DEF IsEnd
<1>4. PieceEnd(s, sep, 1) = 1
  BY <1>2, <1>3, EndUnique
<1>5. PieceHead(s, sep)[1] = <<>>
  BY <1>3, <1>4 DEF PieceHead
<1>6. Pieces(s, sep) = PieceHead(s, sep)[1] \o Pieces(t, sep)
  <2>1. PieceEnd(s, sep, 1) = Len(x)
    BY <1>1, <1>4
  <2> QED
    BY <1>1, <2>1, PiecesBehind DEF s
<1>7. <<>> \o Pieces(t, sep) = Pieces(t, sep)
  BY PiecesType, ConcatEmptySeq
<1> QED
  BY <1>5, <1>6, <1>7 DEF s, x

\* A piece and the separator behind it.
LEMMA PiecesTake ==
  ASSUME NEW p \in Text, p # <<>>, NEW t \in Text, NEW sep \in Chars,
         \A i \in 1 .. Len(p) : p[i] # sep
  PROVE  Pieces((p \o <<sep>>) \o t, sep) = <<p>> \o Pieces(t, sep)
<1> DEFINE c == <<sep>>
           x == p \o c
           s == x \o t
<1>1. c \in Text /\ Len(c) = 1 /\ c[1] = sep
  BY DEF Text
<1>2. Len(p) \in Nat /\ Len(p) > 0
  BY DEF Text
<1> HIDE DEF c
<1>3. /\ x \in Text /\ Len(x) = Len(p) + 1 /\ \A i \in 1 .. Len(p) : x[i] = p[i]
      /\ x[Len(p) + 1] = sep
  <2>1. /\ x \in Text /\ Len(x) = Len(p) + Len(c) /\ \A i \in 1 .. Len(p) : x[i] = p[i]
        /\ \A i \in 1 .. Len(c) : x[Len(p) + i] = c[i]
    BY <1>1, JoinedText
  <2> HIDE DEF x
  <2> QED
    BY <1>1, <2>1
<1>4. x # <<>>
  <2> HIDE DEF x
  <2> QED
    BY <1>2, <1>3
<1>5. s = p \o (c \o t)
  BY <1>1, ConcatAssociative DEF Text
<1>6. SubSeq(s, 1, Len(p)) = p
  <2>1. c \o t \in Text
    BY <1>1, JoinedText
  <2> QED
    BY <1>5, <2>1, SubSeqFront
<1> HIDE DEF x
<1>7. /\ s \in Text /\ Len(s) = Len(p) + 1 + Len(t) /\ Len(t) \in Nat
      /\ \A i \in 1 .. Len(p) : s[i] = p[i]
      /\ s[Len(p) + 1] = sep
  <2>1. s \in Text /\ Len(s) = Len(x) + Len(t) /\ Len(t) \in Nat
    BY <1>3, JoinedText
  <2>2. \A i \in 1 .. Len(x) : s[i] = x[i]
    BY <1>3, JoinedText
  <2> HIDE DEF s
  <2>3. \A i \in 1 .. Len(p) : i \in 1 .. Len(x)
    BY <1>2, <1>3
  <2>4. Len(p) + 1 \in 1 .. Len(x)
    BY <1>2, <1>3
  <2> QED
    BY <1>3, <2>1, <2>2, <2>3, <2>4
<1> HIDE DEF s
<1> DEFINE e == Len(p) + 1
<1>8. IsEnd(s, sep, 1, e) /\ 1 \in 1 .. Len(s) + 1 /\ 1 \in 1 .. Len(s)
  <2>1. e \in 1 .. Len(s) + 1 /\ s[e] = sep
    BY <1>2, <1>7
  <2>2. \A j \in 1 .. e - 1 : s[j] # sep
    BY <1>2, <1>7
  <2>3. 1 \in 1 .. Len(s) + 1 /\ 1 \in 1 .. Len(s)
    BY <1>2, <1>7
  <2> HIDE DEF e
  <2> QED
    BY <2>1, <2>2, <2>3 DEF IsEnd
<1>9. PieceEnd(s, sep, 1) = e
  <2> HIDE DEF e
  <2> QED
    BY <1>7, <1>8, EndUnique
<1>10. PieceHead(s, sep)[1] = <<p>>
  <2>1. e # 1 /\ e - 1 = Len(p)
    BY <1>2
  <2>2. PieceHead(s, sep)[1] = <<SubSeq(s, 1, e - 1)>>
    <3> HIDE DEF e
    <3> QED
      BY <1>8, <1>9, <2>1 DEF PieceHead
  <2> QED
    BY <1>6, <2>1, <2>2
<1>11. Pieces(s, sep) = PieceHead(s, sep)[1] \o Pieces(t, sep)
  BY <1>3, <1>4, <1>9, PiecesBehind DEF s
<1> QED
  BY <1>10, <1>11 DEF s, x, c

\* The last piece has no separator behind it.
LEMMA PiecesLast ==
  ASSUME NEW p \in Text, p # <<>>, NEW sep, \A i \in 1 .. Len(p) : p[i] # sep
  PROVE  Pieces(p, sep) = <<p>>
<1>1. Len(p) \in Nat /\ Len(p) > 0
  BY DEF Text
<1>2. PICK f : /\ IsWalk(f, Len(p), Len(p) + 2, PieceHead(p, sep), PieceNext(p, sep))
               /\ Pieces(p, sep) = f[1]
  BY PiecesAre
<1> DEFINE e == Len(p) + 1
<1>3. /\ e \in 1 .. Len(p) + 1 /\ \A j \in 1 .. e - 1 : p[j] # sep
      /\ 1 \in 1 .. Len(p) + 1 /\ 1 \in 1 .. Len(p) /\ e # 1 /\ e - 1 = Len(p)
      /\ e + 1 = Len(p) + 2 /\ e + 1 \in 1 .. Len(p) + 2 /\ e + 1 > Len(p)
  BY <1>1
<1>4. e = Len(p) + 1
  OBVIOUS
<1> HIDE DEF e
<1>5. PieceEnd(p, sep, 1) = e
  <2>1. IsEnd(p, sep, 1, e)
    BY <1>3, <1>4 DEF IsEnd
  <2> QED
    BY <1>3, <2>1, EndUnique
<1>6. SubSeq(p, 1, e - 1) = p
  BY <1>3, SubSeqFull DEF Text
<1>7. PieceHead(p, sep)[1] = <<p>> /\ PieceNext(p, sep)[1] = e + 1
  BY <1>3, <1>5, <1>6 DEF PieceHead, PieceNext
<1>8. f[e + 1] = <<>>
  BY <1>2, <1>3 DEF IsWalk
<1>9. 1 \in 1 .. Len(p) + 2 /\ ~ 1 > Len(p)
  BY <1>1
<1>10. f[1] = <<p>> \o <<>>
  BY <1>2, <1>7, <1>8, <1>9 DEF IsWalk
<1> QED
  BY <1>2, <1>10, ConcatEmptySeq

-----------------------------------------------------------------------------
(* FlattenSeq() of the community modules.                                  *)

LEMMA FlattenIs ==
  ASSUME NEW q, NEW n \in Nat, n > 0, Len(q) = n
  PROVE  \E f : /\ f = [i \in 1 .. n |-> IF i = 1 THEN q[i] ELSE f[i - 1] \o q[i]]
                /\ FlattenSeq(q) = f[n]
<1> DEFINE Upto(f, k) == f = [i \in 1 .. k |-> IF i = 1 THEN q[i] ELSE f[i - 1] \o q[i]]
           T == {k \in 0 .. n : ~ \E f : Upto(f, k)}
<1>1. T = {}
  <2> SUFFICES ASSUME T # {} PROVE FALSE
    OBVIOUS
  <2>1. PICK k \in T : \A j \in T : k <= j
    <3>1. T \subseteq 0 .. n
      OBVIOUS
    <3>2. n \in Int
      OBVIOUS
    <3> HIDE DEF T
    <3> QED
      BY <3>1, <3>2, Least
  <2>2. k \in 0 .. n
    OBVIOUS
  <2>3. CASE k = 0
    <3> DEFINE f == [i \in 1 .. 0 |-> <<>>]
    <3>1. f = [i \in 1 .. 0 |-> IF i = 1 THEN q[i] ELSE f[i - 1] \o q[i]]
      OBVIOUS
    <3>2. Upto(f, k)
      BY <2>3, <3>1
    <3> HIDE DEF f, Upto
    <3> QED
      BY <3>2
  <2>4. CASE k # 0
    <3>0. k - 1 \in 0 .. n /\ ~ (k <= k - 1)
      BY <2>2, <2>4
    <3>1. k - 1 \in 0 .. n /\ k - 1 \notin T
      <4> HIDE DEF T
      <4> QED
        BY <2>1, <3>0
    <3>2. PICK g : Upto(g, k - 1)
      BY <3>1
    <3> DEFINE f == [i \in 1 .. k |->
                       IF i = k THEN (IF i = 1 THEN q[i] ELSE g[i - 1] \o q[i]) ELSE g[i]]
    <3>3. \A i \in 1 .. k - 1 : f[i] = g[i]
      BY <2>2
    <3>4. \A i \in 1 .. k : f[i] = IF i = 1 THEN q[i] ELSE f[i - 1] \o q[i]
      <4> TAKE i \in 1 .. k
      <4>1. CASE i = 1
        <5>1. i # k => i \in 1 .. k - 1
          BY <2>2
        <5>2. i # k => g[i] = q[i]
          BY <3>2, <4>1, <5>1
        <5> QED
          BY <4>1, <5>2
      <4>2. CASE i # 1
        <5>1. i - 1 \in 1 .. k - 1
          BY <2>2, <4>2
        <5>2. f[i - 1] = g[i - 1]
          BY <3>3, <5>1
        <5>3. i # k => i \in 1 .. k - 1
          BY <2>2
        <5>4. i # k => g[i] = g[i - 1] \o q[i]
          BY <3>2, <4>2, <5>3
        <5>5. f[i] = g[i - 1] \o q[i]
          BY <4>2, <5>4
        <5> HIDE DEF f
        <5> QED
          BY <4>2, <5>2, <5>5
      <4> QED
        BY <4>1, <4>2
    <3>5. Upto(f, k)
      <4>1. f = [i \in 1 .. k |-> f[i]]
        OBVIOUS
      <4> HIDE DEF f
      <4> QED
        BY <3>4, <4>1
    <3> HIDE DEF f, Upto
    <3> QED
      BY <3>5
  <2> QED
    BY <2>3, <2>4
<1>2. n \in 0 .. n /\ n \notin T
  <2> HIDE DEF T
  <2> QED
    BY <1>1
<1>3. \E f : Upto(f, n)
  BY <1>2
<1> DEFINE flatten == CHOOSE f : Upto(f, n)
<1>4. Upto(flatten, n)
  <2> HIDE DEF Upto
  <2> QED
    BY <1>3
<1>5. FlattenSeq(q) = flatten[n]
  BY DEF FlattenSeq
<1> HIDE DEF flatten
<1> QED
  BY <1>4, <1>5

\* What holds of nothing, and of the pieces up to i if it holds of those before, holds
\* of all of them.  Good is a set of pairs, of how many pieces there are and the text.
LEMMA FlattenInduction ==
  ASSUME NEW q \in Seq(Text), NEW Good, <<0, <<>> >> \in Good,
         \A i \in 1 .. Len(q), x \in Text : <<i - 1, x>> \in Good => <<i, x \o q[i]>> \in Good
  PROVE  /\ <<Len(q), FlattenSeq(q)>> \in Good
         /\ FlattenSeq(q) \in Text
<1> DEFINE n == Len(q)
<1>0. n \in Nat /\ <<>> \in Text /\ \A i \in 1 .. n : q[i] \in Text
  BY DEF Text
<1>1. CASE n = 0
  <2>1. FlattenSeq(q) = q /\ q = <<>>
    BY <1>1 DEF FlattenSeq
  <2> QED
    BY <1>0, <1>1, <2>1
<1>2. CASE n # 0
  <2>0. Len(q) = n /\ n \in Nat /\ n > 0
    BY <1>0, <1>2
  <2> HIDE DEF n
  <2>1. PICK f : /\ f = [i \in 1 .. n |-> IF i = 1 THEN q[i] ELSE f[i - 1] \o q[i]]
                 /\ FlattenSeq(q) = f[n]
    BY <2>0, FlattenIs
  <2> DEFINE T == {i \in 0 .. n : i > 0 /\ ~ (f[i] \in Text /\ <<i, f[i]>> \in Good)}
  <2>2. T = {}
    <3> SUFFICES ASSUME T # {} PROVE FALSE
      OBVIOUS
    <3>1. PICK i \in T : \A j \in T : i <= j
      <4>1. T \subseteq 0 .. n /\ n \in Int
        BY <1>0
      <4> HIDE DEF T
      <4> QED
        BY <4>1, Least
    <3>2. i \in 1 .. n /\ ~ (f[i] \in Text /\ <<i, f[i]>> \in Good)
      BY <1>0
    <3>3. CASE i = 1
      <4>1. f[1] = q[1] /\ q[1] \in Text /\ 1 \in 1 .. n /\ 1 - 1 = 0
        BY <1>0, <2>1, <3>2, <3>3
      <4>2. <<>> \o q[1] = q[1]
        BY <4>1, ConcatEmptySeq DEF Text
      <4>3. <<1, <<>> \o q[1]>> \in Good
        BY <1>0, <4>1 DEF n
      <4> QED
        BY <3>2, <3>3, <4>1, <4>2, <4>3
    <3>4. CASE i # 1
      <4>1. i - 1 \in 0 .. n /\ i - 1 > 0 /\ ~ (i <= i - 1)
        BY <3>2, <3>4, <1>0
      <4>2. i - 1 \notin T
        <5> HIDE DEF T
        <5> QED
          BY <3>1, <4>1
      <4>3. f[i - 1] \in Text /\ <<i - 1, f[i - 1]>> \in Good
        BY <4>1, <4>2
      <4>4. f[i] = f[i - 1] \o q[i]
        BY <2>1, <3>2, <3>4
      <4>5. <<i, f[i - 1] \o q[i]>> \in Good
        BY <3>2, <4>3 DEF n
      <4>6. f[i - 1] \o q[i] \in Text
        BY <1>0, <3>2, <4>3, JoinedText
      <4> QED
        BY <3>2, <4>4, <4>5, <4>6
    <3> QED
      BY <3>3, <3>4
  <2>3. n \in 0 .. n /\ n > 0
    BY <1>0, <1>2
  <2>4. f[n] \in Text /\ <<n, f[n]>> \in Good
    BY <2>2, <2>3
  <2> QED
    BY <2>1, <2>4 DEF n
<1> QED
  BY <1>1, <1>2

LEMMA Prefix ==
  ASSUME NEW C, NEW s \in Seq(C)
  PROVE  /\ SubSeq(s, 1, 0) = <<>> /\ SubSeq(s, 1, Len(s)) = s
         /\ \A i \in 1 .. Len(s) : SubSeq(s, 1, i) = SubSeq(s, 1, i - 1) \o <<s[i]>>
<1>1. SubSeq(s, 1, 0) = <<>>
  BY SubSeqEmpty
<1>2. SubSeq(s, 1, Len(s)) = s
  BY SubSeqFull
<1>3. ASSUME NEW i \in 1 .. Len(s) PROVE SubSeq(s, 1, i) = SubSeq(s, 1, i - 1) \o <<s[i]>>
  <2>1. 1 \in 1 .. Len(s) /\ i \in 1 .. Len(s)
    OBVIOUS
  <2> QED
    BY <2>1, SubSeqRecursiveSecond
<1> QED
  BY <1>1, <1>2, <1>3

LEMMA PrefixType ==
  ASSUME NEW C, NEW s \in Seq(C), NEW i \in 0 .. Len(s)
  PROVE  SubSeq(s, 1, i) \in Seq(C) /\ Len(SubSeq(s, 1, i)) = i
<1>1. 1 \in Int /\ i \in Int /\ \A j \in 1 .. i : s[j] \in C
  OBVIOUS
<1>2. SubSeq(s, 1, i) \in Seq(C) /\ Len(SubSeq(s, 1, i)) = IF 1 <= i THEN i - 1 + 1 ELSE 0
  BY <1>1, SubSeqProperties
<1> QED
  BY <1>2

-----------------------------------------------------------------------------
(* What a client writes is read as it was meant.                           *)

Unmarked(w) == \A i \in 1 .. Len(w) : w[i] \notin {"?", "&", "="}

\* t completes no escape.
Soft(t) == t = <<>> \/ t[1] \notin HexDigits

\* w is decoded to text, whatever soft text is behind it; or whatever text at all.
Spells(w, text) ==
  /\ w \in Text /\ Unmarked(w)
  /\ \A t \in Text : Soft(t) => url_decode(w \o t) = text \o url_decode(t)
SpellsAnywhere(w, text) ==
  /\ w \in Text /\ Unmarked(w)
  /\ \A t \in Text : url_decode(w \o t) = text \o url_decode(t)

\* The codes one by one.
LEMMA CodeCases ==
  ASSUME NEW d \in Codes
  PROVE  \/ d[1] = " " /\ d[2] = "2" /\ d[3] = "0"
         \/ d[1] = "%" /\ d[2] = "2" /\ d[3] = "5"
         \/ d[1] = "&" /\ d[2] = "2" /\ d[3] = "6"
         \/ d[1] = "+" /\ d[2] = "2" /\ d[3] = "B"
         \/ d[1] = "+" /\ d[2] = "2" /\ d[3] = "b"
         \/ d[1] = "." /\ d[2] = "2" /\ d[3] = "E"
         \/ d[1] = "." /\ d[2] = "2" /\ d[3] = "e"
         \/ d[1] = "=" /\ d[2] = "3" /\ d[3] = "D"
         \/ d[1] = "=" /\ d[2] = "3" /\ d[3] = "d"
         \/ d[1] = "?" /\ d[2] = "3" /\ d[3] = "F"
         \/ d[1] = "?" /\ d[2] = "3" /\ d[3] = "f"
         \/ d[1] = "a" /\ d[2] = "6" /\ d[3] = "1"
<1>1. CASE d = <<" ", "2", "0">>
  BY <1>1
<1>2. CASE d = <<"%", "2", "5">>
  BY <1>2
<1>3. CASE d = <<"&", "2", "6">>
  BY <1>3
<1>4. CASE d = <<"+", "2", "B">>
  BY <1>4
<1>5. CASE d = <<"+", "2", "b">>
  BY <1>5
<1>6. CASE d = <<".", "2", "E">>
  BY <1>6
<1>7. CASE d = <<".", "2", "e">>
  BY <1>7
<1>8. CASE d = <<"=", "3", "D">>
  BY <1>8
<1>9. CASE d = <<"=", "3", "d">>
  BY <1>9
<1>10. CASE d = <<"?", "3", "F">>
  BY <1>10
<1>11. CASE d = <<"?", "3", "f">>
  BY <1>11
<1>12. CASE d = <<"a", "6", "1">>
  BY <1>12
<1> QED
  BY <1>1, <1>2, <1>3, <1>4, <1>5, <1>6, <1>7, <1>8, <1>9, <1>10, <1>11, <1>12 DEF Codes

LEMMA CodesAre ==
  /\ \A d \in Codes : d[2] \in HexDigits /\ d[3] \in HexDigits /\ d[1] \in Chars
  /\ \A c, d \in Codes : c[2] = d[2] /\ c[3] = d[3] => c[1] = d[1]
<1>1. ASSUME NEW d \in Codes PROVE d[2] \in HexDigits /\ d[3] \in HexDigits
  BY CodeCases DEF HexDigits
<1>2. \A d \in Codes : d[1] \in Chars
  BY DEF Chars
<1>3. ASSUME NEW c \in Codes, NEW d \in Codes, c[2] = d[2], c[3] = d[3] PROVE c[1] = d[1]
  BY <1>3, CodeCases
<1> QED
  BY <1>1, <1>2, <1>3

LEMMA CodeOf == ASSUME NEW d \in Codes PROVE CharOf(d[2], d[3]) = d[1]
<1> DEFINE known == {c \in Codes : c[2] = d[2] /\ c[3] = d[3]}
           c == CHOOSE c \in known : TRUE
<1>1. d \in known
  OBVIOUS
<1>2. c \in known
  BY <1>1
<1>3. c \in Codes /\ c[2] = d[2] /\ c[3] = d[3]
  BY <1>2
<1>4. CharOf(d[2], d[3]) = c[1]
  BY <1>1 DEF CharOf
<1> QED
  BY <1>3, <1>4, CodesAre

LEMMA Escaped == \A c \in {"%", "+", "&", "=", "?"} : \E d \in Codes : d[1] = c /\ c \notin {"a", "."}
  BY DEF Codes

LEMMA BlankEscaped == \E d \in Codes : d[1] = " "
  BY DEF Codes

\* A character, escaped where it must be.
LEMMA SpeltSpells ==
  ASSUME NEW c \in Chars, NEW style \in {"all", "form"}
  PROVE  SpellsAnywhere(Spelt(c, style), <<c>>)
<1> DEFINE special == {d \in Codes : d[1] = c /\ (style = "all" \/ c \notin {"a", "."})}
           one == <<c>>
<1>0. one \in Text /\ Len(one) = 1 /\ one[1] = c
  BY DEF Text
<1>1. CASE style = "form" /\ c = " "
  <2> DEFINE w == <<"+">>
  <2>1. w \in Text /\ Len(w) = 1 /\ w[1] = "+" /\ "+" \in Chars
    <3>1. "+" \in Chars
      BY CharsHave DEF Marks
    <3> QED
      BY <3>1 DEF Text
  <2>2. Unmarked(w)
    BY <2>1 DEF Unmarked
  <2>3. ASSUME NEW t \in Text PROVE url_decode(w \o t) = <<c>> \o url_decode(t)
    <3>1. ~ Escape(w \o t, 1)
      <4>1. (w \o t)[1] = "+"
        <5>1. 1 \in 1 .. Len(w)
          BY <2>1
        <5> QED
          BY <2>1, <5>1, JoinedText
      <4> QED
        BY <4>1 DEF Escape
    <3> QED
      BY <1>1, <2>1, <3>1, DecodeOne
  <2>4. Spelt(c, style) = w
    BY <1>1 DEF Spelt
  <2> HIDE DEF w
  <2> QED
    BY <2>1, <2>2, <2>3, <2>4 DEF SpellsAnywhere
<1>2. CASE ~ (style = "form" /\ c = " ") /\ special = {}
  <2>1. c \notin {"%", "+", "&", "=", "?"}
    BY <1>2, Escaped
  <2>3. Unmarked(one)
    BY <1>0, <2>1 DEF Unmarked
  <2>4. ASSUME NEW t \in Text PROVE url_decode(one \o t) = <<c>> \o url_decode(t)
    <3>1. ~ Escape(one \o t, 1)
      <4>1. (one \o t)[1] = c
        <5>1. 1 \in 1 .. Len(one)
          BY <1>0
        <5> QED
          BY <1>0, <5>1, JoinedText
      <4> QED
        BY <2>1, <4>1 DEF Escape
    <3> QED
      BY <2>1, <3>1, DecodeOne
  <2>5. Spelt(c, style) = one
    BY <1>2 DEF Spelt
  <2> HIDE DEF one
  <2> QED
    BY <1>0, <2>3, <2>4, <2>5 DEF SpellsAnywhere
<1>3. CASE ~ (style = "form" /\ c = " ") /\ special # {}
  <2> DEFINE d == CHOOSE d \in special : TRUE
             w == <<"%", d[2], d[3]>>
  <2>1. d \in special
    BY <1>3
  <2>2. d \in Codes /\ d[1] = c
    BY <2>1
  <2>3. d[2] \in HexDigits /\ d[3] \in HexDigits /\ CharOf(d[2], d[3]) = c
    BY <2>2, CodesAre, CodeOf
  <2>4. Spelt(c, style) = w
    BY <1>3 DEF Spelt
  <2> HIDE DEF d
  <2>5. w \in Text /\ Len(w) = 3 /\ w[1] = "%" /\ w[2] = d[2] /\ w[3] = d[3]
    <3>1. "%" \in Chars /\ d[2] \in Chars /\ d[3] \in Chars
      BY <2>3, CharsHave DEF Marks
    <3> QED
      BY <3>1 DEF Text
  <2>6. Unmarked(w)
    <3>1. \A h \in HexDigits : h \notin {"?", "&", "="}
      BY DEF HexDigits
    <3> HIDE DEF w
    <3>2. \A i \in 1 .. 3 : w[i] \notin {"?", "&", "="}
      BY <2>3, <2>5, <3>1
    <3> QED
      BY <2>5, <3>2 DEF Unmarked
  <2>7. ASSUME NEW t \in Text PROVE url_decode(w \o t) = <<c>> \o url_decode(t)
    BY <2>3, DecodeEscape
  <2> HIDE DEF w
  <2> QED
    BY <2>4, <2>5, <2>6, <2>7 DEF SpellsAnywhere
<1> QED
  BY <1>1, <1>2, <1>3

LEMMA SpellsNothing == SpellsAnywhere(<<>>, <<>>)
<1>1. <<>> \in Text /\ Len(<<>>) = 0
  BY DEF Text
<1>2. Unmarked(<<>>)
  BY DEF Unmarked
<1>3. \A t \in Text : url_decode(<<>> \o t) = <<>> \o url_decode(t)
  <2> TAKE t \in Text
  <2>1. url_decode(t) \in Text
    BY DecodeType
  <2>2. <<>> \o t = t /\ <<>> \o url_decode(t) = url_decode(t)
    BY <2>1, ConcatEmptySeq DEF Text
  <2> QED
    BY <2>2
<1> QED
  BY <1>1, <1>2, <1>3 DEF SpellsAnywhere

LEMMA UnmarkedBoth ==
  ASSUME NEW v \in Text, NEW w \in Text, Unmarked(v), Unmarked(w)
  PROVE  Unmarked(v \o w)
<1> DEFINE s == v \o w
<1>0. /\ s \in Text /\ Len(s) = Len(v) + Len(w) /\ Len(v) \in Nat /\ Len(w) \in Nat
      /\ \A i \in 1 .. Len(v) : s[i] = v[i]
      /\ \A i \in 1 .. Len(w) : s[Len(v) + i] = w[i]
  BY JoinedText
<1> HIDE DEF s
<1>1. ASSUME NEW i \in 1 .. Len(s) PROVE s[i] \notin {"?", "&", "="}
  <2>1. CASE i <= Len(v)
    <3>1. i \in 1 .. Len(v)
      BY <1>0, <2>1
    <3> QED
      BY <1>0, <3>1 DEF Unmarked
  <2>2. CASE ~ i <= Len(v)
    <3>1. i - Len(v) \in 1 .. Len(w) /\ Len(v) + (i - Len(v)) = i
      BY <1>0, <2>2
    <3>2. s[i] = w[i - Len(v)]
      BY <1>0, <3>1
    <3> QED
      BY <3>1, <3>2 DEF Unmarked
  <2> QED
    BY <2>1, <2>2
<1> QED
  BY <1>1 DEF Unmarked, s

\* One spelling behind the other.
LEMMA SpellsBoth ==
  ASSUME NEW v, NEW w, NEW a \in Text, NEW b \in Text,
         SpellsAnywhere(v, a), SpellsAnywhere(w, b)
  PROVE  SpellsAnywhere(v \o w, a \o b)
<1>1. v \in Text /\ w \in Text /\ Unmarked(v) /\ Unmarked(w)
  BY DEF SpellsAnywhere
<1>2. v \o w \in Text /\ Unmarked(v \o w)
  BY <1>1, UnmarkedBoth, JoinedText
<1>3. ASSUME NEW t \in Text PROVE url_decode((v \o w) \o t) = (a \o b) \o url_decode(t)
  <2>1. w \o t \in Text /\ url_decode(t) \in Text
    BY <1>1, JoinedText, DecodeType
  <2>2. (v \o w) \o t = v \o (w \o t)
    BY <1>1, ConcatAssociative DEF Text
  <2>3. url_decode(v \o (w \o t)) = a \o url_decode(w \o t)
    BY <2>1 DEF SpellsAnywhere
  <2>4. url_decode(w \o t) = b \o url_decode(t)
    BY DEF SpellsAnywhere
  <2>5. a \o (b \o url_decode(t)) = (a \o b) \o url_decode(t)
    BY <2>1, ConcatAssociative DEF Text
  <2> QED
    BY <2>2, <2>3, <2>4, <2>5
<1> QED
  BY <1>2, <1>3 DEF SpellsAnywhere

LEMMA TextUnit == ASSUME NEW c \in Chars PROVE <<c>> \in Text /\ Len(<<c>>) = 1 /\ <<c>>[1] = c
  BY DEF Text

LEMMA TextJoin ==
  ASSUME NEW x \in Text, NEW y \in Text
  PROVE  x \o y \in Text /\ <<>> \in Text /\ <<>> \o y = y /\ x \o <<>> = x
<1>1. x \in Seq(Chars) /\ y \in Seq(Chars)
  BY DEF Text
<1>2. x \o y \in Text
  BY JoinedText
<1>3. <<>> \in Text
  BY DEF Text
<1> QED
  BY <1>1, <1>2, <1>3, ConcatEmptySeq

LEMMA TextAssoc ==
  ASSUME NEW x \in Text, NEW y \in Text, NEW z \in Text
  PROVE  (x \o y) \o z = x \o (y \o z)
<1>1. x \in Seq(Chars) /\ y \in Seq(Chars) /\ z \in Seq(Chars)
  BY DEF Text
<1> QED
  BY <1>1, ConcatAssociative

LEMMA TextCons ==
  ASSUME NEW c \in Chars, NEW x \in Text, NEW t \in Text
  PROVE  /\ (<<c>> \o x) \o t = <<c>> \o (x \o t)
         /\ (x \o <<c>>) \o t = x \o (<<c>> \o t)
         /\ <<c>> \o x \in Text /\ x \o <<c>> \in Text /\ x \o t \in Text
<1> DEFINE y == <<c>>
<1>1. y \in Text
  BY TextUnit
<1> HIDE DEF y
<1>2. /\ (y \o x) \o t = y \o (x \o t)
      /\ (x \o y) \o t = x \o (y \o t)
      /\ y \o x \in Text /\ x \o y \in Text /\ x \o t \in Text
  BY <1>1, TextAssoc, TextJoin
<1> QED
  BY <1>2 DEF y

LEMMA TextPrefix ==
  ASSUME NEW s \in Text, NEW n, n = Len(s)
  PROVE  /\ n \in Nat /\ DOMAIN s = 1 .. n /\ \A i \in 1 .. n : s[i] \in Chars
         /\ SubSeq(s, 1, 0) = <<>> /\ SubSeq(s, 1, n) = s
         /\ \A i \in 1 .. n : SubSeq(s, 1, i) = SubSeq(s, 1, i - 1) \o <<s[i]>>
         /\ \A i \in 0 .. n : SubSeq(s, 1, i) \in Text /\ Len(SubSeq(s, 1, i)) = i
<1>1. s \in Seq(Chars)
  BY DEF Text
<1>2. n \in Nat /\ DOMAIN s = 1 .. n /\ \A i \in 1 .. n : s[i] \in Chars
  BY <1>1
<1>3. /\ SubSeq(s, 1, 0) = <<>> /\ SubSeq(s, 1, n) = s
      /\ \A i \in 1 .. n : SubSeq(s, 1, i) = SubSeq(s, 1, i - 1) \o <<s[i]>>
  BY <1>1, Prefix
<1>4. \A i \in 0 .. n : SubSeq(s, 1, i) \in Text /\ Len(SubSeq(s, 1, i)) = i
  BY <1>1, PrefixType DEF Text
<1> QED
  BY <1>2, <1>3, <1>4

LEMMA SpeltType ==
  ASSUME NEW c \in Chars, NEW style \in {"all", "form"}
  PROVE  Spelt(c, style) \in Text
  BY SpeltSpells DEF SpellsAnywhere

LEMMA WrittenSpells ==
  ASSUME NEW text \in Text, NEW style \in {"all", "form"}
  PROVE  SpellsAnywhere(Written(text, style), text)
<1> DEFINE q == [i \in DOMAIN text |-> Spelt(text[i], style)]
           n == Len(text)
           Good == {p \in Nat \X Text :
                      p[1] \in 0 .. n /\ SpellsAnywhere(p[2], SubSeq(text, 1, p[1]))}
<1>0. n \in Nat /\ DOMAIN text = 1 .. n /\ (\A i \in 1 .. n : text[i] \in Chars) /\ text \in Seq(Chars)
  BY DEF Text
<1>1. q \in Seq(Text) /\ Len(q) = n /\ \A i \in 1 .. n : q[i] = Spelt(text[i], style)
  <2>1. \A i \in 1 .. n : Spelt(text[i], style) \in Text
    BY <1>0, SpeltType
  <2>2. q = [i \in 1 .. n |-> Spelt(text[i], style)]
    BY <1>0
  <2> HIDE DEF n
  <2> QED
    BY <1>0, <2>1, <2>2
<1> HIDE DEF q, n
<1>2. <<0, <<>> >> \in Good
  <2>1. SubSeq(text, 1, 0) = <<>> /\ <<>> \in Text /\ 0 \in 0 .. n /\ 0 \in Nat
    BY <1>0, TextPrefix, TextJoin DEF n
  <2>2. SpellsAnywhere(<<>>, SubSeq(text, 1, 0))
    BY <2>1, SpellsNothing
  <2> QED
    BY <2>1, <2>2
<1>3. ASSUME NEW i \in 1 .. n, NEW x \in Text, <<i - 1, x>> \in Good PROVE <<i, x \o q[i]>> \in Good
  <2>1. i - 1 \in 0 .. n /\ SpellsAnywhere(x, SubSeq(text, 1, i - 1))
    BY <1>3
  <2>2. SpellsAnywhere(q[i], <<text[i]>>)
    BY <1>0, <1>1, SpeltSpells
  <2>3. SubSeq(text, 1, i) = SubSeq(text, 1, i - 1) \o <<text[i]>>
    BY <1>0, Prefix DEF n
  <2>4. SubSeq(text, 1, i - 1) \in Text /\ <<text[i]>> \in Text
    <3>1. SubSeq(text, 1, i - 1) \in Text
      BY <1>0, <2>1, PrefixType DEF n, Text
    <3>2. text[i] \in Chars
      BY <1>0
    <3> QED
      BY <3>1, <3>2 DEF Text
  <2>5. SpellsAnywhere(x \o q[i], SubSeq(text, 1, i))
    BY <2>1, <2>2, <2>3, <2>4, SpellsBoth
  <2>6. x \o q[i] \in Text /\ i \in 0 .. n /\ i \in Nat
    BY <1>0, <2>5 DEF SpellsAnywhere
  <2> QED
    BY <2>5, <2>6
<1>4. <<Len(q), FlattenSeq(q)>> \in Good
  <2> HIDE DEF Good
  <2>1. \A i \in 1 .. Len(q), x \in Text : <<i - 1, x>> \in Good => <<i, x \o q[i]>> \in Good
    BY <1>1, <1>3
  <2> QED
    BY <1>1, <1>2, <2>1, FlattenInduction
<1>5. SpellsAnywhere(FlattenSeq(q), SubSeq(text, 1, n))
  BY <1>1, <1>4
<1>6. SubSeq(text, 1, n) = text
  BY <1>0, Prefix DEF n
<1>7. Written(text, style) = FlattenSeq(q)
  BY DEF Written, q
<1> QED
  BY <1>5, <1>6, <1>7

\* A text that looks like no escape is decoded to itself.
LEMMA BareDecoded ==
  ASSUME NEW text \in Text, Bare(text), NEW t \in Text, Soft(t)
  PROVE  url_decode(text \o t) = text \o url_decode(t)
<1> DEFINE n == Len(text)
           From(i) == SubSeq(text, i + 1, n) \o t
           T == {i \in 0 .. n : url_decode(text \o t) # SubSeq(text, 1, i) \o url_decode(From(i))}
<1>0. /\ n \in Nat /\ (\A i \in 1 .. n : text[i] \in Chars) /\ text \in Seq(Chars) /\ t \in Seq(Chars)
      /\ DOMAIN text = 1 .. n
  BY DEF Text
<1>1. T = {}
  <2> SUFFICES ASSUME T # {} PROVE FALSE
    OBVIOUS
  <2>1. PICK i \in T : \A j \in T : i <= j
    <3>1. T \subseteq 0 .. n
      OBVIOUS
    <3>2. n \in Int
      BY <1>0
    <3> HIDE DEF T
    <3> QED
      BY <3>1, <3>2, Least
  <2>2. i \in 0 .. n /\ url_decode(text \o t) # SubSeq(text, 1, i) \o url_decode(From(i))
    OBVIOUS
  <2>3. CASE i = 0
    <3>1. From(0) = text \o t /\ SubSeq(text, 1, 0) = <<>>
      <4>1. SubSeq(text, 1, 0) = <<>> /\ SubSeq(text, 1, n) = text /\ 0 + 1 = 1
        BY TextPrefix
      <4> HIDE DEF n
      <4> QED
        BY <4>1
    <3>2. url_decode(text \o t) \in Text
      BY JoinedText, DecodeType
    <3>3. <<>> \o url_decode(text \o t) = url_decode(text \o t)
      BY <3>2, ConcatEmptySeq DEF Text
    <3> HIDE DEF From
    <3> QED
      BY <2>2, <2>3, <3>1, <3>3
  <2>4. CASE i # 0
    <3> DEFINE c == text[i]
               R == SubSeq(text, i + 1, n)
    <3>0. i \in 1 .. n /\ i - 1 \in 0 .. n /\ ~ (i <= i - 1) /\ i - 1 + 1 = i /\ c \in Chars
      BY <1>0, <2>2, <2>4
    <3>1. i - 1 \notin T
      <4> HIDE DEF T
      <4> QED
        BY <2>1, <3>0
    <3>2. url_decode(text \o t) = SubSeq(text, 1, i - 1) \o url_decode(SubSeq(text, i, n) \o t)
      BY <3>0, <3>1
    <3>3. SubSeq(text, i, n) = <<c>> \o R
      BY <1>0, <3>0, SubSeqRecursiveFirst
    <3>4. R \in Text /\ Len(R) = n - i /\ \A j \in 1 .. n - i : R[j] = text[i + j]
      <4>1. i + 1 \in Int /\ n \in Int /\ \A j \in i + 1 .. n : text[j] \in Chars
        BY <1>0, <3>0
      <4>2. /\ R \in Seq(Chars) /\ Len(R) = (IF i + 1 <= n THEN n - (i + 1) + 1 ELSE 0)
            /\ \A j \in 1 .. n - (i + 1) + 1 : R[j] = text[i + 1 + j - 1]
        <5> HIDE DEF n
        <5> QED
          BY <4>1, SubSeqProperties
      <4> HIDE DEF R, n
      <4>3. \A j \in 1 .. n - i : j \in 1 .. n - (i + 1) + 1 /\ i + 1 + j - 1 = i + j
        BY <1>0, <3>0
      <4>4. Len(R) = n - i
        BY <1>0, <3>0, <4>2
      <4> QED
        BY <4>2, <4>3, <4>4 DEF Text
    <3>5. (<<c>> \o R) \o t = <<c>> \o (R \o t) /\ R \o t \in Text
      <4> HIDE DEF c, R
      <4> QED
        BY <3>0, <3>4, TextCons
    <3> HIDE DEF R, n
    <3>6. ~ Escape(<<c>> \o (R \o t), 1)
      <4> DEFINE u == R \o t
                 s == <<c>> \o u
      <4>1. /\ u \in Text /\ Len(u) = n - i + Len(t) /\ Len(t) \in Nat
            /\ (\A j \in 1 .. n - i : u[j] = text[i + j]) /\ (\A j \in 1 .. Len(t) : u[n - i + j] = t[j])
        <5>1. /\ u \in Text /\ Len(u) = Len(R) + Len(t) /\ Len(t) \in Nat
              /\ \A j \in 1 .. Len(R) : u[j] = R[j]
              /\ \A j \in 1 .. Len(t) : u[Len(R) + j] = t[j]
          BY <3>4, JoinedText
        <5> HIDE DEF u
        <5> QED
          BY <3>4, <5>1
      <4> HIDE DEF u
      <4>2. Len(s) = 1 + Len(u) /\ s[1] = c /\ \A j \in 1 .. Len(u) : s[1 + j] = u[j]
        <5> DEFINE x == <<c>>
        <5>1. x \in Text /\ Len(x) = 1 /\ x[1] = c /\ 1 \in 1 .. Len(x)
          BY <3>0 DEF Text
        <5> HIDE DEF x
        <5>2. /\ Len(x \o u) = Len(x) + Len(u)
              /\ \A j \in 1 .. Len(x) : (x \o u)[j] = x[j]
              /\ \A j \in 1 .. Len(u) : (x \o u)[Len(x) + j] = u[j]
          BY <4>1, <5>1, JoinedText
        <5>3. s = x \o u
          BY DEF x
        <5> QED
          BY <5>1, <5>2, <5>3
      <4> HIDE DEF s
      <4> SUFFICES ASSUME Escape(s, 1) PROVE FALSE
        BY DEF s, u
      <4>3. c = "%" /\ 1 + 2 <= Len(s) /\ s[1 + 1] \in HexDigits /\ s[1 + 2] \in HexDigits
        BY <4>2 DEF Escape
      <4>4. Len(u) >= 2 /\ u[1] \in HexDigits /\ u[2] \in HexDigits
        <5>1. Len(u) \in Nat
          BY <4>1, <3>4
        <5>2. Len(u) >= 2
          BY <4>2, <4>3, <5>1
        <5>3. 1 \in 1 .. Len(u) /\ 2 \in 1 .. Len(u)
          BY <5>1, <5>2
        <5> QED
          BY <4>2, <4>3, <5>2, <5>3
      <4>5. CASE n - i >= 2
        <5>1. 1 \in 1 .. n - i /\ 2 \in 1 .. n - i
          BY <1>0, <3>0, <4>5
        <5>2. text[i + 1] \in HexDigits /\ text[i + 2] \in HexDigits
          BY <4>1, <4>4, <5>1
        <5>3. Escape(text, i)
          <6>1. i + 2 <= Len(text)
            BY <1>0, <3>0, <4>5 DEF n
          <6> QED
            BY <4>3, <5>2, <6>1 DEF Escape
        <5> QED
          BY <1>0, <3>0, <5>3 DEF Bare
      <4>6. CASE n - i < 2
        <5>1. n - i \in {0, 1}
          BY <1>0, <3>0, <4>6
        <5>2. Len(t) > 0 /\ 1 \in 1 .. Len(t)
          BY <4>1, <4>4, <5>1
        <5>3. u[n - i + 1] = t[1]
          BY <4>1, <5>2
        <5>4. t[1] \in HexDigits
          BY <4>4, <5>1, <5>3
        <5>5. t # <<>>
          BY <5>2
        <5> QED
          BY <5>4, <5>5 DEF Soft
      <4> QED
        BY <1>0, <3>0, <4>5, <4>6
    <3>7. c # "+"
      <4>1. c \in Range(text)
        BY <1>0, <3>0 DEF Range
      <4> QED
        BY <4>1 DEF Bare
    <3>8. url_decode(<<c>> \o (R \o t)) = <<c>> \o url_decode(R \o t)
      BY <3>0, <3>5, <3>6, <3>7, DecodeOne
    <3>9. SubSeq(text, 1, i - 1) \o (<<c>> \o url_decode(R \o t)) = SubSeq(text, 1, i) \o url_decode(R \o t)
      <4>1. SubSeq(text, 1, i) = SubSeq(text, 1, i - 1) \o <<c>>
        BY <1>0, <3>0, Prefix DEF n
      <4>2. SubSeq(text, 1, i - 1) \in Text
        BY <1>0, <3>0, PrefixType DEF n, Text
      <4> DEFINE P == SubSeq(text, 1, i - 1)
                 u == url_decode(R \o t)
      <4>3. u \in Text
        BY <3>0, <3>5, DecodeType
      <4> HIDE DEF c, u, P
      <4>4. P \o (<<c>> \o u) = (P \o <<c>>) \o u
        BY <3>0, <4>2, <4>3, TextCons DEF P
      <4> QED
        BY <4>1, <4>4 DEF P, u, c
    <3> QED
      BY <2>2, <3>2, <3>3, <3>5, <3>8, <3>9 DEF R
  <2> QED
    BY <2>3, <2>4
<1>2. n \in 0 .. n /\ n \notin T
  <2> HIDE DEF T
  <2> QED
    BY <1>0, <1>1
<1>3. url_decode(text \o t) = SubSeq(text, 1, n) \o url_decode(SubSeq(text, n + 1, n) \o t)
  BY <1>2
<1>4. SubSeq(text, 1, n) = text
  BY <1>0, Prefix
<1>5. SubSeq(text, n + 1, n) = <<>>
  <2> HIDE DEF n
  <2> QED
    BY <1>0, SubSeqEmpty
<1>6. <<>> \o t = t
  BY <1>0, ConcatEmptySeq
<1> QED
  BY <1>3, <1>4, <1>5, <1>6

LEMMA BareSpells ==
  ASSUME NEW text \in Text, Bare(text)
  PROVE  Spells(Written(text, "plain"), text) /\ Written(text, "plain") = text
<1> DEFINE q == [i \in DOMAIN text |-> Spelt(text[i], "plain")]
           n == Len(text)
           Good == {p \in Nat \X Text : p[1] \in 0 .. n /\ p[2] = SubSeq(text, 1, p[1])}
<1>0. n \in Nat /\ DOMAIN text = 1 .. n /\ (\A i \in 1 .. n : text[i] \in Chars) /\ text \in Seq(Chars)
  BY DEF Text
<1>1. q \in Seq(Text) /\ Len(q) = n /\ \A i \in 1 .. n : q[i] = <<text[i]>>
  <2>1. \A c : Spelt(c, "plain") = <<c>>
    BY DEF Spelt
  <2>2. q = [i \in 1 .. n |-> <<text[i]>>]
    BY <1>0, <2>1
  <2>3. \A i \in 1 .. n : <<text[i]>> \in Text
    BY <1>0 DEF Text
  <2> HIDE DEF n, q
  <2>4. q \in [1 .. n -> Text] /\ \A i \in 1 .. n : q[i] = <<text[i]>>
    BY <2>2, <2>3
  <2> QED
    BY <1>0, <2>4
<1> HIDE DEF q, n
<1>2. <<0, <<>> >> \in Good
  <2>1. SubSeq(text, 1, 0) = <<>> /\ <<>> \in Text /\ 0 \in 0 .. n /\ 0 \in Nat
    BY <1>0, TextPrefix, TextJoin DEF n
  <2> QED
    BY <2>1
<1>3. ASSUME NEW i \in 1 .. n, NEW x \in Text, <<i - 1, x>> \in Good PROVE <<i, x \o q[i]>> \in Good
  <2>1. x = SubSeq(text, 1, i - 1)
    BY <1>3
  <2>2. SubSeq(text, 1, i) = x \o q[i]
    <3>1. SubSeq(text, 1, i) = SubSeq(text, 1, i - 1) \o <<text[i]>>
      BY TextPrefix DEF n
    <3> QED
      BY <1>1, <2>1, <3>1
  <2>3. i \in 0 .. n /\ i \in Nat
    BY <1>0
  <2>4. SubSeq(text, 1, i) \in Text
    BY <1>0, <2>3, PrefixType DEF n, Text
  <2> QED
    BY <2>2, <2>3, <2>4
<1>4. <<Len(q), FlattenSeq(q)>> \in Good
  <2> HIDE DEF Good
  <2>1. \A i \in 1 .. Len(q), x \in Text : <<i - 1, x>> \in Good => <<i, x \o q[i]>> \in Good
    BY <1>1, <1>3
  <2> QED
    BY <1>1, <1>2, <2>1, FlattenInduction
<1>5. FlattenSeq(q) = text
  BY <1>0, <1>1, <1>4, Prefix DEF n
<1>6. Written(text, "plain") = text
  BY <1>5 DEF Written, q
<1>7. Unmarked(text)
  <2>1. \A i \in 1 .. n : text[i] \in Range(text)
    BY <1>0 DEF Range
  <2> QED
    BY <2>1 DEF Unmarked, Bare, n
<1> QED
  BY <1>6, <1>7, BareDecoded DEF Spells

Styles == {"all", "form", "plain"}

LEMMA WrittenRead ==
  ASSUME NEW text \in Text, NEW style \in Styles, style = "plain" => Bare(text)
  PROVE  Spells(Written(text, style), text)
<1>1. CASE style = "plain"
  BY <1>1, BareSpells
<1>2. CASE style # "plain"
  BY <1>2, WrittenSpells DEF Spells, SpellsAnywhere, Styles
<1> QED
  BY <1>1, <1>2

LEMMA ConsAt ==
  ASSUME NEW c \in Chars, NEW t \in Text
  PROVE  LET s == <<c>> \o t IN
         s # <<>> /\ s[1] = c /\ Len(s) = Len(t) + 1 /\ \A i \in 1 .. Len(t) : s[1 + i] = t[i]
<1> DEFINE x == <<c>>
           s == <<c>> \o t
<1>1. x \in Text /\ Len(x) = 1 /\ x[1] = c /\ 1 \in 1 .. Len(x)
  BY TextUnit
<1>2. s = x \o t /\ Len(t) \in Nat
  BY DEF Text
<1> HIDE DEF x, s
<1>3. Len(s) = Len(t) + 1 /\ s[1] = c /\ \A i \in 1 .. Len(t) : s[1 + i] = t[i]
  <2>1. /\ Len(x \o t) = Len(x) + Len(t)
        /\ \A i \in 1 .. Len(x) : (x \o t)[i] = x[i]
        /\ \A i \in 1 .. Len(t) : (x \o t)[Len(x) + i] = t[i]
    BY <1>1, JoinedText
  <2>2. \A i \in 1 .. Len(t) : s[1 + i] = t[i]
    BY <1>1, <1>2, <2>1
  <2> QED
    BY <1>1, <1>2, <2>1, <2>2
<1>4. s # <<>>
  BY <1>2, <1>3
<1> QED
  BY <1>3, <1>4 DEF s

LEMMA ConsSoft ==
  ASSUME NEW c \in Chars, c \notin HexDigits, NEW t \in Text
  PROVE  Soft(<<c>> \o t)
  BY ConsAt DEF Soft

LEMMA DecodeMark ==
  ASSUME NEW c \in Chars, c # "%", c # "+", NEW t \in Text
  PROVE  url_decode(<<c>> \o t) = <<c>> \o url_decode(t)
<1>1. ~ Escape(<<c>> \o t, 1)
  BY ConsAt DEF Escape
<1> QED
  BY <1>1, DecodeOne

\* Two dots stay two dots in a longer text.
LEMMA DotsStay ==
  ASSUME NEW v \in Text, NEW w \in Text, HasDots(v) \/ HasDots(w)
  PROVE  HasDots(v \o w)
<1> DEFINE s == v \o w
<1>1. /\ Len(s) = Len(v) + Len(w) /\ Len(v) \in Nat /\ Len(w) \in Nat
      /\ \A i \in 1 .. Len(v) : s[i] = v[i]
      /\ \A i \in 1 .. Len(w) : s[Len(v) + i] = w[i]
  BY JoinedText
<1> HIDE DEF s
<1>2. CASE HasDots(v)
  <2>1. PICK i \in 1 .. Len(v) - 1 : v[i] = "." /\ v[i + 1] = "."
    BY <1>2 DEF HasDots
  <2>2. i \in 1 .. Len(s) - 1 /\ i \in 1 .. Len(v) /\ i + 1 \in 1 .. Len(v)
    BY <1>1
  <2> QED
    BY <1>1, <2>1, <2>2 DEF HasDots, s
<1>3. CASE HasDots(w)
  <2>1. PICK i \in 1 .. Len(w) - 1 : w[i] = "." /\ w[i + 1] = "."
    BY <1>3 DEF HasDots
  <2> DEFINE j == Len(v) + i
  <2>2. j \in 1 .. Len(s) - 1 /\ i \in 1 .. Len(w) /\ i + 1 \in 1 .. Len(w) /\ j + 1 = Len(v) + (i + 1)
    BY <1>1
  <2>3. s[j] = "." /\ s[j + 1] = "."
    BY <1>1, <2>1, <2>2
  <2> HIDE DEF j
  <2> QED
    BY <2>2, <2>3 DEF HasDots, s
<1> QED
  BY <1>2, <1>3

-----------------------------------------------------------------------------
(* The path.                                                               *)

\* w is decoded to N, whatever is behind it, and N is split into the names.
ReadsPath(w, N, names) ==
  /\ N \in Text /\ SpellsAnywhere(w, N)
  /\ names \in Seq(Text)
  /\ \A t \in Text : Pieces(N \o t, "/") = names \o Pieces(t, "/")
  /\ \A i \in 1 .. Len(names) : HasDots(names[i]) => HasDots(N)

\* A name with the "/" behind it.
LEMMA NameSpells ==
  ASSUME NEW w, NEW name \in Text, Spells(w, name)
  PROVE  SpellsAnywhere(w \o <<"/">>, name \o <<"/">>)
<1>0. "/" \in Chars /\ "/" \notin HexDigits /\ "/" \notin {"%", "+", "?", "&", "="}
  BY CharsHave DEF Marks, HexDigits
<1>1. w \in Text /\ Unmarked(w)
  BY DEF Spells
<1>2. <<"/">> \in Text /\ Unmarked(<<"/">>)
  BY <1>0, TextUnit DEF Unmarked
<1>3. w \o <<"/">> \in Text /\ Unmarked(w \o <<"/">>)
  BY <1>1, <1>2, TextJoin, UnmarkedBoth
<1>4. ASSUME NEW t \in Text PROVE url_decode((w \o <<"/">>) \o t) = (name \o <<"/">>) \o url_decode(t)
  <2>1. (w \o <<"/">>) \o t = w \o (<<"/">> \o t) /\ <<"/">> \o t \in Text
    BY <1>0, <1>1, TextCons
  <2>2. Soft(<<"/">> \o t)
    BY <1>0, ConsSoft
  <2>3. url_decode(w \o (<<"/">> \o t)) = name \o url_decode(<<"/">> \o t)
    BY <2>1, <2>2 DEF Spells
  <2>4. url_decode(<<"/">> \o t) = <<"/">> \o url_decode(t)
    BY <1>0, DecodeMark
  <2>5. url_decode(t) \in Text
    BY DecodeType
  <2>6. (name \o <<"/">>) \o url_decode(t) = name \o (<<"/">> \o url_decode(t))
    BY <1>0, <2>5, TextCons
  <2> QED
    BY <2>1, <2>3, <2>4, <2>6
<1> QED
  BY <1>3, <1>4 DEF SpellsAnywhere

LEMMA JoinedNames ==
  ASSUME NEW x \in Seq(Text), NEW t \in Seq(Text)
  PROVE  /\ x \o t \in Seq(Text) /\ Len(x \o t) = Len(x) + Len(t)
         /\ Len(x) \in Nat /\ Len(t) \in Nat
         /\ \A i \in 1 .. Len(x) : (x \o t)[i] = x[i]
         /\ \A i \in 1 .. Len(t) : (x \o t)[Len(x) + i] = t[i]
  BY Joined

LEMMA PathNothing == ReadsPath(<<>>, <<>>, <<>>)
<1>1. <<>> \in Text /\ <<>> \in Seq(Text) /\ Len(<<>>) = 0
  BY DEF Text
<1>2. ASSUME NEW t \in Text PROVE Pieces(<<>> \o t, "/") = <<>> \o Pieces(t, "/")
  <2>1. Pieces(t, "/") \in Seq(Text)
    BY PiecesType
  <2>2. <<>> \o t = t
    BY TextJoin
  <2> QED
    BY <2>1, <2>2, ConcatEmptySeq
<1> QED
  BY <1>1, <1>2, SpellsNothing DEF ReadsPath

LEMMA PathStep ==
  ASSUME NEW v, NEW M, NEW names, ReadsPath(v, M, names),
         NEW w, NEW name \in Text, Spells(w, name), name # <<>>,
         \A i \in 1 .. Len(name) : name[i] # "/"
  PROVE  ReadsPath(v \o (w \o <<"/">>), M \o (name \o <<"/">>), names \o <<name>>)
<1> DEFINE c == name \o <<"/">>
           one == <<name>>
<1>0. "/" \in Chars /\ c \in Text
  BY CharsHave, TextCons DEF Marks
<1>1. SpellsAnywhere(w \o <<"/">>, c) /\ M \in Text
  BY NameSpells DEF ReadsPath
<1>2. names \in Seq(Text) /\ one \in Seq(Text) /\ Len(one) = 1 /\ one[1] = name
  BY DEF ReadsPath
<1>3. \A t \in Text : Pieces(c \o t, "/") = one \o Pieces(t, "/")
  BY <1>0, PiecesTake
<1>4. HasDots(name) => HasDots(c)
  BY <1>0, DotsStay, TextUnit
<1> HIDE DEF c, one
<1>5. M \o c \in Text /\ SpellsAnywhere(v \o (w \o <<"/">>), M \o c)
  BY <1>0, <1>1, TextJoin, SpellsBoth DEF ReadsPath
<1>6. ASSUME NEW t \in Text PROVE Pieces((M \o c) \o t, "/") = (names \o one) \o Pieces(t, "/")
  <2>1. (M \o c) \o t = M \o (c \o t) /\ c \o t \in Text
    BY <1>0, <1>1, TextAssoc, TextJoin
  <2>2. Pieces(M \o (c \o t), "/") = names \o Pieces(c \o t, "/")
    BY <2>1 DEF ReadsPath
  <2>3. Pieces(c \o t, "/") = one \o Pieces(t, "/")
    BY <1>3
  <2>4. Pieces(t, "/") \in Seq(Text)
    BY PiecesType
  <2>5. (names \o one) \o Pieces(t, "/") = names \o (one \o Pieces(t, "/"))
    BY <1>2, <2>4, ConcatAssociative
  <2> QED
    BY <2>1, <2>2, <2>3, <2>5
<1>7. names \o one \in Seq(Text)
  BY <1>2, ConcatProperties
<1>8. ASSUME NEW i \in 1 .. Len(names \o one), HasDots((names \o one)[i]) PROVE HasDots(M \o c)
  <2>1. /\ Len(names \o one) = Len(names) + 1 /\ Len(names) \in Nat
        /\ \A k \in 1 .. Len(names) : (names \o one)[k] = names[k]
        /\ (names \o one)[Len(names) + 1] = name
    <3>1. 1 \in 1 .. Len(one)
      BY <1>2
    <3> QED
      <4>1. /\ Len(names \o one) = Len(names) + Len(one) /\ Len(names) \in Nat
            /\ \A k \in 1 .. Len(names) : (names \o one)[k] = names[k]
            /\ \A k \in 1 .. Len(one) : (names \o one)[Len(names) + k] = one[k]
        BY <1>2, JoinedNames
      <4> QED
        BY <1>2, <3>1, <4>1
  <2>2. CASE i \in 1 .. Len(names)
    <3>1. HasDots(M)
      BY <1>8, <2>1, <2>2 DEF ReadsPath
    <3> QED
      BY <1>0, <1>1, <3>1, DotsStay
  <2>3. CASE i = Len(names) + 1
    BY <1>0, <1>1, <1>4, <1>8, <2>1, <2>3, DotsStay
  <2> QED
    BY <2>1, <2>2, <2>3
<1>9. ReadsPath(v \o (w \o <<"/">>), M \o c, names \o one)
  BY <1>5, <1>6, <1>7, <1>8 DEF ReadsPath
<1> QED
  BY <1>9 DEF c, one

\* The names of a path, each with a "/" behind it.
LEMMA PathSpells ==
  ASSUME NEW names \in Seq(Text), NEW style \in Styles,
         \A i \in 1 .. Len(names) :
           /\ names[i] # <<>> /\ \A j \in 1 .. Len(names[i]) : names[i][j] # "/"
           /\ style = "plain" => Bare(names[i])
  PROVE  \E N : ReadsPath(FlattenSeq([i \in DOMAIN names |-> Written(names[i], style) \o <<"/">>]), N, names)
<1> DEFINE n == Len(names)
           Unit(i) == Written(names[i], style) \o <<"/">>
           q == [i \in DOMAIN names |-> Unit(i)]
           Good == {p \in Nat \X Text :
                      p[1] \in 0 .. n /\ \E N : ReadsPath(p[2], N, SubSeq(names, 1, p[1]))}
<1>0. n \in Nat /\ DOMAIN names = 1 .. n /\ \A i \in 1 .. n : names[i] \in Text
  OBVIOUS
<1>1. SubSeq(names, 1, 0) = <<>> /\ SubSeq(names, 1, n) = names
  BY Prefix
<1>2. \A i \in 1 .. n : SubSeq(names, 1, i) = SubSeq(names, 1, i - 1) \o <<names[i]>>
  BY Prefix
<1>3. \A i \in 1 .. n : Spells(Written(names[i], style), names[i]) /\ Unit(i) \in Text
  <2> TAKE i \in 1 .. n
  <2>1. Spells(Written(names[i], style), names[i])
    BY <1>0, WrittenRead
  <2>2. SpellsAnywhere(Unit(i), names[i] \o <<"/">>)
    BY <1>0, <2>1, NameSpells
  <2> QED
    BY <2>1, <2>2 DEF SpellsAnywhere
<1>4. q \in Seq(Text) /\ Len(q) = n /\ \A i \in 1 .. n : q[i] = Unit(i)
  <2> HIDE DEF Unit
  <2>1. q = [i \in 1 .. n |-> Unit(i)]
    BY <1>0
  <2> HIDE DEF q, n
  <2>2. q \in [1 .. n -> Text] /\ \A i \in 1 .. n : q[i] = Unit(i)
    BY <1>3, <2>1
  <2> QED
    BY <1>0, <2>2
<1> HIDE DEF q, n
<1>5. <<0, <<>> >> \in Good
  <2>1. 0 \in Nat /\ 0 \in 0 .. n /\ <<>> \in Text
    BY <1>0, TextJoin DEF Text
  <2>2. ReadsPath(<<>>, <<>>, SubSeq(names, 1, 0))
    BY <1>1, PathNothing
  <2> QED
    BY <2>1, <2>2
<1>6. ASSUME NEW i \in 1 .. n, NEW x \in Text, <<i - 1, x>> \in Good PROVE <<i, x \o q[i]>> \in Good
  <2>1. PICK N : ReadsPath(x, N, SubSeq(names, 1, i - 1))
    BY <1>6
  <2>2. /\ Spells(Written(names[i], style), names[i]) /\ names[i] \in Text /\ names[i] # <<>>
        /\ \A j \in 1 .. Len(names[i]) : names[i][j] # "/"
    BY <1>0, <1>3 DEF n
  <2>3. ReadsPath(x \o Unit(i), N \o (names[i] \o <<"/">>), SubSeq(names, 1, i - 1) \o <<names[i]>>)
    BY <2>1, <2>2, PathStep
  <2>4. ReadsPath(x \o q[i], N \o (names[i] \o <<"/">>), SubSeq(names, 1, i))
    BY <1>2, <1>4, <2>3
  <2>5. x \o q[i] \in Text /\ i \in 0 .. n /\ i \in Nat
    BY <1>0, <2>4 DEF ReadsPath, SpellsAnywhere
  <2> QED
    BY <2>4, <2>5
<1>7. <<Len(q), FlattenSeq(q)>> \in Good
  <2> HIDE DEF Good
  <2>1. \A i \in 1 .. Len(q), x \in Text : <<i - 1, x>> \in Good => <<i, x \o q[i]>> \in Good
    BY <1>4, <1>6
  <2> QED
    BY <1>4, <1>5, <2>1, FlattenInduction
<1>8. \E N : ReadsPath(FlattenSeq(q), N, SubSeq(names, 1, n))
  BY <1>4, <1>7
<1> QED
  BY <1>1, <1>8 DEF q

LEMMA NotContained ==
  ASSUME NEW v \in Text, NEW c, \A i \in 1 .. Len(v) : v[i] # c
  PROVE  ~ Contains(v, c)
  BY DEF Contains

\* The first c in a text.
LEMMA AtMark ==
  ASSUME NEW v \in Text, NEW c \in Chars, \A i \in 1 .. Len(v) : v[i] # c, NEW t \in Text
  PROVE  LET s == v \o (<<c>> \o t)
         IN  Contains(s, c) /\ Before(s, c) = v /\ Behind(s, c) = t
<1> DEFINE u == <<c>> \o t
           s == v \o u
           x == v \o <<c>>
           k == Len(v)
<1>1. u \in Text /\ u[1] = c /\ Len(u) = Len(t) + 1 /\ Len(t) \in Nat
  <2>1. Len(t) \in Nat
    BY DEF Text
  <2> QED
    BY <2>1, ConsAt, TextCons
<1>2. x \in Text /\ s = x \o t /\ Len(x) = k + 1 /\ k \in Nat
  <2>1. x \in Text /\ s = x \o t
    BY TextCons
  <2>2. Len(x) = Len(v) + Len(<<c>>) /\ Len(v) \in Nat
    BY TextUnit, JoinedText
  <2>3. Len(<<c>>) = 1
    BY TextUnit
  <2> HIDE DEF x
  <2> QED
    BY <2>1, <2>2, <2>3
<1> HIDE DEF u
<1>3. /\ Len(s) = k + (Len(t) + 1) /\ s[k + 1] = c
      /\ \A i \in 1 .. k : s[i] = v[i]
  <2>1. /\ Len(v \o u) = Len(v) + Len(u) /\ \A i \in 1 .. Len(v) : (v \o u)[i] = v[i]
        /\ \A i \in 1 .. Len(u) : (v \o u)[Len(v) + i] = u[i]
    BY <1>1, JoinedText
  <2>2. 1 \in 1 .. Len(u)
    BY <1>1
  <2> QED
    BY <1>1, <2>1, <2>2
<1>4. SubSeq(s, 1, k) = v
  BY <1>1, SubSeqFront
<1>5. SubSeq(s, k + 2, Len(s)) = t
  <2>1. 1 \in 1 .. Len(t) + 1 /\ Len(t) \in 1 - 1 .. Len(t)
    BY <1>1
  <2> HIDE DEF x
  <2>2. SubSeq(x \o t, Len(x) + 1, Len(x) + Len(t)) = SubSeq(t, 1, Len(t))
    BY <1>2, <2>1, SubSeqBehind
  <2>3. SubSeq(t, 1, Len(t)) = t
    BY TextPrefix
  <2> HIDE DEF s, k
  <2>4. Len(x) + 1 = k + 2 /\ Len(x) + Len(t) = Len(s)
    BY <1>1, <1>2, <1>3
  <2> QED
    BY <1>2, <2>2, <2>3, <2>4
<1>6. \A i \in 1 .. k : v[i] # c
  OBVIOUS
<1> HIDE DEF s, k
<1> DEFINE I == {i \in 1 .. Len(s) : s[i] = c}
<1>7. k + 1 \in I /\ (IF I # {} THEN Min(I) ELSE 0) = k + 1
  <2>1. k + 1 \in I /\ I \subseteq Nat
    BY <1>1, <1>2, <1>3
  <2>2. \A i \in I : k + 1 <= i
    BY <1>1, <1>2, <1>3, <1>6
  <2> HIDE DEF I
  <2>3. Min(I) = k + 1
    BY <2>1, <2>2, MinIs
  <2> QED
    BY <2>1, <2>3
<1>8. Contains(s, c)
  BY <1>1, <1>2, <1>3 DEF Contains
<1>9. k + 1 - 1 = k /\ k + 1 + 1 = k + 2
  BY <1>2
<1>10. Before(s, c) = v /\ Behind(s, c) = t
  <2>1. Before(s, c) = SubSeq(s, 1, (IF I # {} THEN Min(I) ELSE 0) - 1)
    BY DEF Before, SelectInSeq
  <2>2. Behind(s, c) = SubSeq(s, (IF I # {} THEN Min(I) ELSE 0) + 1, Len(s))
    BY DEF Behind, SelectInSeq
  <2> DEFINE m == IF I # {} THEN Min(I) ELSE 0
  <2>3. m = k + 1
    BY <1>7
  <2> HIDE DEF m
  <2>4. m - 1 = k /\ m + 1 = k + 2
    BY <1>2, <2>3
  <2> QED
    BY <1>4, <1>5, <2>1, <2>2, <2>4 DEF m
<1> QED
  BY <1>8, <1>10 DEF s, u

\* What is spelt is decoded to what was meant.
LEMMA SpellsAlone == ASSUME NEW w, NEW text \in Text, Spells(w, text) PROVE url_decode(w) = text
<1>1. w \in Text /\ <<>> \in Text /\ Soft(<<>>)
  BY TextJoin DEF Spells, Soft
<1>2. url_decode(w \o <<>>) = text \o url_decode(<<>>)
  BY <1>1 DEF Spells
<1>3. w \o <<>> = w /\ text \o <<>> = text
  BY <1>1, TextJoin
<1> QED
  BY <1>2, <1>3, DecodeNothing

\* url_decode() undoes what a client does that escapes all characters it can, or
\* those that mean something in a form, for every text.
THEOREM DecodedAsWritten ==
  \A text \in Text, style \in {"all", "form"} : url_decode(Written(text, style)) = text
<1> TAKE text \in Text, style \in {"all", "form"}
<1>1. Spells(Written(text, style), text)
  BY WrittenRead DEF Styles
<1> QED
  BY <1>1, SpellsAlone

-----------------------------------------------------------------------------
(* The query.                                                              *)

\* Between two fields, or at the end.
Cut(t) == t = <<>> \/ \E u \in Text : t = <<"&">> \o u

\* x is split into the pieces.
ReadsQuery(x, pieces) ==
  /\ x \in Text /\ pieces \in Seq(Text)
  /\ \A t \in Text : Cut(t) => Pieces(x \o t, "&") = pieces \o Pieces(t, "&")

Joint(style) == IF style = "plain" THEN <<"&", "&">> ELSE <<"&">>
PieceOf(f, style) ==
  Written(f[1], style) \o
  (IF style = "plain" /\ f[2] = <<>> THEN <<>> ELSE <<"=">> \o Written(f[2], style))

IsField(f, style) ==
  /\ f[1] \in Text /\ f[2] \in Text /\ f = <<f[1], f[2]>>
  /\ style = "plain" => f[1] # <<>> /\ Bare(f[1]) /\ Bare(f[2])

LEMMA PieceType ==
  ASSUME NEW style \in Styles, NEW f, IsField(f, style)
  PROVE  /\ PieceOf(f, style) \in Text /\ PieceOf(f, style) # <<>>
         /\ \A i \in 1 .. Len(PieceOf(f, style)) : PieceOf(f, style)[i] # "&"
         /\ Spells(Written(f[1], style), f[1]) /\ Spells(Written(f[2], style), f[2])
<1> DEFINE w == Written(f[1], style)
           y == Written(f[2], style)
           c == <<"=">>
<1>1. Spells(w, f[1]) /\ Spells(y, f[2])
  BY WrittenRead DEF IsField
<1>2. w \in Text /\ y \in Text /\ Unmarked(w) /\ Unmarked(y)
  BY <1>1 DEF Spells
<1> HIDE DEF w, y
<1>3. "=" \in Chars /\ "=" # "&"
  BY CharsHave DEF Marks
<1>4. CASE style = "plain" /\ f[2] = <<>>
  <2>1. PieceOf(f, style) = w
    BY <1>2, <1>4, TextJoin DEF PieceOf, w
  <2>2. w # <<>>
    BY <1>4, BareSpells DEF IsField, w
  <2> QED
    BY <1>1, <1>2, <2>1, <2>2 DEF Unmarked, w, y
<1>5. CASE ~ (style = "plain" /\ f[2] = <<>>)
  <2> DEFINE u == c \o y
             p == w \o u
  <2>1. PieceOf(f, style) = p
    BY <1>5 DEF PieceOf, w, y
  <2>2. u \in Text /\ u[1] = "=" /\ Len(u) = Len(y) + 1 /\ Len(y) \in Nat /\ \A i \in 1 .. Len(y) : u[1 + i] = y[i]
    <3>1. Len(y) \in Nat
      BY <1>2 DEF Text
    <3> QED
      BY <1>2, <1>3, <3>1, ConsAt, TextCons
  <2> HIDE DEF u
  <2>3. /\ p \in Text /\ Len(p) = Len(w) + Len(u) /\ Len(w) \in Nat
        /\ \A i \in 1 .. Len(w) : p[i] = w[i]
        /\ \A i \in 1 .. Len(u) : p[Len(w) + i] = u[i]
    BY <1>2, <2>2, JoinedText
  <2> HIDE DEF p
  <2>4. p # <<>>
    BY <2>2, <2>3
  <2>5. ASSUME NEW i \in 1 .. Len(u) PROVE u[i] # "&"
    <3>1. CASE i = 1
      BY <1>3, <2>2, <3>1
    <3>2. CASE i # 1
      <4>1. i - 1 \in 1 .. Len(y) /\ 1 + (i - 1) = i
        BY <2>2, <3>2
      <4> QED
        BY <1>2, <2>2, <4>1 DEF Unmarked
    <3> QED
      BY <3>1, <3>2
  <2>6. ASSUME NEW i \in 1 .. Len(p) PROVE p[i] # "&"
    <3>1. CASE i <= Len(w)
      <4>1. i \in 1 .. Len(w)
        BY <2>3, <3>1
      <4> QED
        BY <1>2, <2>3, <4>1 DEF Unmarked
    <3>2. CASE i > Len(w)
      <4>1. i - Len(w) \in 1 .. Len(u) /\ Len(w) + (i - Len(w)) = i
        BY <2>2, <2>3, <3>2
      <4> QED
        BY <2>3, <2>5, <4>1
    <3> QED
      BY <2>2, <2>3, <3>1, <3>2
  <2> QED
    BY <1>1, <2>1, <2>3, <2>4, <2>6 DEF w, y
<1> QED
  BY <1>4, <1>5

\* A piece is the field that was meant.
LEMMA PieceRead ==
  ASSUME NEW style \in Styles, NEW f, IsField(f, style)
  PROVE  <<url_decode(Pair(PieceOf(f, style))[1]), url_decode(Pair(PieceOf(f, style))[2])>> = f
<1> DEFINE w == Written(f[1], style)
           y == Written(f[2], style)
           p == PieceOf(f, style)
<1>1. Spells(w, f[1]) /\ Spells(y, f[2])
  BY PieceType
<1>2. w \in Text /\ y \in Text /\ Unmarked(w) /\ f[1] \in Text /\ f[2] \in Text /\ f = <<f[1], f[2]>>
  BY <1>1 DEF Spells, IsField
<1>3. url_decode(w) = f[1] /\ url_decode(y) = f[2]
  BY <1>1, <1>2, SpellsAlone
<1> HIDE DEF w, y
<1>4. \A i \in 1 .. Len(w) : w[i] # "="
  BY <1>2 DEF Unmarked
<1>5. "=" \in Chars
  BY CharsHave DEF Marks
<1>6. CASE style = "plain" /\ f[2] = <<>>
  <2>1. p = w
    BY <1>2, <1>6, TextJoin DEF PieceOf, w
  <2>2. Pair(w) = <<w, <<>> >>
    BY <1>2, <1>4, NotContained DEF Pair
  <2> QED
    BY <1>2, <1>3, <1>6, <2>1, <2>2, DecodeNothing
<1>7. CASE ~ (style = "plain" /\ f[2] = <<>>)
  <2>1. p = w \o (<<"=">> \o y)
    BY <1>7 DEF PieceOf, w, y
  <2>2. Contains(p, "=") /\ Before(p, "=") = w /\ Behind(p, "=") = y
    BY <1>2, <1>4, <1>5, <2>1, AtMark
  <2>3. Pair(p) = <<w, y>>
    BY <2>2 DEF Pair
  <2> QED
    BY <1>2, <1>3, <2>3
<1> QED
  BY <1>6, <1>7

LEMMA AndChar == "&" \in Chars /\ "?" \in Chars /\ "/" \in Chars
  BY CharsHave DEF Marks

LEMMA FieldIs ==
  ASSUME NEW style \in Styles, NEW f, IsField(f, style)
  PROVE  /\ Field(f, style) = Joint(style) \o PieceOf(f, style)
         /\ Joint(style) \in Text /\ Field(f, style) \in Text
<1> DEFINE w == Written(f[1], style)
           e == IF style = "plain" /\ f[2] = <<>> THEN <<>> ELSE <<"=">> \o Written(f[2], style)
           a == <<"&">>
           j == Joint(style)
<1>1. w \in Text /\ Written(f[2], style) \in Text
  BY PieceType DEF Spells
<1>2. e \in Text
  <2>1. "=" \in Chars
    BY CharsHave DEF Marks
  <2>2. <<"=">> \o Written(f[2], style) \in Text
    BY <1>1, <2>1, TextCons
  <2>3. <<>> \in Text
    BY <1>1, TextJoin
  <2> QED
    BY <2>2, <2>3
<1>3. j \in Text
  <2>1. <<"&">> \in Text /\ <<"&", "&">> \in Text
    BY AndChar DEF Text
  <2> QED
    BY <2>1 DEF Joint
<1>4. Field(f, style) = (j \o w) \o e /\ PieceOf(f, style) = w \o e
  BY DEF Field, PieceOf, Joint
<1> HIDE DEF w, e, j
<1>5. (j \o w) \o e = j \o (w \o e) /\ w \o e \in Text
  BY <1>1, <1>2, <1>3, TextAssoc, TextJoin
<1>6. j \o (w \o e) \in Text
  BY <1>3, <1>5, TextJoin
<1> QED
  BY <1>3, <1>4, <1>5, <1>6 DEF j

\* One "&" or two are skipped.
LEMMA JointSkipped ==
  ASSUME NEW style \in Styles, NEW t \in Text
  PROVE  Cut(Joint(style) \o t) /\ Pieces(Joint(style) \o t, "&") = Pieces(t, "&")
<1> DEFINE u == <<"&">> \o t
<1>0. "&" \in Chars /\ u \in Text
  BY AndChar, TextCons
<1>1. Pieces(u, "&") = Pieces(t, "&") /\ Pieces(<<"&">> \o u, "&") = Pieces(u, "&")
  BY <1>0, PiecesSkip
<1>2. CASE style = "plain"
  <2>1. <<"&", "&">> = <<"&">> \o <<"&">>
    <3>1. <<"&">> \o <<"&">> = Append(<<"&">>, "&")
      OBVIOUS
    <3> QED
      BY <3>1
  <2>2. <<"&">> \in Text
    BY <1>0, TextUnit
  <2>3. (<<"&">> \o <<"&">>) \o t = <<"&">> \o u
    BY <1>0, <2>2, TextCons
  <2>4. Joint(style) \o t = <<"&">> \o u
    BY <1>2, <2>1, <2>3 DEF Joint
  <2> QED
    BY <1>0, <1>1, <2>4 DEF Cut
<1>3. CASE style # "plain"
  <2>1. Joint(style) \o t = u
    BY <1>3 DEF Joint
  <2> QED
    BY <1>1, <2>1 DEF Cut
<1> QED
  BY <1>2, <1>3

LEMMA QueryNothing == ReadsQuery(<<>>, <<>>)
<1>1. <<>> \in Text /\ <<>> \in Seq(Text)
  BY DEF Text
<1>2. ASSUME NEW t \in Text PROVE Pieces(<<>> \o t, "&") = <<>> \o Pieces(t, "&")
  <2>1. Pieces(t, "&") \in Seq(Text)
    BY PiecesType
  <2>2. <<>> \o t = t
    BY TextJoin
  <2> QED
    BY <2>1, <2>2, ConcatEmptySeq
<1> QED
  BY <1>1, <1>2 DEF ReadsQuery

LEMMA QueryStep ==
  ASSUME NEW x, NEW pieces, ReadsQuery(x, pieces),
         NEW style \in Styles, NEW f, IsField(f, style)
  PROVE  ReadsQuery(x \o Field(f, style), pieces \o <<PieceOf(f, style)>>)
<1> DEFINE j == Joint(style)
           p == PieceOf(f, style)
           one == <<p>>
           F == Field(f, style)
<1>1. p \in Text /\ p # <<>> /\ \A i \in 1 .. Len(p) : p[i] # "&"
  BY PieceType
<1>2. F = j \o p /\ j \in Text /\ F \in Text /\ x \in Text /\ pieces \in Seq(Text) /\ one \in Seq(Text)
  BY <1>1, FieldIs DEF ReadsQuery
<1>3. ASSUME NEW t \in Text, Cut(t) PROVE Pieces(p \o t, "&") = one \o Pieces(t, "&")
  <2> HIDE DEF p
  <2>0. "&" \in Chars
    BY AndChar
  <2>1. CASE t = <<>>
    <3>1. p \o t = p
      BY <1>1, <2>1, TextJoin
    <3>2. Pieces(p, "&") = <<p>>
      BY <1>1, PiecesLast
    <3>3. Pieces(t, "&") = <<>>
      BY <2>1, PiecesOfNothing
    <3>4. one \o <<>> = one
      <4> HIDE DEF one
      <4> QED
        BY <1>2, ConcatEmptySeq
    <3> QED
      BY <3>1, <3>2, <3>3, <3>4
  <2>2. CASE \E u \in Text : t = <<"&">> \o u
    <3>1. PICK u \in Text : t = <<"&">> \o u
      BY <2>2
    <3>2. Pieces((p \o <<"&">>) \o u, "&") = <<p>> \o Pieces(u, "&")
      BY <1>1, <2>0, PiecesTake
    <3>3. (p \o <<"&">>) \o u = p \o (<<"&">> \o u)
      BY <1>1, <2>0, TextCons
    <3>4. Pieces(<<"&">> \o u, "&") = Pieces(u, "&")
      BY <2>0, PiecesSkip
    <3> QED
      BY <3>1, <3>2, <3>3, <3>4
  <2> QED
    BY <1>3, <2>1, <2>2 DEF Cut
<1>4. ASSUME NEW t \in Text PROVE Cut(j \o t) /\ Pieces(j \o t, "&") = Pieces(t, "&")
  BY JointSkipped
<1> HIDE DEF j, p, one, F
<1>5. ASSUME NEW t \in Text, Cut(t) PROVE Pieces((x \o F) \o t, "&") = (pieces \o one) \o Pieces(t, "&")
  <2>1. p \o t \in Text /\ j \o (p \o t) \in Text
    BY <1>1, <1>2, TextJoin
  <2>2. (x \o F) \o t = x \o (F \o t)
    BY <1>2, TextAssoc
  <2>3. F \o t = j \o (p \o t)
    <3>1. (j \o p) \o t = j \o (p \o t)
      <4>1. j \in Text /\ p \in Text
        BY <1>1, <1>2
      <4> QED
        BY <4>1, TextAssoc
    <3> QED
      BY <1>2, <3>1
  <2>4. Pieces(x \o (j \o (p \o t)), "&") = pieces \o Pieces(j \o (p \o t), "&")
    BY <1>4, <2>1 DEF ReadsQuery
  <2>5. Pieces(j \o (p \o t), "&") = one \o Pieces(t, "&")
    BY <1>3, <1>4, <1>5, <2>1
  <2>6. Pieces(t, "&") \in Seq(Text)
    BY PiecesType
  <2>7. (pieces \o one) \o Pieces(t, "&") = pieces \o (one \o Pieces(t, "&"))
    BY <1>2, <2>6, ConcatAssociative
  <2> QED
    BY <2>2, <2>3, <2>4, <2>5, <2>7
<1>6. x \o F \in Text /\ pieces \o one \in Seq(Text)
  BY <1>2, TextJoin, JoinedNames
<1>7. ReadsQuery(x \o F, pieces \o one)
  BY <1>5, <1>6 DEF ReadsQuery
<1> QED
  BY <1>7 DEF F, one, p

\* The fields are split as they were put together.
LEMMA QuerySpells ==
  ASSUME NEW fields, NEW n \in Nat, Len(fields) = n, DOMAIN fields = 1 .. n, NEW style \in Styles,
         \A i \in 1 .. n : IsField(fields[i], style)
  PROVE  LET F == FlattenSeq([i \in DOMAIN fields |-> Field(fields[i], style)])
         IN  F \in Text /\ Pieces(F, "&") = [i \in 1 .. n |-> PieceOf(fields[i], style)]
<1> DEFINE q == [i \in DOMAIN fields |-> Field(fields[i], style)]
           ps == [i \in 1 .. n |-> PieceOf(fields[i], style)]
           Good == {p \in Nat \X Text : p[1] \in 0 .. n /\ ReadsQuery(p[2], SubSeq(ps, 1, p[1]))}
<1>1. ps \in Seq(Text) /\ Len(ps) = n /\ \A i \in 1 .. n : ps[i] = PieceOf(fields[i], style)
  <2>1. \A i \in 1 .. n : PieceOf(fields[i], style) \in Text
    BY PieceType
  <2>2. ps \in [1 .. n -> Text] /\ \A i \in 1 .. n : ps[i] = PieceOf(fields[i], style)
    BY <2>1
  <2> HIDE DEF ps
  <2> QED
    BY <2>2
<1>2. q \in Seq(Text) /\ Len(q) = n /\ \A i \in 1 .. n : q[i] = Field(fields[i], style)
  <2>1. \A i \in 1 .. n : Field(fields[i], style) \in Text
    BY FieldIs
  <2>2. q \in [1 .. n -> Text] /\ \A i \in 1 .. n : q[i] = Field(fields[i], style)
    BY <2>1
  <2> HIDE DEF q
  <2> QED
    BY <2>2
<1> HIDE DEF q, ps
<1>3. /\ SubSeq(ps, 1, 0) = <<>> /\ SubSeq(ps, 1, n) = ps
      /\ \A i \in 1 .. n : SubSeq(ps, 1, i) = SubSeq(ps, 1, i - 1) \o <<ps[i]>>
  BY <1>1, Prefix
<1>4. <<0, <<>> >> \in Good
  <2>1. 0 \in Nat /\ 0 \in 0 .. n /\ <<>> \in Text
    BY DEF Text
  <2>2. ReadsQuery(<<>>, SubSeq(ps, 1, 0))
    BY <1>3, QueryNothing
  <2> QED
    BY <2>1, <2>2
<1>5. ASSUME NEW i \in 1 .. n, NEW x \in Text, <<i - 1, x>> \in Good PROVE <<i, x \o q[i]>> \in Good
  <2>1. ReadsQuery(x, SubSeq(ps, 1, i - 1))
    BY <1>5
  <2>2. ReadsQuery(x \o Field(fields[i], style), SubSeq(ps, 1, i - 1) \o <<PieceOf(fields[i], style)>>)
    BY <2>1, QueryStep
  <2>3. ReadsQuery(x \o q[i], SubSeq(ps, 1, i))
    BY <1>1, <1>2, <1>3, <2>2
  <2>4. x \o q[i] \in Text /\ i \in 0 .. n /\ i \in Nat
    BY <2>3 DEF ReadsQuery
  <2> QED
    BY <2>3, <2>4
<1>6. <<Len(q), FlattenSeq(q)>> \in Good /\ FlattenSeq(q) \in Text
  <2> HIDE DEF Good
  <2>1. \A i \in 1 .. Len(q), x \in Text : <<i - 1, x>> \in Good => <<i, x \o q[i]>> \in Good
    BY <1>2, <1>5
  <2> QED
    BY <1>2, <1>4, <2>1, FlattenInduction
<1> DEFINE F == FlattenSeq(q)
<1>7. F \in Text /\ ReadsQuery(F, ps)
  BY <1>2, <1>3, <1>6
<1> HIDE DEF F
<1>8. Pieces(F, "&") = ps
  <2>1. <<>> \in Text /\ Cut(<<>>) /\ F \o <<>> = F
    BY <1>7, TextJoin DEF Cut
  <2>2. Pieces(F \o <<>>, "&") = ps \o Pieces(<<>>, "&")
    BY <1>7, <2>1 DEF ReadsQuery
  <2>3. ps \o <<>> = ps
    BY <1>1, ConcatEmptySeq
  <2> QED
    BY <2>1, <2>2, <2>3, PiecesOfNothing
<1> QED
  BY <1>7, <1>8 DEF F, q, ps

LEMMA LargerSeq == ASSUME NEW A, NEW B, A \subseteq B PROVE Seq(A) \subseteq Seq(B)
  OBVIOUS

LEMMA StringsAreText == Seq(STRING) \subseteq Text
  BY CharsHave, LargerSeq DEF Text

\* The fields of a request.
LEMMA FieldsAre ==
  ASSUME NEW r, IsRequest(r)
  PROVE  /\ Len(r.fields) \in Nat /\ DOMAIN r.fields = 1 .. Len(r.fields) /\ r.style \in Styles
         /\ \A i \in 1 .. Len(r.fields) : IsField(r.fields[i], r.style)
<1> DEFINE f == r.fields
<1>1. f \in Seq(Seq(STRING) \X Seq(STRING)) /\ r.style \in Styles
  BY DEF IsRequest, Styles
<1>2. Len(f) \in Nat /\ DOMAIN f = 1 .. Len(f) /\ \A i \in 1 .. Len(f) : f[i] \in Seq(STRING) \X Seq(STRING)
  BY <1>1
<1>3. ASSUME NEW i \in 1 .. Len(f) PROVE IsField(f[i], r.style)
  <2>1. f[i] \in Range(f)
    BY <1>2 DEF Range
  <2>2. r.style = "plain" => f[i][1] # <<>> /\ Bare(f[i][1]) /\ Bare(f[i][2])
    BY <2>1 DEF IsRequest
  <2>3. f[i][1] \in Seq(STRING) /\ f[i][2] \in Seq(STRING) /\ f[i] = <<f[i][1], f[i][2]>>
    BY <1>2
  <2> QED
    BY <2>2, <2>3, StringsAreText DEF IsField
<1> QED
  BY <1>1, <1>2, <1>3

QueryOf(r) == FlattenSeq([i \in DOMAIN r.fields |-> Field(r.fields[i], r.style)])

\* The fields of the form as they are meant.
MeantBy(fields) ==
  LET last == Meant(fields) IN [k \in DOMAIN last |-> fields[last[k]][2]]

LEMMA MapIsMeant ==
  ASSUME NEW f, Len(f) \in Nat, DOMAIN f = 1 .. Len(f)
  PROVE  MapOf(f) = MeantBy(f)
<1> DEFINE K == {e[1] : e \in Range(f)}
           I(k) == {i \in 1 .. Len(f) : f[i][1] = k}
<1>1. \A k \in K : I(k) # {}
  <2> SUFFICES ASSUME NEW k \in K PROVE \E i \in 1 .. Len(f) : f[i][1] = k
    OBVIOUS
  <2>1. PICK e \in Range(f) : e[1] = k
    OBVIOUS
  <2>2. PICK i \in DOMAIN f : f[i] = e
    BY DEF Range
  <2> QED
    BY <2>1, <2>2
<1>2. Meant(f) = [k \in K |-> IF I(k) # {} THEN Max(I(k)) ELSE 0]
  BY DEF Meant, SelectLastInSeq
<1>3. Meant(f) = [k \in K |-> Max(I(k))]
  <2> HIDE DEF K, I
  <2> QED
    BY <1>1, <1>2
<1>4. MapOf(f) = [k \in K |-> f[Max(I(k))][2]]
  BY DEF MapOf
<1>5. MeantBy(f) = [k \in K |-> f[Max(I(k))][2]]
  <2> HIDE DEF K, I
  <2> QED
    BY <1>3 DEF MeantBy
<1> QED
  BY <1>4, <1>5

LEMMA QueryRead ==
  ASSUME NEW r, IsRequest(r)
  PROVE  QueryOf(r) \in Text /\ parse_query_string(QueryOf(r)) = MeantBy(r.fields)
<1> DEFINE f == r.fields
           n == Len(f)
           style == r.style
           ps == [i \in 1 .. n |-> PieceOf(f[i], style)]
           es == [i \in DOMAIN ps |-> <<url_decode(Pair(ps[i])[1]), url_decode(Pair(ps[i])[2])>>]
<1>1. n \in Nat /\ DOMAIN f = 1 .. n /\ style \in Styles /\ \A i \in 1 .. n : IsField(f[i], style)
  BY FieldsAre
<1>2. QueryOf(r) \in Text /\ Pieces(QueryOf(r), "&") = ps
  <2> HIDE DEF f, style
  <2>1. Len(f) \in Nat /\ DOMAIN f = 1 .. Len(f) /\ \A i \in 1 .. Len(f) : IsField(f[i], style)
    BY <1>1
  <2>2. LET F == FlattenSeq([i \in DOMAIN f |-> Field(f[i], style)])
        IN  F \in Text /\ Pieces(F, "&") = [i \in 1 .. n |-> PieceOf(f[i], style)]
    BY <1>1, <2>1, QuerySpells, Zenon
  <2> QED
    BY <2>2 DEF QueryOf, f, style
<1>3. parse_query_string(QueryOf(r)) = MapOf(es)
  BY <1>2 DEF parse_query_string
<1>4. es = f
  <2>1. \A i \in 1 .. n : <<url_decode(Pair(PieceOf(f[i], style))[1]), url_decode(Pair(PieceOf(f[i], style))[2])>> = f[i]
    BY <1>1, PieceRead
  <2>2. es = [i \in 1 .. n |-> <<url_decode(Pair(PieceOf(f[i], style))[1]), url_decode(Pair(PieceOf(f[i], style))[2])>>]
    OBVIOUS
  <2>3. es = [i \in 1 .. n |-> f[i]]
    BY <2>1, <2>2
  <2>4. f = [i \in 1 .. n |-> f[i]]
    <3>1. f \in Seq(Seq(STRING) \X Seq(STRING))
      BY DEF IsRequest
    <3> QED
      BY <3>1
  <2> QED
    BY <2>3, <2>4
<1>5. MapOf(f) = MeantBy(f)
  BY <1>1, MapIsMeant
<1> QED
  BY <1>2, <1>3, <1>4, <1>5

\* The path in the target, and what it is decoded to.
PathOf(r) == FlattenSeq([i \in DOMAIN r.path |-> Written(r.path[i], r.style) \o <<"/">>])

LEMMA NamesAre ==
  ASSUME NEW r, IsRequest(r)
  PROVE  /\ r.path \in Seq(Text) /\ r.style \in Styles
         /\ \A i \in 1 .. Len(r.path) :
              /\ r.path[i] \in Range(r.path)
              /\ r.path[i] # <<>> /\ \A j \in 1 .. Len(r.path[i]) : r.path[i][j] # "/"
              /\ r.style = "plain" => Bare(r.path[i])
<1> DEFINE p == r.path
<1>1. p \in Seq(Words) /\ r.style \in Styles
  BY RouterAssumption DEF IsRequest, Styles
<1>2. Len(p) \in Nat /\ DOMAIN p = 1 .. Len(p)
  BY <1>1
<1>3. ASSUME NEW i \in 1 .. Len(p)
      PROVE  /\ p[i] \in Text /\ p[i] \in Range(p)
             /\ p[i] # <<>> /\ \A j \in 1 .. Len(p[i]) : p[i][j] # "/"
             /\ r.style = "plain" => Bare(p[i])
  <2>1. p[i] \in Range(p)
    BY <1>2 DEF Range
  <2>2. p[i] \in Seq(STRING) /\ p[i] # <<>> /\ "/" \notin Range(p[i])
    BY <2>1 DEF IsRequest
  <2>3. \A j \in 1 .. Len(p[i]) : p[i][j] \in Range(p[i])
    BY <2>2 DEF Range
  <2>4. r.style = "plain" => Bare(p[i])
    BY <2>1 DEF IsRequest
  <2> QED
    BY <2>1, <2>2, <2>3, <2>4, StringsAreText
<1>4. p \in Seq(Text)
  BY <1>1, <1>2, <1>3
<1> QED
  BY <1>1, <1>3, <1>4

LEMMA PathDecoded ==
  ASSUME NEW r, IsRequest(r)
  PROVE  LET v == <<"/">> \o PathOf(r)
         IN  /\ v \in Text /\ Unmarked(v) /\ Segments(url_decode(v)) = r.path
             /\ \A name \in Range(r.path) : HasDots(name) => HasDots(url_decode(v))
<1> DEFINE P == PathOf(r)
           names == r.path
           v == <<"/">> \o P
<1>0. "/" \in Chars /\ "/" \notin {"%", "+", "?", "&", "="} /\ <<"/">> \in Text /\ <<>> \in Text
  BY AndChar, TextUnit, TextJoin
<1>1. names \in Seq(Text) /\ \A i \in 1 .. Len(names) : names[i] \in Range(names)
  BY NamesAre
<1>2. PICK N : ReadsPath(P, N, names)
  BY NamesAre, PathSpells DEF PathOf
<1>3. N \in Text /\ P \in Text /\ Unmarked(P) /\ SpellsAnywhere(P, N)
  BY <1>2 DEF ReadsPath, SpellsAnywhere
<1> HIDE DEF P
<1>4. v \in Text /\ Unmarked(v)
  <2>1. Unmarked(<<"/">>)
    BY <1>0, TextUnit DEF Unmarked
  <2> QED
    BY <1>0, <1>3, <2>1, TextJoin, UnmarkedBoth
<1>5. url_decode(v) = <<"/">> \o N
  <2>1. url_decode(P) = N
    BY <1>3, SpellsAlone DEF SpellsAnywhere, Spells
  <2> QED
    BY <1>0, <1>3, <2>1, DecodeMark
<1>6. Segments(<<"/">> \o N) = names
  <2>1. Pieces(<<"/">> \o N, "/") = Pieces(N, "/")
    BY <1>0, <1>3, PiecesSkip
  <2>2. Pieces(N \o <<>>, "/") = names \o Pieces(<<>>, "/")
    BY <1>0, <1>2 DEF ReadsPath
  <2>3. N \o <<>> = N
    BY <1>3, TextJoin
  <2>4. names \o <<>> = names
    BY <1>1, ConcatEmptySeq
  <2> QED
    BY <2>1, <2>2, <2>3, <2>4, PiecesOfNothing DEF Segments
<1>7. ASSUME NEW name \in Range(names), HasDots(name) PROVE HasDots(<<"/">> \o N)
  <2>1. PICK i \in 1 .. Len(names) : names[i] = name
    BY <1>1 DEF Range
  <2>2. HasDots(N)
    BY <1>2, <1>7, <2>1 DEF ReadsPath
  <2> QED
    BY <1>0, <1>3, <2>2, DotsStay
<1> QED
  BY <1>4, <1>5, <1>6, <1>7 DEF P

LEMMA FlattenNothing == ASSUME NEW q, Len(q) = 0 PROVE FlattenSeq(q) = q
  BY DEF FlattenSeq

\* A target is read as it was meant.
LEMMA TargetRead ==
  ASSUME NEW r, IsRequest(r)
  PROVE  LET t == Target(Url(r))
         IN  /\ Segments(t.path) = r.path /\ t.query = MeantBy(r.fields)
             /\ ~ HasDots(t.path) => \A name \in Range(r.path) : ~ HasDots(name)
<1> DEFINE v == <<"/">> \o PathOf(r)
           F == QueryOf(r)
           f == r.fields
<1>1. v \in Text /\ Unmarked(v) /\ F \in Text /\ parse_query_string(F) = MeantBy(r.fields)
  BY PathDecoded, QueryRead
<1>2. \A i \in 1 .. Len(v) : v[i] # "?"
  BY <1>1 DEF Unmarked
<1>3. Url(r) = (v \o (IF r.fields = <<>> THEN <<>> ELSE <<"?">>)) \o F
  BY DEF Url, PathOf, QueryOf
<1>4. Target(Url(r)) = [path |-> url_decode(v), query |-> MeantBy(r.fields)]
  <2>1. CASE r.fields = <<>>
    <3>1. F = <<>>
      <4> DEFINE q == [i \in DOMAIN f |-> Field(f[i], r.style)]
      <4>1. q = <<>>
        BY <2>1
      <4> HIDE DEF q
      <4>2. Len(q) = 0
        BY <4>1
      <4> QED
        BY <4>1, <4>2, FlattenNothing DEF QueryOf, q
    <3>2. Url(r) = v
      <4> HIDE DEF v, F
      <4>1. v \o <<>> = v
        BY <1>1, TextJoin
      <4> QED
        BY <1>3, <2>1, <3>1, <4>1
    <3>3. ~ Contains(v, "?")
      BY <1>1, <1>2, NotContained
    <3>4. MeantBy(r.fields) = <<>>
      <4>1. Meant(f) = <<>>
        BY <2>1 DEF Meant, Range
      <4> QED
        BY <2>1, <4>1 DEF MeantBy
    <3> QED
      BY <3>2, <3>3, <3>4 DEF Target
  <2>2. CASE r.fields # <<>>
    <3>0. "?" \in Chars
      BY AndChar
    <3>1. Url(r) = v \o (<<"?">> \o F)
      <4> HIDE DEF v, F
      <4>1. (v \o <<"?">>) \o F = v \o (<<"?">> \o F)
        BY <1>1, <3>0, TextCons
      <4> QED
        BY <1>3, <2>2, <4>1
    <3> HIDE DEF v, F
    <3>2. Contains(Url(r), "?") /\ Before(Url(r), "?") = v /\ Behind(Url(r), "?") = F
      BY <1>1, <1>2, <3>0, <3>1, AtMark
    <3> QED
      BY <1>1, <3>2 DEF Target
  <2> QED
    BY <2>1, <2>2
<1>5. /\ Segments(url_decode(v)) = r.path
      /\ \A name \in Range(r.path) : HasDots(name) => HasDots(url_decode(v))
  BY PathDecoded
<1> HIDE DEF v
<1> QED
  BY <1>4, <1>5

LEMMA SaidPath ==
  ASSUME NEW r, IsRequest(r)
  PROVE  /\ Said(r).path = r.path /\ Said(r).query = MeantBy(r.fields)
         /\ Said(r).sound => \A name \in Range(r.path) : ~ HasDots(name)
<1> DEFINE t == Target(Url(r))
           h == Headers(Lines(r))
<1>1. Said(r) = [path |-> Segments(t.path), query |-> t.query,
                 keep |-> keep_alive(r.version, h), len |-> content_length(h),
                 sound |-> r.words >= 3 /\ ~ HasDots(t.path)]
  BY DEF Said
<1>2. /\ Segments(t.path) = r.path /\ t.query = MeantBy(r.fields)
      /\ ~ HasDots(t.path) => \A name \in Range(r.path) : ~ HasDots(name)
  BY TargetRead
<1> HIDE DEF t, h
<1>3. Said(r).path = r.path /\ Said(r).query = MeantBy(r.fields)
  BY <1>1, <1>2
<1>4. Said(r).sound = (r.words >= 3 /\ ~ HasDots(t.path))
  BY <1>1
<1> QED
  BY <1>2, <1>3, <1>4

-----------------------------------------------------------------------------
(* Header lines.                                                           *)

\* Of a text with one word only the word is left.
LEMMA TrimOne ==
  ASSUME NEW W, NEW s \in Seq(W), NEW a \in 1 .. Len(s),
         \A i \in 1 .. Len(s) : s[i] \notin Blanks <=> i = a
  PROVE  trim(s) = <<s[a]>>
<1> DEFINE kept == {i \in DOMAIN s : s[i] \notin Blanks}
<1>1. Len(s) \in Nat /\ DOMAIN s = 1 .. Len(s) /\ a \in Nat /\ s[a] \in W
  OBVIOUS
<1>2. kept = {a}
  BY <1>1
<1>3. Min({a}) = a /\ Max({a}) = a
  BY <1>1, MinIs, MaxIs
<1>4. trim(s) = SubSeq(s, a, a)
  BY <1>2, <1>3 DEF trim
<1>5. SubSeq(s, a, a) = <<s[a]>>
  <2> DEFINE b == SubSeq(s, a, a)
             one == <<s[a]>>
  <2>1. b \in Seq(W) /\ Len(b) = 1 /\ b[1] = s[a]
    <3>1. a \in Int /\ \A i \in a .. a : s[i] \in W
      BY <1>1
    <3>2. /\ b \in Seq(W) /\ Len(b) = (IF a <= a THEN a - a + 1 ELSE 0)
          /\ \A i \in 1 .. a - a + 1 : b[i] = s[a + i - 1]
      BY <3>1, SubSeqProperties
    <3> HIDE DEF b
    <3>3. 1 \in 1 .. a - a + 1 /\ a - a + 1 = 1 /\ a + 1 - 1 = a /\ a <= a
      BY <1>1
    <3> QED
      BY <3>2, <3>3
  <2>2. one \in Seq(W) /\ Len(one) = 1 /\ one[1] = s[a]
    BY <1>1
  <2> HIDE DEF b, one
  <2>3. \A i \in 1 .. Len(b) : b[i] = one[i]
    <3>1. \A i \in 1 .. Len(b) : i = 1
      BY <2>1
    <3> QED
      BY <2>1, <2>2, <3>1
  <2>4. b = one
    BY <2>1, <2>2, <2>3, SeqEqual
  <2> QED
    BY <2>4 DEF b, one
<1> QED
  BY <1>4, <1>5

\* The first colon is at k.
LEMMA AtColon ==
  ASSUME NEW W, NEW s \in Seq(W), NEW k \in 1 .. Len(s), s[k] = ":", \A i \in 1 .. k - 1 : s[i] # ":"
  PROVE  /\ Contains(s, ":") /\ Before(s, ":") = SubSeq(s, 1, k - 1)
         /\ Behind(s, ":") = SubSeq(s, k + 1, Len(s))
<1> DEFINE I == {i \in 1 .. Len(s) : s[i] = ":"}
           m == IF I # {} THEN Min(I) ELSE 0
<1>1. m = k
  <2>1. k \in I /\ I \subseteq Nat
    OBVIOUS
  <2>2. \A i \in I : k <= i
    OBVIOUS
  <2> HIDE DEF I
  <2> QED
    BY <2>1, <2>2, MinIs
<1>2. Contains(s, ":")
  BY DEF Contains
<1>3. Before(s, ":") = SubSeq(s, 1, m - 1)
  BY DEF Before, SelectInSeq
<1>4. Behind(s, ":") = SubSeq(s, m + 1, Len(s))
  BY DEF Behind, SelectInSeq
<1> HIDE DEF m
<1> QED
  BY <1>1, <1>2, <1>3, <1>4

\* A line with one word on each side of the colon.
LEMMA LineRead ==
  ASSUME NEW W, NEW s \in Seq(W), NEW k \in 1 .. Len(s), s[k] = ":", \A i \in 1 .. k - 1 : s[i] # ":",
         NEW a \in 1 .. k - 1, \A i \in 1 .. k - 1 : s[i] \notin Blanks <=> i = a,
         NEW b \in k + 1 .. Len(s), \A i \in k + 1 .. Len(s) : s[i] \notin Blanks <=> i = b
  PROVE  IsHeader(s) /\ Entry(s)[1] = <<Lower(s[a])>> /\ Entry(s)[2] = <<s[b]>>
<1> DEFINE x == SubSeq(s, 1, k - 1)
           y == SubSeq(s, k + 1, Len(s))
<1>0. Len(s) \in Nat /\ k \in Nat /\ \A i \in 1 .. Len(s) : s[i] \in W
  OBVIOUS
<1>1. Contains(s, ":") /\ Before(s, ":") = x /\ Behind(s, ":") = y
  BY AtColon
<1>2. x \in Seq(W) /\ Len(x) = k - 1 /\ \A i \in 1 .. k - 1 : x[i] = s[i]
  <2>1. 1 \in Int /\ k - 1 \in Int /\ \A i \in 1 .. k - 1 : s[i] \in W
    BY <1>0
  <2>2. /\ x \in Seq(W) /\ Len(x) = (IF 1 <= k - 1 THEN k - 1 - 1 + 1 ELSE 0)
        /\ \A i \in 1 .. k - 1 - 1 + 1 : x[i] = s[1 + i - 1]
    BY <2>1, SubSeqProperties
  <2> HIDE DEF x
  <2>3. 1 <= k - 1 /\ k - 1 - 1 + 1 = k - 1 /\ \A i \in 1 .. k - 1 : 1 + i - 1 = i
    BY <1>0
  <2> QED
    BY <2>2, <2>3
<1>3. y \in Seq(W) /\ Len(y) = Len(s) - k /\ \A i \in 1 .. Len(s) - k : y[i] = s[k + i]
  <2>1. k + 1 \in Int /\ Len(s) \in Int /\ \A i \in k + 1 .. Len(s) : s[i] \in W
    BY <1>0
  <2>2. /\ y \in Seq(W) /\ Len(y) = (IF k + 1 <= Len(s) THEN Len(s) - (k + 1) + 1 ELSE 0)
        /\ \A i \in 1 .. Len(s) - (k + 1) + 1 : y[i] = s[k + 1 + i - 1]
    BY <2>1, SubSeqProperties
  <2> HIDE DEF y
  <2>3. k + 1 <= Len(s) /\ Len(s) - (k + 1) + 1 = Len(s) - k /\ \A i \in 1 .. Len(s) - k : k + 1 + i - 1 = k + i
    BY <1>0
  <2> QED
    BY <2>2, <2>3
<1> HIDE DEF x, y
<1>4. trim(x) = <<s[a]>>
  <2>1. a \in 1 .. Len(x) /\ x[a] = s[a] /\ \A i \in 1 .. Len(x) : x[i] \notin Blanks <=> i = a
    BY <1>2
  <2> QED
    BY <1>2, <2>1, TrimOne
<1>5. trim(y) = <<s[b]>>
  <2> DEFINE j == b - k
  <2>1. j \in 1 .. Len(y) /\ k + j = b
    BY <1>0, <1>3
  <2>2. \A i \in 1 .. Len(y) : y[i] \notin Blanks <=> i = j
    <3> TAKE i \in 1 .. Len(y)
    <3>1. k + i \in k + 1 .. Len(s) /\ y[i] = s[k + i] /\ (k + i = b <=> i = j)
      BY <1>0, <1>3
    <3> QED
      BY <3>1
  <2>3. y[j] = s[b]
    BY <1>3, <2>1
  <2> HIDE DEF j
  <2> QED
    <3>1. y \in Seq(W)
      BY <1>3
    <3>2. trim(y) = <<y[j]>>
      BY <3>1, <2>1, <2>2, TrimOne
    <3> QED
      BY <2>3, <3>2
<1>6. to_lower(<<s[a]>>) = <<Lower(s[a])>>
  <2>1. DOMAIN <<s[a]>> = {1}
    OBVIOUS
  <2>2. to_lower(<<s[a]>>) = [i \in {1} |-> Lower(s[a])]
    BY <2>1 DEF to_lower
  <2>3. <<Lower(s[a])>> = [i \in {1} |-> Lower(s[a])]
    OBVIOUS
  <2> QED
    BY <2>2, <2>3
<1>7. <<s[a]>> # <<>>
  OBVIOUS
<1> QED
  BY <1>1, <1>4, <1>5, <1>6, <1>7 DEF IsHeader, Entry

LEMMA NoNameNoHeader ==
  /\ ~ IsHeader(<<"junk">>)
  /\ ~ IsHeader(<<":", "junk">>)
<1>1. ~ Contains(<<"junk">>, ":")
  BY DEF Contains
<1> DEFINE s == <<":", "junk">>
<1>2. s \in Seq({":", "junk"}) /\ Len(s) = 2 /\ s[1] = ":"
  OBVIOUS
<1> HIDE DEF s
<1>3. Before(s, ":") = SubSeq(s, 1, 0)
  <2>1. 1 \in 1 .. Len(s) /\ \A i \in 1 .. 1 - 1 : s[i] # ":"
    BY <1>2
  <2>2. Before(s, ":") = SubSeq(s, 1, 1 - 1)
    BY <1>2, <2>1, AtColon
  <2> QED
    BY <2>2
<1>4. SubSeq(s, 1, 0) = <<>>
  BY <1>2, Prefix
<1>5. trim(<<>>) = <<>>
  BY DEF trim
<1> QED
  BY <1>1, <1>3, <1>4, <1>5 DEF IsHeader, s

\* The header with a name that one line has, or no line.
LEMMA HeaderRead ==
  ASSUME NEW L, Len(L) \in Nat, DOMAIN L = 1 .. Len(L), \A i \in 1 .. Len(L) : L[i] # <<>>, NEW name
  PROVE  /\ \A k \in 1 .. Len(L) :
              /\ IsHeader(L[k]) /\ Entry(L[k])[1] = name
              /\ \A i \in 1 .. Len(L) : IsHeader(L[i]) /\ Entry(L[i])[1] = name => i = k
              => header(Headers(L), name) = Entry(L[k])[2]
         /\ (\A i \in 1 .. Len(L) : IsHeader(L[i]) => Entry(L[i])[1] # name)
              => header(Headers(L), name) = <<>>
<1> DEFINE n == Len(L)
           empty == {i \in DOMAIN L : L[i] = <<>>} \cup {Len(L) + 1}
           f == [i \in {j \in 1 .. n : IsHeader(L[j])} |-> Entry(L[i])]
           K == {e[1] : e \in Range(f)}
           I(k) == {i \in DOMAIN f : f[i][1] = k}
<1>1. Min(empty) - 1 = n
  <2>1. empty = {n + 1} /\ n + 1 \in Nat
    OBVIOUS
  <2> HIDE DEF n, empty
  <2>2. Min({n + 1}) = n + 1
    BY <2>1, MinIs
  <2>3. n \in Nat
    BY DEF n
  <2> QED
    BY <2>1, <2>2, <2>3
<1>2. Headers(L) = MapOf(f)
  BY <1>1 DEF Headers
<1>3. MapOf(f) = [k \in K |-> f[Max(I(k))][2]]
  BY DEF MapOf
<1>4. ASSUME NEW k \in 1 .. n, IsHeader(L[k]), Entry(L[k])[1] = name,
             \A i \in 1 .. n : IsHeader(L[i]) /\ Entry(L[i])[1] = name => i = k
      PROVE  header(Headers(L), name) = Entry(L[k])[2]
  <2>1. k \in DOMAIN f /\ f[k] = Entry(L[k]) /\ k \in Nat
    BY <1>4
  <2>2. I(name) = {k}
    BY <1>4
  <2>3. Max({k}) = k
    BY <2>1, MaxIs
  <2>4. name \in K
    BY <1>4, <2>1 DEF Range
  <2> HIDE DEF f, K, I
  <2>5. MapOf(f)[name] = f[k][2] /\ name \in DOMAIN MapOf(f)
    BY <1>3, <2>2, <2>3, <2>4
  <2> QED
    BY <1>2, <2>1, <2>5 DEF header
<1>5. ASSUME \A i \in 1 .. n : IsHeader(L[i]) => Entry(L[i])[1] # name
      PROVE  header(Headers(L), name) = <<>>
  <2>1. name \notin K
    <3> SUFFICES ASSUME name \in K PROVE FALSE
      OBVIOUS
    <3>1. PICK e \in Range(f) : e[1] = name
      OBVIOUS
    <3>2. PICK i \in DOMAIN f : f[i] = e
      BY DEF Range
    <3> QED
      BY <1>5, <3>1, <3>2
  <2> HIDE DEF f, K, I
  <2>2. name \notin DOMAIN MapOf(f)
    BY <1>3, <2>1
  <2> QED
    BY <1>2, <2>2 DEF header
<1> QED
  BY <1>4, <1>5

\* Lines that say nothing, then at most one line of each of two kinds.
AreLines(X, junk, about, conn, na, nc) ==
  /\ junk \in Seq(X) /\ about \in Seq(X) /\ conn \in Seq(X) /\ <<>> \notin X
  /\ \A i \in 1 .. Len(junk) : ~ IsHeader(junk[i])
  /\ na # nc
  /\ about = <<>> \/ (Len(about) = 1 /\ IsHeader(about[1]) /\ Entry(about[1])[1] = na)
  /\ conn = <<>> \/ (Len(conn) = 1 /\ IsHeader(conn[1]) /\ Entry(conn[1])[1] = nc)

LEMMA LinesRead ==
  ASSUME NEW X, NEW junk, NEW about, NEW conn, NEW na, NEW nc, AreLines(X, junk, about, conn, na, nc)
  PROVE  LET h == Headers((junk \o about) \o conn)
         IN  /\ header(h, na) = IF about = <<>> THEN <<>> ELSE Entry(about[1])[2]
             /\ header(h, nc) = IF conn = <<>> THEN <<>> ELSE Entry(conn[1])[2]
<1>0. /\ junk \in Seq(X) /\ about \in Seq(X) /\ conn \in Seq(X) /\ <<>> \notin X
      /\ \A i \in 1 .. Len(junk) : ~ IsHeader(junk[i])
      /\ na # nc
      /\ about = <<>> \/ (Len(about) = 1 /\ IsHeader(about[1]) /\ Entry(about[1])[1] = na)
      /\ conn = <<>> \/ (Len(conn) = 1 /\ IsHeader(conn[1]) /\ Entry(conn[1])[1] = nc)
  BY DEF AreLines
<1> DEFINE M == junk \o about
           L == M \o conn
           j == Len(junk)
           m == Len(M)
           n == Len(L)
<1>1. /\ M \in Seq(X) /\ m = j + Len(about) /\ j \in Nat /\ Len(about) \in Nat
      /\ \A i \in 1 .. j : M[i] = junk[i]
      /\ \A i \in 1 .. Len(about) : M[j + i] = about[i]
  BY <1>0, Joined
<1>2. M \in Seq(X)
  BY <1>1
<1> HIDE DEF M
<1>3. /\ L \in Seq(X) /\ n = m + Len(conn) /\ m \in Nat /\ Len(conn) \in Nat
      /\ \A i \in 1 .. m : L[i] = M[i]
      /\ \A i \in 1 .. Len(conn) : L[m + i] = conn[i]
  BY <1>0, <1>2, Joined
<1> HIDE DEF L
<1>4. DOMAIN L = 1 .. n /\ n \in Nat /\ \A i \in 1 .. n : L[i] # <<>>
  BY <1>0, <1>3
<1>5. (about = <<>> => Len(about) = 0) /\ (conn = <<>> => Len(conn) = 0)
  OBVIOUS
<1> HIDE DEF j, m, n
<1>6. ASSUME NEW i \in 1 .. n, IsHeader(L[i])
      PROVE  \/ about # <<>> /\ i = j + 1 /\ L[i] = about[1]
             \/ conn # <<>> /\ i = m + 1 /\ L[i] = conn[1]
  <2>1. CASE i <= j
    <3>1. i \in 1 .. j /\ i \in 1 .. m
      BY <1>1, <1>3, <1>4, <2>1
    <3>2. L[i] = junk[i]
      BY <1>1, <1>3, <3>1
    <3> QED
      BY <1>0, <1>6, <3>1, <3>2 DEF j
  <2>2. CASE j < i /\ i <= m
    <3>1. i - j \in 1 .. Len(about) /\ i \in 1 .. m /\ j + (i - j) = i
      BY <1>0, <1>1, <1>3, <1>4, <2>2
    <3>2. about # <<>> /\ Len(about) = 1
      BY <1>0, <1>5, <3>1
    <3>3. i - j = 1 /\ i = j + 1
      BY <1>1, <3>1, <3>2
    <3>4. L[i] = about[1]
      BY <1>1, <1>3, <3>1, <3>3
    <3> QED
      BY <3>2, <3>3, <3>4
  <2>3. CASE m < i
    <3>1. i - m \in 1 .. Len(conn) /\ m + (i - m) = i
      BY <1>3, <1>4, <2>3
    <3>2. conn # <<>> /\ Len(conn) = 1
      BY <1>0, <1>5, <3>1
    <3>3. i - m = 1 /\ i = m + 1
      BY <1>3, <3>1, <3>2
    <3>4. L[i] = conn[1]
      BY <1>3, <3>1, <3>3
    <3> QED
      BY <3>2, <3>3, <3>4
  <2> QED
    BY <1>1, <1>3, <1>4, <2>1, <2>2, <2>3
<1>7. header(Headers(L), na) = IF about = <<>> THEN <<>> ELSE Entry(about[1])[2]
  <2>1. CASE about = <<>>
    <3>1. \A i \in 1 .. n : IsHeader(L[i]) => Entry(L[i])[1] # na
      BY <1>0, <1>6, <2>1
    <3> QED
      BY <1>4, <2>1, <3>1, HeaderRead DEF n
  <2>2. CASE about # <<>>
    <3> DEFINE k == j + 1
    <3>1. 1 \in 1 .. Len(about) /\ k \in 1 .. n /\ k \in 1 .. m
      BY <1>0, <1>1, <1>3, <1>4, <2>2
    <3>2. L[k] = about[1]
      BY <1>1, <1>3, <3>1
    <3>3. \A i \in 1 .. n : IsHeader(L[i]) /\ Entry(L[i])[1] = na => i = k
      BY <1>0, <1>6, <2>2
    <3> HIDE DEF k
    <3>4. header(Headers(L), na) = Entry(L[k])[2]
      <4>1. IsHeader(L[k]) /\ Entry(L[k])[1] = na
        BY <1>0, <2>2, <3>2
      <4> QED
        BY <1>4, <3>1, <3>3, <4>1, HeaderRead DEF n
    <3> QED
      BY <2>2, <3>2, <3>4
  <2> QED
    BY <2>1, <2>2
<1>8. header(Headers(L), nc) = IF conn = <<>> THEN <<>> ELSE Entry(conn[1])[2]
  <2>1. CASE conn = <<>>
    <3>1. \A i \in 1 .. n : IsHeader(L[i]) => Entry(L[i])[1] # nc
      BY <1>0, <1>6, <2>1
    <3> QED
      BY <1>4, <2>1, <3>1, HeaderRead DEF n
  <2>2. CASE conn # <<>>
    <3> DEFINE k == m + 1
    <3>1. 1 \in 1 .. Len(conn) /\ k \in 1 .. n
      BY <1>0, <1>3, <1>4, <2>2
    <3>2. L[k] = conn[1]
      BY <1>3, <3>1
    <3>3. \A i \in 1 .. n : IsHeader(L[i]) /\ Entry(L[i])[1] = nc => i = k
      BY <1>0, <1>6, <2>2
    <3> HIDE DEF k
    <3>4. header(Headers(L), nc) = Entry(L[k])[2]
      <4>1. IsHeader(L[k]) /\ Entry(L[k])[1] = nc
        BY <1>0, <2>2, <3>2
      <4> QED
        BY <1>4, <3>1, <3>3, <4>1, HeaderRead DEF n
    <3> QED
      BY <2>2, <3>2, <3>4
  <2> QED
    BY <2>1, <2>2
<1> QED
  BY <1>7, <1>8 DEF L, M

\* The two ways in which a header line is written.
LEMMA LineWithBlank ==
  ASSUME NEW name, NEW v, name \notin Blanks, name # ":", v \notin Blanks
  PROVE  LET s == <<name, ":", " ", v>>
         IN  IsHeader(s) /\ Entry(s)[1] = <<Lower(name)>> /\ Entry(s)[2] = <<v>>
<1> DEFINE s == <<name, ":", " ", v>>
           W == {name, ":", " ", v}
<1>1. s \in Seq(W)
  OBVIOUS
<1>2. Len(s) = 4
  OBVIOUS
<1>3. s[1] = name /\ s[2] = ":" /\ s[3] \in Blanks /\ s[4] = v
  BY DEF Blanks
<1> HIDE DEF s, W
<1>4. 2 \in 1 .. Len(s) /\ 1 \in 1 .. 2 - 1 /\ 4 \in 2 + 1 .. Len(s)
  BY <1>2
<1>5. (\A i \in 1 .. 2 - 1 : i = 1) /\ \A i \in 2 + 1 .. Len(s) : i = 3 \/ i = 4
  BY <1>2
<1>6. (\A i \in 1 .. 2 - 1 : s[i] # ":") /\ (\A i \in 1 .. 2 - 1 : s[i] \notin Blanks <=> i = 1)
  BY <1>3, <1>5
<1>7. \A i \in 2 + 1 .. Len(s) : s[i] \notin Blanks <=> i = 4
  BY <1>3, <1>5
<1>8. IsHeader(s) /\ Entry(s)[1] = <<Lower(s[1])>> /\ Entry(s)[2] = <<s[4]>>
  BY <1>1, <1>3, <1>4, <1>6, <1>7, LineRead
<1> QED
  BY <1>3, <1>8 DEF s

LEMMA LineWithThree ==
  ASSUME NEW name, NEW v, name \notin Blanks, name # ":", v \notin Blanks
  PROVE  LET s == <<name, " ", ":", v, " ">>
         IN  IsHeader(s) /\ Entry(s)[1] = <<Lower(name)>> /\ Entry(s)[2] = <<v>>
<1> DEFINE s == <<name, " ", ":", v, " ">>
           W == {name, ":", " ", v}
<1>1. s \in Seq(W)
  OBVIOUS
<1>2. Len(s) = 5
  OBVIOUS
<1>3. /\ s[1] = name /\ s[2] \in Blanks /\ s[2] # ":" /\ s[3] = ":" /\ s[4] = v
      /\ s[5] \in Blanks
  BY DEF Blanks
<1> HIDE DEF s, W
<1>4. 3 \in 1 .. Len(s) /\ 1 \in 1 .. 3 - 1 /\ 4 \in 3 + 1 .. Len(s)
  BY <1>2
<1>5. (\A i \in 1 .. 3 - 1 : i = 1 \/ i = 2) /\ \A i \in 3 + 1 .. Len(s) : i = 4 \/ i = 5
  BY <1>2
<1>6. (\A i \in 1 .. 3 - 1 : s[i] # ":") /\ (\A i \in 1 .. 3 - 1 : s[i] \notin Blanks <=> i = 1)
  BY <1>3, <1>5
<1>7. \A i \in 3 + 1 .. Len(s) : s[i] \notin Blanks <=> i = 4
  BY <1>3, <1>5
<1>8. IsHeader(s) /\ Entry(s)[1] = <<Lower(s[1])>> /\ Entry(s)[2] = <<s[4]>>
  BY <1>1, <1>3, <1>4, <1>6, <1>7, LineRead
<1> QED
  BY <1>3, <1>8 DEF s

LEMMA NumeralIs ==
  ASSUME NEW n \in 0 .. MaxBody + 1
  PROVE  /\ ToString(n) \notin Blanks /\ ToString(n) # "3000000000"
         /\ \A m \in 0 .. MaxBody + 1 : ToString(m) = ToString(n) => m = n
  BY NumeralAssumption

LEMMA ExactBody ==
  ASSUME NEW r, IsRequest(r), r.length = "exact"
  PROVE  r.body \in 0 .. MaxBody + 1
<1>1. r.body \in Nat
  BY DEF IsRequest
<1>2. \/ r.length = "none" /\ r.body = 0
      \/ r.length = "exact" /\ r.body <= MaxBody + 1
      \/ r.length = "unreadable"
  BY DEF IsRequest
<1>3. r.body <= MaxBody + 1
  BY <1>2
<1>4. MaxBody \in Nat
  BY HttpAssumption
<1> QED
  BY <1>1, <1>3, <1>4

\* The two headers of a request.
LEMMA HeadersRead ==
  ASSUME NEW r, IsRequest(r)
  PROVE  LET h == Headers(Lines(r))
         IN  /\ header(h, <<"content-length">>) =
                  (IF r.length = "none" THEN <<>>
                   ELSE <<IF r.length = "exact" THEN ToString(r.body) ELSE "3000000000">>)
             /\ to_lower(header(h, <<"connection">>)) = (IF r.conn = "" THEN <<>> ELSE <<r.conn>>)
<1> DEFINE plain == r.style = "plain"
           v == IF r.length = "exact" THEN ToString(r.body) ELSE "3000000000"
           w == IF plain THEN (IF r.conn = "close" THEN "Close" ELSE "Keep-Alive") ELSE r.conn
           A == <<"Content-Length", ":", " ", v>>
           C == IF plain THEN <<"connection", " ", ":", w, " ">> ELSE <<"Connection", ":", " ", w>>
           J == <<"junk">>
           U == <<":", "junk">>
           X == {J, U, A, C}
           junk == IF plain THEN <<J, U>> ELSE <<>>
           about == IF r.length = "none" THEN <<>> ELSE <<A>>
           conn == IF r.conn = "" THEN <<>> ELSE <<C>>
           h == Headers(Lines(r))
<1>1. Lines(r) = (junk \o about) \o conn
  BY DEF Lines
<1>2. r.length # "none" => v \notin Blanks
  <2>1. CASE r.length = "exact"
    <3>1. r.body \in 0 .. MaxBody + 1
      BY <2>1, ExactBody
    <3>2. ToString(r.body) \notin Blanks
      BY <3>1, NumeralIs
    <3> QED
      BY <2>1, <3>2
  <2>2. CASE r.length # "exact"
    BY <2>2 DEF Blanks
  <2> QED
    BY <2>1, <2>2
<1>3. r.conn # "" => w \notin Blanks /\ Lower(w) = r.conn
  <2>1. r.conn \in {"", "close", "keep-alive"}
    BY DEF IsRequest
  <2> QED
    BY <2>1 DEF Blanks, Lower
<1> HIDE DEF v, w
<1>4. r.length # "none" => IsHeader(A) /\ Entry(A)[1] = <<"content-length">> /\ Entry(A)[2] = <<v>>
  <2>1. "Content-Length" \notin Blanks /\ "Content-Length" # ":" /\ Lower("Content-Length") = "content-length"
    BY DEF Blanks, Lower
  <2> QED
    BY <1>2, <2>1, LineWithBlank
<1>5. r.conn # "" => IsHeader(C) /\ Entry(C)[1] = <<"connection">> /\ Entry(C)[2] = <<w>>
  <2>1. /\ "Connection" \notin Blanks /\ "Connection" # ":" /\ Lower("Connection") = "connection"
        /\ "connection" \notin Blanks /\ "connection" # ":" /\ Lower("connection") = "connection"
    BY DEF Blanks, Lower
  <2>2. CASE plain
    BY <1>3, <2>1, <2>2, LineWithThree
  <2>3. CASE ~ plain
    BY <1>3, <2>1, <2>3, LineWithBlank
  <2> QED
    BY <2>2, <2>3
<1>6. J # <<>> /\ U # <<>> /\ A # <<>> /\ C # <<>>
  OBVIOUS
<1>7. ~ IsHeader(J) /\ ~ IsHeader(U)
  BY NoNameNoHeader
<1> HIDE DEF J, U, A, C
<1>8. <<>> \notin X /\ junk \in Seq(X) /\ about \in Seq(X) /\ conn \in Seq(X)
  <2>1. J \in X /\ U \in X /\ A \in X /\ C \in X /\ <<>> \notin X
    BY <1>6
  <2> HIDE DEF X
  <2>2. junk \in Seq(X)
    <3>1. <<J, U>> \in Seq(X) /\ <<>> \in Seq(X)
      BY <2>1
    <3> QED
      BY <3>1
  <2>3. about \in Seq(X)
    <3>1. <<A>> \in Seq(X) /\ <<>> \in Seq(X)
      BY <2>1
    <3> QED
      BY <3>1
  <2>4. conn \in Seq(X)
    <3>1. <<C>> \in Seq(X) /\ <<>> \in Seq(X)
      BY <2>1
    <3> QED
      BY <3>1
  <2> QED
    BY <2>1, <2>2, <2>3, <2>4
<1>9. \A i \in 1 .. Len(junk) : ~ IsHeader(junk[i])
  <2>1. CASE plain
    <3>1. \A i \in 1 .. Len(junk) : junk[i] \in {J, U}
      BY <2>1
    <3> QED
      BY <1>7, <3>1
  <2>2. CASE ~ plain
    BY <2>2
  <2> QED
    BY <2>1, <2>2
<1>10. about = <<>> \/ (Len(about) = 1 /\ IsHeader(about[1]) /\ Entry(about[1])[1] = <<"content-length">>)
  BY <1>4
<1>11. conn = <<>> \/ (Len(conn) = 1 /\ IsHeader(conn[1]) /\ Entry(conn[1])[1] = <<"connection">>)
  BY <1>5
<1>12. /\ (about = <<>> <=> r.length = "none") /\ (conn = <<>> <=> r.conn = "")
       /\ (r.length # "none" => about[1] = A) /\ (r.conn # "" => conn[1] = C)
  OBVIOUS
<1>13. <<"content-length">> # <<"connection">>
  OBVIOUS
<1> HIDE DEF junk, about, conn, X, plain
<1>14. /\ header(h, <<"content-length">>) = IF about = <<>> THEN <<>> ELSE Entry(about[1])[2]
       /\ header(h, <<"connection">>) = IF conn = <<>> THEN <<>> ELSE Entry(conn[1])[2]
  <2> DEFINE na == <<"content-length">>
             nc == <<"connection">>
  <2>1. AreLines(X, junk, about, conn, na, nc)
    BY <1>8, <1>9, <1>10, <1>11, <1>13 DEF AreLines
  <2> HIDE DEF na, nc
  <2>4. LET g == Headers((junk \o about) \o conn)
        IN  /\ header(g, na) = IF about = <<>> THEN <<>> ELSE Entry(about[1])[2]
            /\ header(g, nc) = IF conn = <<>> THEN <<>> ELSE Entry(conn[1])[2]
    BY <2>1, LinesRead
  <2> QED
    BY <1>1, <2>4 DEF na, nc
<1>15. header(h, <<"content-length">>) = IF r.length = "none" THEN <<>> ELSE <<v>>
  BY <1>4, <1>12, <1>14
<1>16. header(h, <<"connection">>) = IF r.conn = "" THEN <<>> ELSE <<w>>
  BY <1>5, <1>12, <1>14
<1>17. to_lower(<<>>) = <<>>
  BY DEF to_lower
<1>18. to_lower(<<w>>) = <<Lower(w)>>
  BY DEF to_lower
<1> HIDE DEF h
<1>19. to_lower(header(h, <<"connection">>)) = IF r.conn = "" THEN <<>> ELSE <<r.conn>>
  BY <1>3, <1>16, <1>17, <1>18
<1> QED
  BY <1>15, <1>19 DEF h, v

LEMMA SaidKeep ==
  ASSUME NEW r, IsRequest(r)
  PROVE  Said(r).keep = MeansToStay(r)
<1> DEFINE t == Target(Url(r))
           h == Headers(Lines(r))
           conn == to_lower(header(h, <<"connection">>))
<1>1. Said(r).keep = keep_alive(r.version, h)
  BY DEF Said
<1>2. conn = IF r.conn = "" THEN <<>> ELSE <<r.conn>>
  BY HeadersRead
<1>3. keep_alive(r.version, h) =
        IF r.version = "HTTP/1.1" THEN conn # <<"close">> ELSE conn = <<"keep-alive">>
  BY DEF keep_alive
<1> HIDE DEF h, conn
<1>4. (conn = <<"close">>) = (r.conn = "close") /\ (conn = <<"keep-alive">>) = (r.conn = "keep-alive")
  <2>1. r.conn \in {"", "close", "keep-alive"}
    BY DEF IsRequest
  <2> QED
    BY <1>2, <2>1
<1> QED
  BY <1>1, <1>3, <1>4 DEF MeansToStay

LEMMA SaidLength ==
  ASSUME NEW r, IsRequest(r)
  PROVE  Said(r).len = IF r.length = "exact" THEN r.body ELSE -1
<1> DEFINE h == Headers(Lines(r))
           value == header(h, <<"content-length">>)
           number == {n \in 0 .. MaxBody + 1 : value # <<>> /\ value[1] = ToString(n)}
<1>1. Said(r).len = content_length(h)
  BY DEF Said
<1>2. content_length(h) = IF number = {} THEN -1 ELSE CHOOSE n \in number : TRUE
  BY DEF content_length
<1>3. value = IF r.length = "none" THEN <<>>
              ELSE <<IF r.length = "exact" THEN ToString(r.body) ELSE "3000000000">>
  BY HeadersRead
<1> HIDE DEF value
<1>4. CASE r.length = "exact"
  <2>1. r.body \in 0 .. MaxBody + 1
    BY <1>4, ExactBody
  <2>2. value # <<>> /\ value[1] = ToString(r.body)
    BY <1>3, <1>4
  <2>3. number = {r.body}
    BY <2>1, <2>2, NumeralIs
  <2> HIDE DEF number
  <2>4. (CHOOSE n \in number : TRUE) = r.body
    BY <2>3
  <2> QED
    BY <1>1, <1>2, <1>4, <2>3, <2>4
<1>5. CASE r.length = "none"
  <2>1. number = {}
    BY <1>3, <1>5
  <2> HIDE DEF number
  <2> QED
    BY <1>1, <1>2, <1>5, <2>1
<1>6. CASE r.length \notin {"none", "exact"}
  <2>1. value # <<>> /\ value[1] = "3000000000"
    BY <1>3, <1>6
  <2>2. number = {}
    BY <2>1, NumeralIs
  <2> HIDE DEF number
  <2> QED
    BY <1>1, <1>2, <1>6, <2>2
<1> QED
  BY <1>4, <1>5, <1>6

\* parse() reads the path, the fields, the length of the body and what becomes of
\* the connection as the client meant them, for every request, and lets no path
\* through that has a name with two dots.
THEOREM SaidAsMeant ==
  \A r : IsRequest(r) =>
    /\ Said(r).path = r.path /\ Said(r).query = MeantBy(r.fields)
    /\ Said(r).keep = MeansToStay(r)
    /\ Said(r).len = IF r.length = "exact" THEN r.body ELSE -1
    /\ Said(r).sound => \A name \in Range(r.path) : ~ HasDots(name)
  BY SaidPath, SaidKeep, SaidLength

-----------------------------------------------------------------------------
(* Sequences.                                                              *)

LEMMA Appended ==
  ASSUME NEW q, q \in Seq(Range(q)), NEW v
  PROVE  /\ Append(q, v) \in Seq(Range(Append(q, v)))
         /\ Len(Append(q, v)) = Len(q) + 1 /\ Len(q) \in Nat
         /\ \A i \in 1 .. Len(q) : Append(q, v)[i] = q[i]
         /\ Append(q, v)[Len(q) + 1] = v
         /\ DOMAIN q = 1 .. Len(q) /\ DOMAIN Append(q, v) = 1 .. Len(q) + 1
         /\ Range(Append(q, v)) = Range(q) \cup {v}
<1> DEFINE S == Range(q) \cup {v}
<1>1. q \in Seq(S)
  OBVIOUS
<1>2. /\ Append(q, v) \in Seq(S)
      /\ Len(Append(q, v)) = Len(q) + 1
      /\ \A i \in 1 .. Len(q) : Append(q, v)[i] = q[i]
      /\ Append(q, v)[Len(q) + 1] = v
  BY <1>1, AppendProperties
<1>3. /\ DOMAIN q = 1 .. Len(q) /\ Len(q) \in Nat
      /\ DOMAIN Append(q, v) = 1 .. Len(q) + 1
  BY <1>1, <1>2, LenProperties
<1>4. Range(Append(q, v)) = Range(q) \cup {v}
  BY <1>2, <1>3 DEF Range
<1>5. QED
  BY <1>2, <1>3, <1>4

-----------------------------------------------------------------------------
(* Units.                                                                  *)

\* What was sent and is not read yet, and the unit that comes next.
Window == Append(stream, at)

\* v is the n-th unit behind u.
More(u) == 4 + dialog[u.of].body - u.nth

Follows(u, n, v) ==
  /\ n <= More(u) => v = [of |-> u.of, nth |-> u.nth + n]
  /\ n = More(u) + 1 => v = [of |-> u.of + 1, nth |-> 1]
  /\ n > More(u) => v.of > u.of

Units == [of : Nat \ {0}, nth : Nat \ {0}]

\* A request is being handled.
InHand == {"body", "middleware", "routes", "match", "handler"}

Typed ==
  /\ dialog \in Dialogs
  /\ said = [i \in DOMAIN dialog |-> Said(dialog[i])]
  /\ stream \in Seq(Units) /\ at \in Units
  /\ calls \in Seq(Range(calls)) /\ answers \in Seq(Range(answers))
  /\ next \in Nat \ {0}
  /\ pc \in InHand => DOMAIN req = {"of", "method", "whole", "path", "query", "keep", "len", "sound"}
  /\ pc = "body" => req.len \in Nat

\* The window is a piece of the dialog without gaps.
Gapless ==
  /\ \A u \in Range(stream) : u.of \in DOMAIN dialog
  /\ \A u \in Range(Window) : u.of \in DOMAIN dialog => More(u) >= 0
  /\ \A j, k \in DOMAIN Window : j < k => Follows(Window[j], k - j, Window[k])

\* The header block of request i is read.
HeadRead(i) ==
  /\ i \in Nat
  /\ ~ closed => \A u \in Range(Window) : u.of > i \/ (u.of = i /\ u.nth > 4)

\* The request in hand is a new one.
Fresh ==
  /\ pc \in {"parse", "body"} => ~ closed
  /\ \A c \in Range(calls) : HeadRead(c.req.of)
  /\ pc # "done" => \A a \in Range(answers) : HeadRead(a.to)
  /\ pc \in InHand \cup {"loop"} => HeadRead(req.of)
  /\ pc \in InHand => /\ \A c \in Range(calls) : c.req.of < req.of
                      /\ \A a \in Range(answers) : a.to < req.of

CallsInOrder == \A i, j \in DOMAIN calls : i < j => calls[i].req.of < calls[j].req.of

Ordered == Typed /\ Gapless /\ Fresh /\ CallsInOrder /\ AnswersInOrder

\* parse() is left where a request begins, unless the length of a body could
\* not be read before.
AtStart(u) == u.nth = 1 \/ (u.nth > 4 /\ ~ Measured(u.of))

Aligned ==
  /\ ~ closed /\ pc \notin {"body", "bad", "done"} => AtStart(Window[1])
  /\ pc = "body" => /\ req.of \in DOMAIN dialog
                    /\ req.len = dialog[req.of].body /\ req.len > 0
                    /\ Window[1] = [of |-> req.of, nth |-> 5]

OwnMethods ==
  /\ \A c \in Range(calls) : Measured(c.req.of - 1) => c.req.method = dialog[c.req.of].method
  /\ pc \in InHand => (Measured(req.of - 1) => req.method = dialog[req.of].method)

\* A request says what its header block says.
Faithful(r) ==
  /\ r.of \in DOMAIN dialog /\ said[r.of].sound
  /\ r.keep = said[r.of].keep /\ r.path = said[r.of].path /\ r.query = said[r.of].query

AsSaid ==
  /\ \A c \in Range(calls) : Faithful(c.req)
  /\ pc \in InHand \cup {"loop"} => Faithful(req)

\* Whatever is taken up comes behind requests that keep the connection; while a
\* request is in hand, nothing behind it has been read.
Stays ==
  /\ \A c \in Range(calls) : StayedBefore(c.req.of)
  /\ \A a \in Range(answers) : a.code # 400 => StayedBefore(a.to)
  /\ pc \in InHand \cup {"loop"} => StayedBefore(req.of)
  /\ pc = "parse" => \A i \in DOMAIN dialog : HasRead(i) => MeansToStay(dialog[i])
  /\ pc \in InHand \cup {"loop"} /\ ~ closed => \A i \in DOMAIN dialog : HasRead(i) => i <= req.of

NoRefusal ==
  /\ \A i \in DOMAIN answers : answers[i].code = 400 => i = Len(answers)
  /\ pc # "done" => \A a \in Range(answers) : a.code # 400

\* The loop over the routes has tried those in front of next in vain.
Tried ==
  /\ pc \in {"routes", "match", "handler"} =>
       \A r \in 1 .. next - 1 : ~ Suits(RouteTable[r], req.method, req.path)
  /\ pc = "routes" => next <= Len(RouteTable) + 1
  /\ pc \in {"match", "handler"} => next \in DOMAIN RouteTable
  /\ pc = "handler" => Suits(RouteTable[next], req.method, req.path)
  /\ pc \in {"routes", "match"} =>
       pathSeen = \E r \in 1 .. next - 1 : Matches(RouteTable[r].pattern, req.path)
  /\ pc = "match" => pattern = RouteTable[next].pattern /\ path = req.path

\* A handler is that of the first route that suits.
Chosen ==
  \A c \in Range(calls) :
    /\ c.route \in DOMAIN RouteTable /\ Suits(RouteTable[c.route], c.req.method, c.req.path)
    /\ \A r \in 1 .. c.route - 1 : ~ Suits(RouteTable[r], c.req.method, c.req.path)

\* The answer a to a request that no handler got tells what is wrong with it.
Tells(a) == a.code = 405 <=> \E r \in DOMAIN RouteTable : Matches(RouteTable[r].pattern, dialog[a.to].path)

Told ==
  \A a \in Range(answers) :
    a.code \in {404, 405} => (\E c \in Range(calls) : c.req.of = a.to) \/ Tells(a)

LEMMA PartIs ==
  ASSUME NEW u \in Units
  PROVE  /\ Part(u) = "end" <=> u.nth = 4
         /\ Part(u) \in {"version", "fields"} => u.nth <= 3
         /\ Part(u) = "body" <=> u.nth > 4
<1>1. u.nth \in Nat \ {0}
  BY DEF Units
<1>2. u.nth \in {1, 2, 3, 4} \/ u.nth > 4
  BY <1>1
<1>3. QED
  BY <1>1, <1>2 DEF Part

LEMMA Bodies ==
  ASSUME dialog \in Dialogs
  PROVE  /\ dialog \in Seq(Range(dialog)) /\ DOMAIN dialog = 1 .. Len(dialog) /\ Len(dialog) \in Nat
         /\ \A i \in DOMAIN dialog :
              dialog[i] \in Range(dialog) /\ IsRequest(dialog[i]) /\ dialog[i].body \in Nat
<1>1. /\ dialog \in Seq(Range(dialog))
      /\ \A r \in Range(dialog) : IsRequest(r) /\ r.body \in Nat
  BY HttpAssumption, ClientAssumption DEF IsRequest
<1>2. \A i \in DOMAIN dialog : dialog[i] \in Range(dialog)
  BY DEF Range
<1>3. DOMAIN dialog = 1 .. Len(dialog) /\ Len(dialog) \in Nat
  BY <1>1, LenProperties
<1>4. QED
  BY <1>1, <1>2, <1>3

LEMMA WindowIs ==
  ASSUME Typed
  PROVE  /\ Len(stream) \in Nat /\ DOMAIN stream = 1 .. Len(stream)
         /\ \A k \in 1 .. Len(stream) : stream[k] \in Units /\ Window[k] = stream[k]
         /\ Window[Len(stream) + 1] = at
         /\ Window \in Seq(Units) /\ Len(Window) = Len(stream) + 1
         /\ DOMAIN Window = 1 .. Len(stream) + 1
         /\ \A k \in DOMAIN Window : Window[k] \in Units /\ Window[k] \in Range(Window)
         /\ Range(Window) = Range(stream) \cup {at}
<1>1. stream \in Seq(Units) /\ at \in Units
  BY DEF Typed
<1>2. /\ Window \in Seq(Units) /\ Len(Window) = Len(stream) + 1
      /\ \A k \in 1 .. Len(stream) : Window[k] = stream[k]
      /\ Window[Len(stream) + 1] = at
  BY <1>1, AppendProperties DEF Window
<1>3. /\ DOMAIN stream = 1 .. Len(stream) /\ Len(stream) \in Nat
      /\ DOMAIN Window = 1 .. Len(stream) + 1
      /\ \A k \in 1 .. Len(stream) : stream[k] \in Units
  BY <1>1, <1>2, LenProperties, ElementOfSeq
<1>4. \A k \in DOMAIN Window : Window[k] \in Units /\ Window[k] \in Range(Window)
  BY <1>1, <1>2, <1>3 DEF Range
<1>5. Range(Window) = Range(stream) \cup {at}
  BY <1>2, <1>3 DEF Range
<1>6. QED
  BY <1>2, <1>3, <1>4, <1>5

\* The next unit follows all that the last one follows.
LEMMA FollowsOn ==
  ASSUME dialog \in Dialogs,
         NEW u \in Units, u.of \in DOMAIN dialog, More(u) >= 0,
         NEW v \in Units, v.of \in DOMAIN dialog, More(v) >= 0
  PROVE  /\ Following(v) \in Units
         /\ Follows(v, 1, Following(v))
         /\ \A n \in Nat \ {0} : Follows(u, n, v) => Follows(u, n + 1, Following(v))
         /\ Following(v).of \in DOMAIN dialog => More(Following(v)) >= 0
         /\ Following(v).of > v.of \/ (Following(v).of = v.of /\ Following(v).nth = v.nth + 1)
<1>1. /\ u.of \in Nat \ {0} /\ u.nth \in Nat \ {0} /\ dialog[u.of].body \in Nat
      /\ v.of \in Nat \ {0} /\ v.nth \in Nat \ {0} /\ dialog[v.of].body \in Nat
      /\ v = [of |-> v.of, nth |-> v.nth]
  BY Bodies DEF Units
<1>2. More(u) = 4 + dialog[u.of].body - u.nth /\ More(v) = 4 + dialog[v.of].body - v.nth
  BY DEF More
<1>3. CASE v.nth < 4 + dialog[v.of].body
  <2>1. Following(v) = [of |-> v.of, nth |-> v.nth + 1] /\ More(v) >= 1
    BY <1>1, <1>2, <1>3 DEF Following
  <2>2. ASSUME NEW n \in Nat \ {0}, Follows(u, n, v) PROVE Follows(u, n + 1, Following(v))
    <3>1. CASE n <= More(u)
      <4>1. v.of = u.of /\ v.nth = u.nth + n
        BY <2>2, <3>1 DEF Follows
      <4>2. n + 1 <= More(u)
        BY <1>1, <1>2, <2>1, <4>1
      <4>3. QED
        BY <1>1, <1>2, <2>1, <4>1, <4>2 DEF Follows
    <3>2. CASE n > More(u)
      <4>1. v.of > u.of
        BY <2>2, <3>2 DEF Follows
      <4>2. QED
        BY <1>1, <1>2, <2>1, <3>2, <4>1 DEF Follows
    <3>3. QED
      BY <1>1, <1>2, <3>1, <3>2
  <2>3. Follows(v, 1, Following(v))
    BY <1>1, <1>2, <2>1 DEF Follows
  <2>4. Following(v) \in Units /\ More(Following(v)) >= 0
    BY <1>1, <1>2, <2>1 DEF Units, More
  <2>5. QED
    BY <1>1, <2>1, <2>2, <2>3, <2>4
<1>4. CASE ~ (v.nth < 4 + dialog[v.of].body)
  <2>1. Following(v) = [of |-> v.of + 1, nth |-> 1] /\ More(v) = 0
    BY <1>1, <1>2, <1>4 DEF Following
  <2>2. ASSUME NEW n \in Nat \ {0}, Follows(u, n, v) PROVE Follows(u, n + 1, Following(v))
    <3>1. CASE n <= More(u)
      <4>1. v.of = u.of /\ v.nth = u.nth + n
        BY <2>2, <3>1 DEF Follows
      <4>2. n = More(u)
        BY <1>1, <1>2, <2>1, <3>1, <4>1
      <4>3. QED
        BY <1>1, <1>2, <2>1, <4>1, <4>2 DEF Follows
    <3>2. CASE n > More(u)
      <4>1. v.of > u.of
        BY <2>2, <3>2 DEF Follows
      <4>2. QED
        BY <1>1, <1>2, <2>1, <3>2, <4>1 DEF Follows
    <3>3. QED
      BY <1>1, <1>2, <3>1, <3>2
  <2>3. Follows(v, 1, Following(v))
    BY <1>1, <1>2, <2>1 DEF Follows
  <2>4. /\ Following(v) \in Units
        /\ Following(v).of \in DOMAIN dialog => More(Following(v)) >= 0
    <3>1. ASSUME v.of + 1 \in DOMAIN dialog PROVE More(Following(v)) >= 0
      <4>1. dialog[v.of + 1].body \in Nat
        BY <3>1, Bodies
      <4>2. QED
        BY <2>1, <4>1 DEF More
    <3>2. QED
      BY <1>1, <2>1, <3>1 DEF Units
  <2>5. QED
    BY <1>1, <2>1, <2>2, <2>3, <2>4
<1>5. QED
  BY <1>3, <1>4

-----------------------------------------------------------------------------
(* The bytes: the client appends, the server takes from the front.         *)

LEMMA UnitAppended ==
  \A q \in Seq(Units), u \in Units :
    /\ Append(q, u) \in Seq(Units) /\ Len(Append(q, u)) = Len(q) + 1
    /\ \A k \in 1 .. Len(q) : Append(q, u)[k] = q[k]
    /\ Append(q, u)[Len(q) + 1] = u
BY AppendProperties

LEMMA GaplessIs ==
  ASSUME Gapless
  PROVE  /\ \A u \in Range(stream) : u.of \in DOMAIN dialog
         /\ \A u \in Range(Window) : u.of \in DOMAIN dialog => More(u) >= 0
         /\ \A j, k \in DOMAIN Window : j < k => Follows(Window[j], k - j, Window[k])
BY DEF Gapless

\* m units are read.
LEMMA Taken ==
  ASSUME Typed, Gapless, NEW m \in 0 .. Len(stream),
         dialog' = dialog, at' = at, stream' = SubSeq(stream, m + 1, Len(stream))
  PROVE  /\ stream' \in Seq(Units)
         /\ DOMAIN Window' = 1 .. Len(stream) - m + 1
         /\ \A k \in DOMAIN Window' : k + m \in DOMAIN Window /\ Window'[k] = Window[k + m]
         /\ Range(Window') \subseteq Range(Window)
         /\ Gapless'
<1>1. /\ Len(stream) \in Nat /\ stream \in Seq(Units) /\ at \in Units
      /\ \A k \in 1 .. Len(stream) : Window[k] = stream[k]
      /\ Window[Len(stream) + 1] = at /\ DOMAIN Window = 1 .. Len(stream) + 1
      /\ DOMAIN stream = 1 .. Len(stream)
  BY WindowIs DEF Typed
<1>2. /\ stream' \in Seq(Units) /\ Len(stream') = Len(stream) - m
      /\ \A k \in 1 .. Len(stream) - m : stream'[k] = stream[k + m]
  <2> DEFINE n == Len(stream)
  <2>1. m \in Int /\ m + 1 \in Int /\ n \in Nat /\ m <= n
    BY <1>1
  <2>2. \A i \in m + 1 .. n : stream[i] \in Units
    BY <1>1, ElementOfSeq
  <2> HIDE DEF n
  <2>3. /\ SubSeq(stream, m + 1, n) \in Seq(Units)
        /\ Len(SubSeq(stream, m + 1, n)) = (IF m + 1 <= n THEN n - (m + 1) + 1 ELSE 0)
        /\ \A i \in 1 .. n - (m + 1) + 1 : SubSeq(stream, m + 1, n)[i] = stream[m + 1 + i - 1]
    BY <2>1, <2>2, SubSeqProperties
  <2>4. n - (m + 1) + 1 = n - m /\ \A k \in 1 .. n - m : m + 1 + k - 1 = k + m
    BY <2>1
  <2>5. Len(SubSeq(stream, m + 1, n)) = n - m
    BY <2>1, <2>3
  <2> QED
    BY <2>3, <2>4, <2>5 DEF n
<1>3. /\ Window' \in Seq(Units) /\ Len(Window') = Len(stream) - m + 1
      /\ \A k \in 1 .. Len(stream) - m : Window'[k] = stream'[k]
      /\ Window'[Len(stream) - m + 1] = at
  <2>1. Window' = Append(stream', at)
    BY DEF Window
  <2>2. /\ Append(stream', at) \in Seq(Units) /\ Len(Append(stream', at)) = Len(stream') + 1
        /\ \A k \in 1 .. Len(stream') : Append(stream', at)[k] = stream'[k]
        /\ Append(stream', at)[Len(stream') + 1] = at
    BY <1>1, <1>2, UnitAppended, Zenon
  <2>3. QED
    BY <1>2, <2>1, <2>2
<1>4. DOMAIN Window' = 1 .. Len(stream) - m + 1 /\ DOMAIN stream' = 1 .. Len(stream) - m
  BY <1>2, <1>3, LenProperties
<1>5. ASSUME NEW k \in DOMAIN Window' PROVE k + m \in DOMAIN Window /\ Window'[k] = Window[k + m]
  <2>1. k \in 1 .. Len(stream) - m + 1 /\ k + m \in 1 .. Len(stream) + 1
    BY <1>1, <1>4, <1>5
  <2>2. CASE k = Len(stream) - m + 1
    BY <1>1, <1>3, <2>1, <2>2
  <2>3. CASE k \in 1 .. Len(stream) - m
    <3>1. k + m \in 1 .. Len(stream)
      BY <1>1, <2>3
    <3>2. Window'[k] = stream'[k] /\ stream'[k] = stream[k + m]
      BY <1>2, <1>3, <2>3
    <3>3. QED
      BY <1>1, <2>1, <3>1, <3>2
  <2>4. QED
    BY <1>1, <2>1, <2>2, <2>3
<1>6. Range(Window') \subseteq Range(Window)
  BY <1>5 DEF Range
<1>7. Range(stream') \subseteq Range(stream)
  <2>1. ASSUME NEW k \in DOMAIN stream' PROVE k + m \in DOMAIN stream /\ stream'[k] = stream[k + m]
    <3>1. k \in 1 .. Len(stream) - m
      BY <1>4
    <3>2. k + m \in 1 .. Len(stream)
      BY <1>1, <3>1
    <3> QED
      BY <1>1, <1>2, <3>1, <3>2
  <2>2. QED
    BY <2>1 DEF Range
<1>8. \A j, k \in DOMAIN Window' : j < k => Follows(Window'[j], k - j, Window'[k])
  <2>1. ASSUME NEW j \in DOMAIN Window', NEW k \in DOMAIN Window', j < k
        PROVE  Follows(Window'[j], k - j, Window'[k])
    <3>1. j + m < k + m /\ (k + m) - (j + m) = k - j
      BY <1>1, <1>4, <2>1
    <3>2. Follows(Window[j + m], (k + m) - (j + m), Window[k + m])
      BY <1>5, <2>1, <3>1, GaplessIs
    <3>3. QED
      BY <1>5, <2>1, <3>1, <3>2
  <2>2. QED
    BY <2>1
<1>9. Gapless'
  <2>1. (\A u \in Range(stream) : u.of \in DOMAIN dialog)'
    BY <1>7, GaplessIs
  <2>2. (\A u \in Range(Window) : u.of \in DOMAIN dialog => More(u) >= 0)'
    BY <1>6, GaplessIs DEF More
  <2>3. (\A j, k \in DOMAIN Window : j < k => Follows(Window[j], k - j, Window[k]))'
    BY <1>8 DEF Follows, More
  <2>4. QED
    BY <2>1, <2>2, <2>3 DEF Gapless
<1>10. QED
  BY <1>2, <1>4, <1>5, <1>6, <1>9

\* The client sends a unit.
LEMMA Sent ==
  ASSUME Typed, Gapless, ClientSends
  PROVE  /\ stream' \in Seq(Units) /\ at' \in Units
         /\ Window'[1] = Window[1]
         /\ Range(Window') = Range(Window) \cup {Following(at)}
         /\ at.of \in DOMAIN dialog /\ More(at) >= 0
         /\ Gapless'
<1>1. /\ Len(stream) \in Nat /\ stream \in Seq(Units) /\ at \in Units
      /\ \A k \in 1 .. Len(stream) : Window[k] = stream[k] /\ stream[k] \in Range(stream)
      /\ Window[Len(stream) + 1] = at /\ DOMAIN Window = 1 .. Len(stream) + 1
      /\ Window \in Seq(Units) /\ at \in Range(Window)
      /\ Range(Window) = Range(stream) \cup {at}
      /\ DOMAIN stream = 1 .. Len(stream)
  BY WindowIs DEF Typed, Range
<1>2. stream' = Window /\ at' = Following(at) /\ dialog' = dialog /\ at.of <= Len(dialog)
  BY DEF ClientSends, Window
<1>3. dialog \in Dialogs /\ at.of \in DOMAIN dialog
  BY <1>1, <1>2, Bodies DEF Typed, Units
<1>4. More(at) >= 0
  BY <1>1, <1>3 DEF Gapless
<1>5. at' \in Units /\ (at'.of \in DOMAIN dialog => More(at') >= 0)
  BY <1>1, <1>2, <1>3, <1>4, FollowsOn
<1>6. Window' = Append(Window, at')
  BY <1>2 DEF Window
<1>7. /\ Len(Window') = Len(stream) + 2
      /\ \A k \in 1 .. Len(stream) + 1 : Window'[k] = Window[k]
      /\ Window'[Len(stream) + 2] = at' /\ Window' \in Seq(Units)
  BY <1>1, <1>5, <1>6, AppendProperties, LenProperties
<1>8. DOMAIN Window' = 1 .. Len(stream) + 2
  BY <1>7, LenProperties
<1>9. Range(Window') = Range(Window) \cup {at'}
  <2>1. \A k \in DOMAIN Window' : k \in DOMAIN Window \/ k = Len(stream) + 2
    BY <1>1, <1>8
  <2>2. \A k \in DOMAIN Window : k \in DOMAIN Window' /\ Window'[k] = Window[k]
    BY <1>1, <1>7, <1>8
  <2>3. Len(stream) + 2 \in DOMAIN Window' /\ Window'[Len(stream) + 2] = at'
    BY <1>1, <1>7, <1>8
  <2>4. QED
    BY <2>1, <2>2, <2>3 DEF Range
<1>10. \A u \in Range(stream) : u \in Units /\ u.of \in DOMAIN dialog /\ More(u) >= 0
  <2>1. \A u \in Range(stream) : u \in Units
    BY <1>1, WindowIs DEF Range
  <2>2. QED
    BY <1>1, <2>1, GaplessIs
<1>11. ASSUME NEW j \in DOMAIN Window', NEW k \in DOMAIN Window', j < k
       PROVE  Follows(Window'[j], k - j, Window'[k])
  <2>1. CASE k <= Len(stream) + 1
    <3>1. j \in DOMAIN Window /\ k \in DOMAIN Window
      BY <1>1, <1>8, <1>11, <2>1
    <3>2. QED
      BY <1>1, <1>7, <1>11, <3>1, GaplessIs
  <2>2. CASE k = Len(stream) + 2 /\ j = Len(stream) + 1
    <3>1. Window'[j] = at /\ Window'[k] = Following(at) /\ k - j = 1
      BY <1>1, <1>2, <1>7, <2>2
    <3>2. Follows(at, 1, Following(at))
      BY <1>1, <1>3, <1>4, FollowsOn
    <3>3. QED
      BY <3>1, <3>2
  <2>3. CASE k = Len(stream) + 2 /\ j < Len(stream) + 1
    <3> DEFINE n == Len(stream) + 1 - j
               u == stream[j]
    <3>1. j \in 1 .. Len(stream) /\ n \in Nat \ {0} /\ k - j = n + 1
      BY <1>1, <1>8, <2>3
    <3>2. Window'[j] = u /\ Window[j] = u /\ Window'[k] = Following(at)
      BY <1>1, <1>2, <1>7, <2>3, <3>1
    <3>3. Follows(u, n, at)
      <4>1. j \in DOMAIN Window /\ Len(stream) + 1 \in DOMAIN Window /\ j < Len(stream) + 1
        BY <1>1, <3>1, SMTT(20)
      <4>2. PICK p \in DOMAIN Window : p = Len(stream) + 1
        BY <4>1
      <4>3. Follows(Window[j], p - j, Window[p])
        BY <4>1, <4>2, GaplessIs
      <4>4. Window[j] = u /\ Window[p] = at /\ p - j = n
        BY <1>1, <3>2, <4>2
      <4>5. QED
        BY <4>3, <4>4 DEF Follows
    <3>4. u \in Units /\ u.of \in DOMAIN dialog /\ More(u) >= 0
      BY <1>1, <1>10, <3>1
    <3>5. Follows(u, n + 1, Following(at))
      BY <1>1, <1>3, <1>4, <3>1, <3>3, <3>4, FollowsOn
    <3>6. QED
      BY <3>1, <3>2, <3>5
  <2>4. k \in 1 .. Len(stream) + 2 /\ j \in 1 .. Len(stream) + 2 /\ j < k
    BY <1>8, <1>11
  <2>5. QED
    BY <1>1, <2>1, <2>2, <2>3, <2>4
<1>12. Gapless'
  <2>1. (\A u \in Range(stream) : u.of \in DOMAIN dialog)'
    BY <1>1, <1>2, <1>3, <1>10
  <2>2. (\A u \in Range(Window) : u.of \in DOMAIN dialog => More(u) >= 0)'
    BY <1>2, <1>5, <1>9, GaplessIs DEF More
  <2>3. (\A j, k \in DOMAIN Window : j < k => Follows(Window[j], k - j, Window[k]))'
    BY <1>2, <1>11 DEF Follows, More
  <2>4. QED
    BY <2>1, <2>2, <2>3 DEF Gapless
<1>13. QED
  BY <1>1, <1>2, <1>3, <1>4, <1>5, <1>7, <1>9, <1>12

LEMMA BlockIs ==
  ASSUME NEW q \in Seq(Units), NEW e \in 1 .. Len(q)
  PROVE  Last(SubSeq(q, 1, e)) = q[e] /\ Head(SubSeq(q, 1, e)) = q[1]
<1>1. /\ SubSeq(q, 1, e) \in Seq(Units) /\ Len(SubSeq(q, 1, e)) = e
      /\ \A i \in 1 .. e : SubSeq(q, 1, e)[i] = q[i]
  OBVIOUS
<1>2. QED
  BY <1>1 DEF Last

-----------------------------------------------------------------------------
(* The steps.                                                              *)

\* A response is written for the request in hand, or nothing.
Answered ==
  /\ closed' = closed \/ closed' = TRUE
  /\ \/ answers' = answers
     \/ \E code \in Nat \ {400} : answers' = Append(answers, [code |-> code, to |-> req.of])

Quiet ==
  /\ UNCHANGED <<dialog, said, at, stream, req, calls, answers, closed>>
  /\ \/ pc' = pc
     \/ pc \in {"middleware", "routes", "match"} /\ pc' \in {"routes", "match", "handler"}
     \/ pc = "loop" /\ pc' = "done"
     \/ pc = "loop" /\ pc' = "parse" /\ req.keep /\ ~ closed

\* The request is done with, without a handler or with one.
Refuses ==
  /\ pc \in {"middleware", "routes"} /\ pc' = "loop"
  /\ UNCHANGED <<dialog, said, at, stream, req, calls>>
  /\ Answered

Handles ==
  /\ pc = "handler" /\ pc' = "loop"
  /\ UNCHANGED <<dialog, said, at, stream, req>>
  /\ Call /\ Answered

LEMMA AnswerIs ==
  ASSUME NEW code \in Nat \ {400}, Answer(code, req.of)
  PROVE  Answered
BY DEF Answer, Answered

LEMMA Kinds ==
  ASSUME [Next]_vars
  PROVE  \/ Quiet \/ ClientSends \/ ParseHead \/ ParseCut \/ ParseBody \/ ParseBodyCut
         \/ BadRequest \/ Refuses \/ Handles
<1>1. ASSUME HangUp \/ Dispatch \/ StartMatch \/ MatchStep \/ TryRoute PROVE Quiet
  BY <1>1 DEF HangUp, Dispatch, StartMatch, MatchStep, TryRoute, Quiet, clientVars, serverVars
<1>2. CASE Loop
  <2>1. UNCHANGED <<dialog, said, at, stream, req, calls, answers, closed>> /\ pc = "loop"
    BY <1>2 DEF Loop, clientVars
  <2>2. CASE req.keep /\ ~ closed
    BY <1>2, <2>1, <2>2 DEF Loop, Quiet
  <2>3. CASE ~ (req.keep /\ ~ closed)
    BY <1>2, <2>1, <2>3 DEF Loop, Quiet
  <2>4. QED
    BY <2>2, <2>3
<1>3. CASE Middleware
  <2>1. UNCHANGED <<dialog, said, at, stream, req, calls>> /\ pc = "middleware"
    BY <1>3 DEF Middleware, clientVars
  <2>2. CASE next' = next + 1 /\ UNCHANGED <<pc, answers, closed>>
    BY <2>1, <2>2 DEF Quiet
  <2>3. CASE pc' = "loop" /\ UNCHANGED <<answers, closed>>
    BY <2>1, <2>3 DEF Refuses, Answered
  <2>4. CASE pc' = "loop" /\ Answer(403, req.of)
    BY <2>1, <2>4, AnswerIs DEF Refuses
  <2>5. QED
    BY <1>3, <2>2, <2>3, <2>4 DEF Middleware
<1>4. CASE NoRoute
  <2>1. UNCHANGED <<dialog, said, at, stream, req, calls>> /\ pc = "routes" /\ pc' = "loop"
    BY <1>4 DEF NoRoute, clientVars
  <2>2. \E code \in {404, 405} : Answer(code, req.of)
    BY <1>4 DEF NoRoute
  <2>3. QED
    BY <2>1, <2>2, AnswerIs DEF Refuses
<1>5. CASE Handler
  <2>1. /\ UNCHANGED <<dialog, said, at, stream, req>> /\ pc = "handler" /\ pc' = "loop"
        /\ Call
    BY <1>5 DEF Handler, clientVars
  <2>2. CASE \E code \in {200, 302, 404, 500} : Answer(code, req.of)
    BY <2>1, <2>2, AnswerIs DEF Handles
  <2>3. CASE UNCHANGED <<answers, closed>>
    BY <2>1, <2>3 DEF Handles, Answered
  <2>4. QED
    BY <1>5, <2>2, <2>3 DEF Handler
<1>6. CASE UNCHANGED vars
  BY <1>6 DEF vars, clientVars, serverVars, Quiet
<1>7. QED
  BY <1>1, <1>2, <1>3, <1>4, <1>5, <1>6 DEF Next, Server

\* What parse() takes from the stream.
LEMMA HeadTaken ==
  ASSUME Typed, Gapless, ParseHead
  PROVE  \E e \in 1 .. Len(stream) :
           /\ stream[e].nth = 4 /\ Window[e] = stream[e] /\ stream[e].of \in DOMAIN dialog
           /\ req' = Parsed(SubSeq(stream, 1, e))
           /\ Last(SubSeq(stream, 1, e)) = stream[e] /\ Head(SubSeq(stream, 1, e)) = stream[1]
           /\ dialog' = dialog /\ at' = at /\ said' = said
           /\ stream' = SubSeq(stream, e + 1, Len(stream))
           /\ \A l \in 1 .. e - 1 : stream[l].nth # 4
<1>1. PICK e \in DOMAIN stream :
        /\ Part(stream[e]) = "end"
        /\ \A i \in 1 .. e - 1 : Part(stream[i]) # "end"
        /\ req' = Parsed(SubSeq(stream, 1, e))
        /\ stream' = SubSeq(stream, e + 1, Len(stream))
  BY DEF ParseHead
<1>2. /\ Len(stream) \in Nat /\ DOMAIN stream = 1 .. Len(stream) /\ stream \in Seq(Units)
      /\ stream[e] \in Units /\ Window[e] = stream[e] /\ stream[e] \in Range(stream)
  BY WindowIs DEF Typed, Range
<1>3. stream[e].nth = 4 /\ stream[e].of \in DOMAIN dialog
  BY <1>1, <1>2, PartIs, GaplessIs
<1>4. Last(SubSeq(stream, 1, e)) = stream[e] /\ Head(SubSeq(stream, 1, e)) = stream[1]
  BY <1>2, BlockIs
<1>5. ASSUME NEW l \in 1 .. e - 1 PROVE stream[l].nth # 4
  <2>1. stream[l] \in Units
    BY <1>2, WindowIs
  <2>2. QED
    BY <1>1, <2>1, PartIs
<1>6. QED
  BY <1>1, <1>2, <1>3, <1>4, <1>5 DEF ParseHead

\* The request of a header block that was cut off.
LEMMA CutTaken ==
  ASSUME Typed, Gapless, ParseCut, pc' # "bad"
  PROVE  \E i \in 1 .. Len(stream) :
           /\ stream[i].nth <= 3 /\ Window[i] = stream[i] /\ stream[i].of \in DOMAIN dialog
           /\ req' = [Parsed(SubSeq(stream, 1, i)) EXCEPT !.whole = FALSE] /\ req'.sound
           /\ Last(SubSeq(stream, 1, i)) = stream[i] /\ Head(SubSeq(stream, 1, i)) = stream[1]
           /\ pc' = "middleware"
           /\ \A l \in 1 .. i - 1 : stream[l].nth # 4
<1>1. PICK i \in DOMAIN stream :
        /\ Part(stream[i]) \in {"version", "fields"}
        /\ req' = [Parsed(SubSeq(stream, 1, i)) EXCEPT !.whole = FALSE] /\ req'.sound
        /\ pc' = "middleware"
  BY DEF ParseCut
<1>2. /\ Len(stream) \in Nat /\ DOMAIN stream = 1 .. Len(stream) /\ stream \in Seq(Units)
      /\ stream[i] \in Units /\ Window[i] = stream[i] /\ stream[i] \in Range(stream)
  BY WindowIs DEF Typed, Range
<1>3. stream[i].nth <= 3 /\ stream[i].of \in DOMAIN dialog
  BY <1>1, <1>2, PartIs, GaplessIs
<1>4. Last(SubSeq(stream, 1, i)) = stream[i] /\ Head(SubSeq(stream, 1, i)) = stream[1]
  BY <1>2, BlockIs
<1>5. ASSUME NEW l \in 1 .. i - 1 PROVE stream[l].nth # 4
  <2>1. l \in DOMAIN stream /\ stream[l] \in Units
    BY <1>2, WindowIs
  <2>2. QED
    BY <2>1, PartIs DEF ParseCut, NoEnd
<1>6. QED
  BY <1>1, <1>2, <1>3, <1>4, <1>5

\* The method is read as it was meant.
LEMMA VerbRead == ASSUME NEW r, IsRequest(r) PROVE toupper(Verb(r)) = r.method
<1> DEFINE small == {w \in {"get", "post", "put"} : r.style = "plain" /\ toupper(w) = r.method}
<1>1. Verb(r) = IF small = {} THEN r.method ELSE CHOOSE w \in small : TRUE
  BY DEF Verb
<1>2. toupper(r.method) = r.method
  BY DEF IsRequest
<1>3. \A w \in small : toupper(w) = r.method
  OBVIOUS
<1> HIDE DEF small
<1>4. small # {} => (CHOOSE w \in small : TRUE) \in small
  BY Zenon
<1>5. QED
  BY <1>1, <1>2, <1>3, <1>4, Zenon

\* What is in a request.
LEMMA ParsedIs ==
  ASSUME NEW block
  PROVE  LET p == Parsed(block)
             q == [Parsed(block) EXCEPT !.whole = FALSE]
             i == Last(block).of
         IN  /\ p.of = i /\ q.of = i
             /\ DOMAIN p = {"of", "method", "whole", "path", "query", "keep", "len", "sound"}
             /\ DOMAIN q = DOMAIN p
             /\ p.method = (IF Part(Head(block)) = "body" THEN Garbled ELSE toupper(Verb(dialog[i])))
             /\ q.method = p.method
             /\ p.path = said[i].path /\ q.path = said[i].path
             /\ p.query = said[i].query /\ q.query = said[i].query
             /\ p.keep = said[i].keep /\ q.keep = said[i].keep
             /\ p.sound = said[i].sound /\ q.sound = said[i].sound
             /\ p.len = said[i].len
BY DEF Parsed

\* A content length is an integer.
LEMMA LengthIs == ASSUME NEW r PROVE Said(r).len \in Int
<1>1. ASSUME NEW headers PROVE content_length(headers) \in Int
  <2> DEFINE value == header(headers, <<"content-length">>)
             number == {n \in 0 .. MaxBody + 1 : value # <<>> /\ value[1] = ToString(n)}
  <2>1. content_length(headers) = IF number = {} THEN -1 ELSE CHOOSE n \in number : TRUE
    BY DEF content_length
  <2>2. number # {} => (CHOOSE n \in number : TRUE) \in number
    BY Zenon
  <2>3. number \subseteq Int
    BY HttpAssumption
  <2> HIDE DEF number
  <2>4. number # {} => (CHOOSE n \in number : TRUE) \in Int
    BY <2>2, <2>3, Zenon
  <2>5. CASE number = {}
    BY <2>1, <2>5
  <2>6. CASE number # {}
    BY <2>1, <2>4, <2>6, Zenon
  <2>7. QED
    BY <2>5, <2>6
<1>2. QED
  BY <1>1 DEF Said

LEMMA NextBytes ==
  ASSUME Typed, Gapless, [Next]_vars
  PROVE  /\ dialog' = dialog /\ said' = said
         /\ stream' \in Seq(Units) /\ at' \in Units
         /\ Gapless'
         /\ closed => closed'
         /\ ClientSends \/ Range(Window') \subseteq Range(Window)
<1>0. at \in Units /\ stream \in Seq(Units) /\ Len(stream) \in Nat
  BY WindowIs DEF Typed
<1>1. CASE UNCHANGED <<dialog, said, at, stream>>
  <2>1. Window' = Window /\ Gapless'
    BY <1>1 DEF Window, Gapless, Follows, More
  <2>2. closed => closed'
    BY <1>1, Kinds DEF Quiet, ClientSends, ParseHead, ParseCut, ParseBody, ParseBodyCut,
      BadRequest, Answer, Refuses, Handles, Answered
  <2>3. QED
    BY <1>0, <1>1, <2>1, <2>2
<1>2. CASE ClientSends
  BY <1>2, Sent DEF ClientSends
<1>3. CASE ParseHead
  <2>1. PICK e \in 1 .. Len(stream) : stream' = SubSeq(stream, e + 1, Len(stream))
    BY <1>3, HeadTaken
  <2>2. UNCHANGED <<dialog, said, at, closed>>
    BY <1>3 DEF ParseHead
  <2>3. QED
    BY <1>0, <2>1, <2>2, Taken
<1>4. CASE ParseCut \/ ParseBodyCut
  <2>1. UNCHANGED <<dialog, said, at>> /\ closed' = TRUE /\ stream' = <<>>
    BY <1>4 DEF ParseCut, ParseBodyCut
  <2>2. SubSeq(stream, Len(stream) + 1, Len(stream)) = <<>>
    BY <1>0
  <2>3. QED
    BY <1>0, <2>1, <2>2, Taken
<1>5. CASE ParseBody
  <2>1. /\ UNCHANGED <<dialog, said, at, closed>>
        /\ stream' = SubSeq(stream, req.len + 1, Len(stream))
        /\ req.len \in 0 .. Len(stream)
    BY <1>0, <1>5 DEF ParseBody, Typed
  <2>2. QED
    BY <1>0, <2>1, Taken
<1>6. QED
  BY <1>1, <1>2, <1>3, <1>4, <1>5, Kinds
  DEF Quiet, BadRequest, Refuses, Handles, clientVars

-----------------------------------------------------------------------------
(* Types, and the order of the answers.                                    *)

LEMMA InitOrdered == Init => Ordered
<1> SUFFICES ASSUME Init PROVE Ordered
  OBVIOUS
<1>1. /\ dialog \in Dialogs /\ said = [i \in DOMAIN dialog |-> Said(dialog[i])]
      /\ stream = <<>> /\ at = [of |-> 1, nth |-> 1] /\ pc = "parse" /\ next = 1
      /\ closed = FALSE /\ calls = <<>> /\ answers = <<>>
  BY DEF Init
<1>2. at \in Units /\ stream \in Seq(Units)
  BY <1>1 DEF Units
<1>3. Range(calls) = {} /\ Range(answers) = {} /\ Range(stream) = {}
  BY <1>1 DEF Range
<1>4. Typed
  BY <1>1, <1>2, <1>3 DEF Typed, InHand
<1>5. Range(Window) = {at} /\ DOMAIN Window = 1 .. 1
  BY <1>1, <1>3, <1>4, WindowIs
<1>6. Gapless
  <2>1. at.of \in DOMAIN dialog => More(at) >= 0
    <3>1. CASE 1 \in DOMAIN dialog
      <4>1. dialog[1].body \in Nat
        BY <1>1, <3>1, Bodies
      <4>2. QED
        BY <1>1, <4>1 DEF More
    <3>2. QED
      BY <1>1, <3>1
  <2>2. \A j, k \in DOMAIN Window : ~ (j < k)
    BY <1>5
  <2>3. QED
    BY <1>3, <1>5, <2>1, <2>2 DEF Gapless
<1>7. Fresh
  BY <1>1, <1>3 DEF Fresh, InHand
<1>8. CallsInOrder /\ AnswersInOrder
  BY <1>1 DEF CallsInOrder, AnswersInOrder
<1>9. QED
  BY <1>4, <1>6, <1>7, <1>8 DEF Ordered

LEMMA NextTyped ==
  ASSUME Typed, Gapless, [Next]_vars
  PROVE  Typed'
<1>1. /\ dialog' \in Dialogs /\ said' = [i \in DOMAIN dialog' |-> Said(dialog'[i])]
      /\ stream' \in Seq(Units) /\ at' \in Units
  BY NextBytes DEF Typed
<1>2. calls' \in Seq(Range(calls'))
  <2>1. calls' = calls \/ \E c : calls' = Append(calls, c)
    BY Kinds DEF Quiet, ClientSends, ParseHead, ParseCut, ParseBody, ParseBodyCut, BadRequest,
      Refuses, Handles, Call
  <2>2. calls \in Seq(Range(calls))
    BY DEF Typed
  <2>3. ASSUME NEW c PROVE Append(calls, c) \in Seq(Range(Append(calls, c)))
    BY <2>2, Appended
  <2>4. QED
    BY <2>1, <2>2, <2>3
<1>3. answers' \in Seq(Range(answers'))
  <2>1. answers' = answers \/ \E a : answers' = Append(answers, a)
    BY Kinds DEF Quiet, ClientSends, ParseHead, ParseCut, ParseBody, ParseBodyCut, BadRequest,
      Answer, Refuses, Handles, Answered
  <2>2. answers \in Seq(Range(answers))
    BY DEF Typed
  <2>3. ASSUME NEW a PROVE Append(answers, a) \in Seq(Range(Append(answers, a)))
    BY <2>2, Appended
  <2>4. QED
    BY <2>1, <2>2, <2>3
<1>4. next' \in Nat \ {0}
  <2>1. next' \in {1, next, next + 1}
    BY DEF Next, Server, ClientSends, HangUp, ParseHead, ParseCut, ParseBody, ParseBodyCut, BadRequest,
      Middleware, Dispatch, StartMatch, MatchStep, TryRoute, NoRoute, Handler, Loop, vars, serverVars
  <2>2. QED
    BY <2>1 DEF Typed
<1>5. /\ pc' \in InHand =>
           DOMAIN req' = {"of", "method", "whole", "path", "query", "keep", "len", "sound"}
      /\ pc' = "body" => req'.len \in Nat
  <2>1. CASE ParseHead
    <3>1. PICK e \in 1 .. Len(stream) :
            /\ req' = Parsed(SubSeq(stream, 1, e)) /\ stream[e].of \in DOMAIN dialog
            /\ Last(SubSeq(stream, 1, e)) = stream[e]
      BY <2>1, HeadTaken
    <3>2. DOMAIN req' = {"of", "method", "whole", "path", "query", "keep", "len", "sound"}
      BY <3>1, ParsedIs
    <3>3. req'.len = said[stream[e].of].len
      BY <3>1, ParsedIs
    <3>4. req'.len = Said(dialog[stream[e].of]).len
      BY <3>1, <3>3 DEF Typed
    <3>5. req'.len \in Int
      BY <3>4, LengthIs
    <3>6. pc' = "body" => req'.len > 0
      BY <2>1 DEF ParseHead
    <3>7. QED
      BY <3>2, <3>5, <3>6
  <2>2. CASE ParseCut
    <3>1. CASE pc' = "bad"
      BY <3>1 DEF InHand
    <3>2. CASE pc' # "bad"
      <4>1. PICK i \in 1 .. Len(stream) :
              req' = [Parsed(SubSeq(stream, 1, i)) EXCEPT !.whole = FALSE] /\ pc' = "middleware"
        BY <2>2, <3>2, CutTaken
      <4>2. DOMAIN req' = {"of", "method", "whole", "path", "query", "keep", "len", "sound"}
        BY <4>1, ParsedIs
      <4>3. QED
        BY <4>1, <4>2
    <3>3. QED
      BY <3>1, <3>2
  <2>3. CASE ParseBody
    BY <2>3 DEF ParseBody, Typed, InHand
  <2>4. CASE req' = req /\ (pc' \in InHand => pc \in InHand) /\ (pc' = "body" => pc = "body")
    BY <2>4 DEF Typed
  <2>5. CASE Quiet
    BY <2>4, <2>5 DEF Quiet, InHand
  <2>6. CASE ClientSends
    BY <2>4, <2>6 DEF ClientSends, serverVars
  <2>7. CASE ParseBodyCut \/ BadRequest \/ Refuses \/ Handles
    BY <2>4, <2>7 DEF ParseBodyCut, BadRequest, Refuses, Handles, InHand
  <2>8. QED
    BY <2>1, <2>2, <2>3, <2>5, <2>6, <2>7, Kinds
<1>6. QED
  BY <1>1, <1>2, <1>3, <1>4, <1>5 DEF Typed

\* Nothing comes back to the stream.
LEMMA HeadReadKept ==
  ASSUME Typed, Gapless, [Next]_vars, NEW i, HeadRead(i)
  PROVE  HeadRead(i)'
<1>1. i \in Nat /\ (~ closed => \A u \in Range(Window) : u.of > i \/ (u.of = i /\ u.nth > 4))
  BY DEF HeadRead
<1>2. closed => closed'
  BY NextBytes
<1>3. CASE Range(Window') \subseteq Range(Window)
  BY <1>1, <1>2, <1>3 DEF HeadRead
<1>4. CASE ClientSends
  <2>1. /\ Range(Window') = Range(Window) \cup {Following(at)}
        /\ at \in Units /\ at.of \in DOMAIN dialog /\ More(at) >= 0 /\ dialog \in Dialogs
    BY <1>4, Sent DEF Typed
  <2>2. Following(at).of > at.of \/ (Following(at).of = at.of /\ Following(at).nth = at.nth + 1)
    BY <2>1, FollowsOn
  <2>3. at \in Range(Window)
    BY WindowIs
  <2>4. at.of \in Nat /\ at.nth \in Nat /\ Following(at).of \in Nat
    <3>1. Following(at) \in Units
      BY <2>1, FollowsOn
    <3>2. QED
      BY <2>1, <3>1 DEF Units
  <2>5. CASE ~ closed
    <3>1. at.of > i \/ (at.of = i /\ at.nth > 4)
      BY <1>1, <2>3, <2>5
    <3>2. Following(at).of > i \/ (Following(at).of = i /\ Following(at).nth > 4)
      BY <1>1, <2>2, <2>4, <3>1
    <3>3. QED
      BY <1>1, <2>1, <2>5, <3>2 DEF HeadRead
  <2>6. QED
    BY <1>1, <1>2, <2>5 DEF HeadRead
<1>5. QED
  BY <1>3, <1>4, NextBytes

\* An answer to a new request comes behind those that are written.
LEMMA AnsweredInOrder ==
  ASSUME Typed, AnswersInOrder, Answered,
         req.of \in Nat, \A a \in Range(answers) : a.to \in Nat /\ a.to < req.of
  PROVE  /\ AnswersInOrder'
         /\ \A a \in Range(answers') : a \in Range(answers) \/ (a.to = req.of /\ a.code # 400)
<1>1. CASE answers' = answers
  BY <1>1 DEF AnswersInOrder
<1>2. ASSUME NEW code \in Nat \ {400}, answers' = Append(answers, [code |-> code, to |-> req.of])
      PROVE  /\ AnswersInOrder'
             /\ \A a \in Range(answers') : a \in Range(answers) \/ (a.to = req.of /\ a.code # 400)
  <2> DEFINE new == [code |-> code, to |-> req.of]
  <2>1. /\ Len(answers) \in Nat /\ DOMAIN answers = 1 .. Len(answers)
        /\ DOMAIN answers' = 1 .. Len(answers) + 1
        /\ \A i \in 1 .. Len(answers) : answers'[i] = answers[i]
        /\ answers'[Len(answers) + 1] = new
        /\ Range(answers') = Range(answers) \cup {new}
    BY <1>2, Appended DEF Typed
  <2>2. ASSUME NEW i \in DOMAIN answers', NEW j \in DOMAIN answers', i < j
        PROVE  \/ answers'[j].to = None
               \/ answers'[i].to # None /\ answers'[i].to < answers'[j].to
    <3>1. CASE j \in 1 .. Len(answers)
      <4>1. i \in DOMAIN answers /\ j \in DOMAIN answers
        BY <2>1, <2>2, <3>1
      <4>2. QED
        BY <2>1, <2>2, <4>1 DEF AnswersInOrder
    <3>2. CASE j = Len(answers) + 1
      <4>1. i \in DOMAIN answers
        BY <2>1, <2>2, <3>2
      <4>2. answers[i].to \in Nat /\ answers[i].to < req.of
        BY <4>1 DEF Range
      <4>3. QED
        BY <2>1, <3>2, <4>1, <4>2, HttpAssumption
    <3>3. QED
      BY <2>1, <2>2, <3>1, <3>2
  <2>3. AnswersInOrder'
    BY <2>2 DEF AnswersInOrder
  <2>4. QED
    BY <2>1, <2>3
<1>3. QED
  BY <1>1, <1>2 DEF Answered

\* A call for a new request comes behind the others.
LEMMA CalledInOrder ==
  ASSUME Typed, CallsInOrder, Call, \A c \in Range(calls) : c.req.of < req.of
  PROVE  /\ CallsInOrder'
         /\ Range(calls') = Range(calls) \cup {[req |-> req, route |-> next]}
<1> DEFINE new == [req |-> req, route |-> next]
<1>1. /\ Len(calls) \in Nat /\ DOMAIN calls = 1 .. Len(calls)
      /\ DOMAIN calls' = 1 .. Len(calls) + 1
      /\ \A i \in 1 .. Len(calls) : calls'[i] = calls[i]
      /\ calls'[Len(calls) + 1] = new
      /\ Range(calls') = Range(calls) \cup {new}
  BY Appended DEF Typed, Call
<1>2. ASSUME NEW i \in DOMAIN calls', NEW j \in DOMAIN calls', i < j
      PROVE  calls'[i].req.of < calls'[j].req.of
  <2>1. CASE j \in 1 .. Len(calls)
    <3>1. i \in DOMAIN calls /\ j \in DOMAIN calls
      BY <1>1, <1>2, <2>1
    <3>2. QED
      BY <1>1, <1>2, <3>1 DEF CallsInOrder
  <2>2. CASE j = Len(calls) + 1
    <3>1. i \in DOMAIN calls
      BY <1>1, <1>2, <2>2
    <3>2. calls[i].req.of < req.of
      BY <3>1 DEF Range
    <3>3. QED
      BY <1>1, <2>2, <3>1, <3>2
  <2>3. QED
    BY <1>1, <1>2, <2>1, <2>2
<1>3. QED
  BY <1>1, <1>2 DEF CallsInOrder

\* The header block that parse() finds lies behind all those that were read.
LEMMA Newer ==
  ASSUME Typed, Fresh, pc = "parse",
         NEW k \in 1 .. Len(stream), stream[k].nth <= 4
  PROVE  /\ stream[k].of \in Nat
         /\ \A c \in Range(calls) : c.req.of < stream[k].of
         /\ \A a \in Range(answers) : a.to < stream[k].of
<1>1. stream[k] \in Units /\ stream[k] \in Range(Window) /\ ~ closed
  <2>1. Window[k] = stream[k] /\ k \in DOMAIN Window
    BY WindowIs
  <2>2. QED
    BY <2>1, WindowIs DEF Fresh
<1>2. stream[k].of \in Nat /\ stream[k].nth \in Nat
  BY <1>1 DEF Units
<1>3. ASSUME NEW i, HeadRead(i) PROVE i < stream[k].of
  <2>1. i \in Nat /\ (stream[k].of > i \/ (stream[k].of = i /\ stream[k].nth > 4))
    BY <1>1, <1>3 DEF HeadRead
  <2>2. QED
    BY <1>2, <2>1
<1>4. (\A c \in Range(calls) : HeadRead(c.req.of)) /\ (\A a \in Range(answers) : HeadRead(a.to))
  BY DEF Fresh
<1>5. QED
  BY <1>2, <1>3, <1>4

LEMMA NextOrdered == Ordered /\ [Next]_vars => Ordered'
<1> SUFFICES ASSUME Ordered, [Next]_vars PROVE Ordered'
  OBVIOUS
<1>1. Typed /\ Gapless /\ Fresh /\ CallsInOrder /\ AnswersInOrder
  BY DEF Ordered
<1>2. Typed' /\ Gapless' /\ (\A i : HeadRead(i) => HeadRead(i)')
  BY <1>1, NextTyped, NextBytes, HeadReadKept
<1>3. /\ pc \in {"parse", "body"} => ~ closed
      /\ \A c \in Range(calls) : HeadRead(c.req.of)
      /\ pc # "done" => \A a \in Range(answers) : HeadRead(a.to)
      /\ pc \in InHand \cup {"loop"} => HeadRead(req.of)
      /\ pc \in InHand => /\ \A c \in Range(calls) : c.req.of < req.of
                          /\ \A a \in Range(answers) : a.to < req.of
  BY <1>1 DEF Fresh
<1>4. CASE Quiet
  <2>1. UNCHANGED <<req, calls, answers, closed>>
    BY <1>4 DEF Quiet
  <2>2. /\ pc' \in {"parse", "body"} => ~ closed'
        /\ pc' # "done" => pc # "done"
        /\ pc' \in InHand \cup {"loop"} => pc \in InHand \cup {"loop"}
        /\ pc' \in InHand => pc \in InHand
    BY <1>3, <1>4 DEF Quiet, InHand
  <2>3. Fresh'
    BY <1>2, <1>3, <2>1, <2>2 DEF Fresh
  <2>4. QED
    BY <1>1, <1>2, <2>1, <2>3 DEF Ordered, CallsInOrder, AnswersInOrder
<1>5. CASE ClientSends
  <2>1. UNCHANGED <<pc, req, calls, answers, closed>>
    BY <1>5 DEF ClientSends, serverVars
  <2>2. Fresh'
    BY <1>2, <1>3, <2>1 DEF Fresh
  <2>3. QED
    BY <1>1, <1>2, <2>1, <2>2 DEF Ordered, CallsInOrder, AnswersInOrder
<1>6. CASE ParseHead
  <2>1. PICK e \in 1 .. Len(stream) :
          /\ stream[e].nth = 4 /\ Window[e] = stream[e] /\ stream[e].of \in DOMAIN dialog
          /\ req' = Parsed(SubSeq(stream, 1, e)) /\ Last(SubSeq(stream, 1, e)) = stream[e]
          /\ dialog' = dialog /\ at' = at
          /\ stream' = SubSeq(stream, e + 1, Len(stream))
    BY <1>1, <1>6, HeadTaken
  <2>2. req'.of = stream[e].of
    BY <2>1, ParsedIs
  <2>3. /\ UNCHANGED <<calls, answers, closed>> /\ pc = "parse"
        /\ pc' \in {"bad", "body", "middleware"}
    BY <1>6 DEF ParseHead
  <2>4. /\ req'.of \in Nat
        /\ \A c \in Range(calls) : c.req.of < req'.of
        /\ \A a \in Range(answers) : a.to < req'.of
    BY <1>1, <2>1, <2>2, <2>3, Newer
  <2>5. HeadRead(req.of)'
    <3>1. ASSUME NEW u \in Range(Window')
          PROVE  u.of > req'.of \/ (u.of = req'.of /\ u.nth > 4)
      <4>1. /\ DOMAIN Window' = 1 .. Len(stream) - e + 1
            /\ \A k \in DOMAIN Window' : k + e \in DOMAIN Window /\ Window'[k] = Window[k + e]
        <5>1. e \in 0 .. Len(stream)
          BY <1>1, WindowIs
        <5>2. QED
          BY <1>1, <2>1, <5>1, Taken
      <4>2. PICK k \in DOMAIN Window' : u = Window'[k]
        BY DEF Range
      <4>3. k \in Nat \ {0} /\ Len(stream) \in Nat /\ DOMAIN Window = 1 .. Len(stream) + 1
        BY <1>1, <4>1, WindowIs
      <4>4. PICK l \in DOMAIN Window : l = k + e /\ u = Window[l]
        BY <4>1, <4>2
      <4>5. e \in DOMAIN Window /\ e < l /\ l - e = k
        BY <4>3, <4>4
      <4>6. Follows(Window[e], l - e, Window[l])
        BY <1>1, <4>5, GaplessIs
      <4>7. dialog[stream[e].of].body \in Nat
        BY <1>1, <2>1, Bodies DEF Typed
      <4>8. More(Window[e]) \in Nat /\ Window[e].nth = 4 /\ Window[e].of = req'.of
        BY <2>1, <2>2, <4>7 DEF More
      <4>9. Follows(Window[e], k, u)
        BY <4>4, <4>5, <4>6
      <4>10. CASE k <= More(Window[e])
        <5>1. u = [of |-> Window[e].of, nth |-> Window[e].nth + k]
          BY <4>9, <4>10 DEF Follows
        <5>2. QED
          BY <4>3, <4>8, <5>1
      <4>11. CASE k > More(Window[e])
        BY <4>8, <4>9, <4>11 DEF Follows
      <4>12. QED
        BY <4>3, <4>8, <4>10, <4>11
    <3>2. QED
      BY <2>4, <3>1 DEF HeadRead
  <2>6. Fresh'
    BY <1>2, <1>3, <2>3, <2>4, <2>5 DEF Fresh, InHand
  <2>7. QED
    BY <1>1, <1>2, <2>3, <2>6 DEF Ordered, CallsInOrder, AnswersInOrder
<1>7. CASE ParseCut
  <2>1. UNCHANGED <<calls, answers>> /\ pc = "parse" /\ closed' = TRUE /\ pc' \in {"bad", "middleware"}
    BY <1>7 DEF ParseCut
  <2>2. CASE pc' = "bad"
    <3>1. Fresh'
      BY <1>2, <1>3, <2>1, <2>2 DEF Fresh, InHand
    <3>2. QED
      BY <1>1, <1>2, <2>1, <3>1 DEF Ordered, CallsInOrder, AnswersInOrder
  <2>3. CASE pc' = "middleware"
    <3>1. PICK i \in 1 .. Len(stream) :
            /\ stream[i].nth <= 3
            /\ req' = [Parsed(SubSeq(stream, 1, i)) EXCEPT !.whole = FALSE]
            /\ Last(SubSeq(stream, 1, i)) = stream[i]
      BY <1>1, <1>7, <2>3, CutTaken
    <3>2. req'.of = stream[i].of
      BY <3>1, ParsedIs
    <3>3. stream[i].nth <= 4
      <4>1. stream[i] \in Units
        BY <1>1, WindowIs
      <4>2. QED
        BY <3>1, <4>1 DEF Units
    <3>4. /\ req'.of \in Nat
          /\ \A c \in Range(calls) : c.req.of < req'.of
          /\ \A a \in Range(answers) : a.to < req'.of
      BY <1>1, <2>1, <3>2, <3>3, Newer
    <3>5. HeadRead(req.of)'
      BY <2>1, <3>4 DEF HeadRead
    <3>6. Fresh'
      BY <1>2, <1>3, <2>1, <2>3, <3>4, <3>5 DEF Fresh, InHand
    <3>7. QED
      BY <1>1, <1>2, <2>1, <3>6 DEF Ordered, CallsInOrder, AnswersInOrder
  <2>4. QED
    BY <2>1, <2>2, <2>3
<1>8. CASE ParseBody \/ ParseBodyCut
  <2>1. UNCHANGED <<calls, answers>> /\ pc = "body" /\ pc' = "middleware"
    BY <1>8 DEF ParseBody, ParseBodyCut
  <2>2. req'.of = req.of
    BY <1>1, <1>8, <2>1 DEF ParseBody, ParseBodyCut, Typed, InHand
  <2>3. HeadRead(req.of)'
    BY <1>2, <1>3, <2>1, <2>2 DEF InHand, HeadRead
  <2>4. Fresh'
    BY <1>2, <1>3, <2>1, <2>2, <2>3 DEF Fresh, InHand
  <2>5. QED
    BY <1>1, <1>2, <2>1, <2>4 DEF Ordered, CallsInOrder, AnswersInOrder
<1>9. CASE BadRequest
  <2>1. /\ calls' = calls /\ pc' = "done" /\ pc = "bad"
        /\ answers' = answers \/ answers' = Append(answers, [code |-> 400, to |-> None])
    BY <1>9 DEF BadRequest, Answer
  <2>2. Fresh'
    BY <1>2, <1>3, <2>1 DEF Fresh, InHand
  <2>3. AnswersInOrder'
    <3>1. CASE answers' = answers
      BY <1>1, <3>1 DEF AnswersInOrder
    <3>2. CASE answers' = Append(answers, [code |-> 400, to |-> None])
      <4>1. /\ Len(answers) \in Nat /\ DOMAIN answers = 1 .. Len(answers)
            /\ DOMAIN answers' = 1 .. Len(answers) + 1
            /\ \A i \in 1 .. Len(answers) : answers'[i] = answers[i]
            /\ answers'[Len(answers) + 1].to = None
        BY <1>1, <3>2, Appended DEF Typed
      <4>2. ASSUME NEW i \in DOMAIN answers', NEW j \in DOMAIN answers', i < j
            PROVE  \/ answers'[j].to = None
                   \/ answers'[i].to # None /\ answers'[i].to < answers'[j].to
        <5>1. CASE j \in 1 .. Len(answers)
          <6>1. i \in DOMAIN answers /\ j \in DOMAIN answers
            BY <4>1, <4>2, <5>1
          <6>2. QED
            BY <1>1, <4>1, <4>2, <6>1 DEF AnswersInOrder
        <5>2. CASE j = Len(answers) + 1
          BY <4>1, <5>2
        <5>3. QED
          BY <4>1, <5>1, <5>2
      <4>3. QED
        BY <4>2 DEF AnswersInOrder
    <3>3. QED
      BY <2>1, <3>1, <3>2
  <2>4. QED
    BY <1>1, <1>2, <2>1, <2>2, <2>3 DEF Ordered, CallsInOrder
<1>10. CASE Refuses \/ Handles
  <2>1. /\ req' = req /\ pc \in InHand /\ pc' = "loop" /\ Answered
        /\ calls' = calls \/ Call
    BY <1>10 DEF Refuses, Handles, InHand
  <2>2. HeadRead(req.of) /\ HeadRead(req.of)'
    BY <1>2, <1>3, <2>1
  <2>4. \A a \in Range(answers) : a.to \in Nat /\ a.to < req.of
    BY <1>3, <2>1 DEF HeadRead, InHand
  <2>5. req.of \in Nat
    BY <2>2 DEF HeadRead
  <2>6. /\ AnswersInOrder'
        /\ \A a \in Range(answers') : a \in Range(answers) \/ (a.to = req.of /\ a.code # 400)
    BY <1>1, <2>1, <2>4, <2>5, AnsweredInOrder
  <2>7. CallsInOrder' /\ \A c \in Range(calls') : c \in Range(calls) \/ c.req = req
    <3>1. CASE calls' = calls
      BY <1>1, <3>1 DEF CallsInOrder
    <3>2. CASE Call
      <4>1. \A c \in Range(calls) : c.req.of < req.of
        BY <1>3, <2>1
      <4>2. QED
        BY <1>1, <3>2, <4>1, CalledInOrder
    <3>3. QED
      BY <2>1, <3>1, <3>2
  <2>8. \A c \in Range(calls') : HeadRead(c.req.of)'
    BY <1>2, <1>3, <2>2, <2>7
  <2>9. \A a \in Range(answers') : HeadRead(a.to)'
    <3>1. pc # "done"
      BY <2>1 DEF InHand
    <3>2. QED
      BY <1>2, <1>3, <2>2, <2>6, <3>1
  <2>10. Fresh'
    <3>1. HeadRead(req.of)' /\ pc' = "loop"
      BY <2>1, <2>2
    <3>2. QED
      BY <2>8, <2>9, <3>1 DEF Fresh, InHand
  <2>11. QED
    BY <1>2, <2>6, <2>7, <2>10 DEF Ordered
<1>11. QED
  BY <1>4, <1>5, <1>6, <1>7, <1>8, <1>9, <1>10, Kinds

LEMMA AlwaysOrdered == Spec => []Ordered
  BY InitOrdered, NextOrdered, PTL DEF Spec

\* The client gets its answers in the order of its requests, and one at most to
\* each, for every routing table and every dialog, wherever it is cut off.
THEOREM AnswersInOrderAlways == Spec => []AnswersInOrder
<1>1. Ordered => AnswersInOrder
  BY DEF Ordered
<1>2. QED
  BY <1>1, AlwaysOrdered, PTL

-----------------------------------------------------------------------------
(* Bodies are not taken for requests.                                      *)

LEMMA FrontIs ==
  ASSUME Typed
  PROVE  /\ 1 \in DOMAIN Window /\ Window[1] \in Units /\ Window[1] \in Range(Window)
         /\ \A k \in 1 .. Len(stream) : stream[1] = Window[1]
<1>1. /\ Len(stream) \in Nat /\ DOMAIN Window = 1 .. Len(stream) + 1
      /\ \A k \in 1 .. Len(stream) : Window[k] = stream[k]
      /\ \A k \in DOMAIN Window : Window[k] \in Units /\ Window[k] \in Range(Window)
  BY WindowIs
<1>2. 1 \in DOMAIN Window
  BY <1>1
<1>3. QED
  BY <1>1, <1>2

\* What a header block says of the body, and where the next unit is then.
LEMMA BehindHead ==
  ASSUME Typed, Gapless, NEW e \in 1 .. Len(stream), stream[e].nth = 4,
         stream[e].of \in DOMAIN dialog
  PROVE  LET i == stream[e].of
         IN  /\ e + 1 \in DOMAIN Window
             /\ said[i].len > 0 => /\ said[i].len = dialog[i].body
                                   /\ Window[e + 1] = [of |-> i, nth |-> 5]
             /\ ~ (said[i].len > 0) => AtStart(Window[e + 1])
             /\ Window[e + 1] \in {[of |-> i, nth |-> 5], [of |-> i + 1, nth |-> 1]}
<1> DEFINE i == stream[e].of
           u == Window[e]
           v == Window[e + 1]
<1>1. /\ Len(stream) \in Nat /\ DOMAIN Window = 1 .. Len(stream) + 1 /\ u = stream[e]
      /\ e \in DOMAIN Window /\ e + 1 \in DOMAIN Window
  BY WindowIs
<1>2. Follows(u, 1, v)
  <2>1. PICK l \in DOMAIN Window : l = e + 1
    BY <1>1
  <2>2. e < l /\ l - e = 1
    BY <2>1
  <2>3. Follows(u, l - e, Window[l])
    BY <1>1, <2>2, GaplessIs
  <2>4. QED
    BY <2>1, <2>2, <2>3
<1>3. /\ dialog[i] \in Range(dialog) /\ dialog[i].body \in Nat /\ i \in Nat \ {0}
      /\ dialog \in Dialogs
  BY Bodies DEF Typed
<1>4. More(u) = dialog[i].body
  BY <1>1, <1>3 DEF More
<1>5. /\ dialog[i].body > 0 => v = [of |-> i, nth |-> 5]
      /\ dialog[i].body = 0 => v = [of |-> i + 1, nth |-> 1]
  BY <1>1, <1>2, <1>3, <1>4 DEF Follows
<1>6. said[i].len = Said(dialog[i]).len
  BY <1>3 DEF Typed
<1>7. IF said[i].len > 0 THEN said[i].len = dialog[i].body
      ELSE dialog[i].body = 0 \/ dialog[i].length = "unreadable"
  <2> DEFINE r == dialog[i]
  <2>1. IsRequest(r)
    BY <1>3, Bodies DEF Typed
  <2>2. Said(r).len = IF r.length = "exact" THEN r.body ELSE -1
    BY <2>1, SaidLength
  <2>3. r.length = "exact" \/ r.body = 0 \/ r.length = "unreadable"
    BY <2>1 DEF IsRequest
  <2> HIDE DEF r
  <2>4. QED
    BY <1>3, <1>6, <2>2, <2>3 DEF r
<1>8. v \in {[of |-> i, nth |-> 5], [of |-> i + 1, nth |-> 1]}
  BY <1>3, <1>5
<1>9. CASE said[i].len > 0
  BY <1>1, <1>3, <1>5, <1>7, <1>8, <1>9
<1>10. CASE ~ (said[i].len > 0)
  <2>1. CASE dialog[i].body = 0
    BY <1>1, <1>5, <1>8, <1>10, <2>1 DEF AtStart
  <2>2. CASE dialog[i].body > 0
    <3>1. dialog[i].length = "unreadable"
      BY <1>7, <1>10, <2>2
    <3>2. ~ Measured(i)
      BY <1>3, <3>1 DEF Measured
    <3>3. v.nth = 5 /\ v.of = i
      BY <1>5, <2>2
    <3>4. QED
      BY <1>1, <1>8, <1>10, <3>2, <3>3 DEF AtStart
  <2>3. QED
    BY <1>3, <2>1, <2>2
<1>11. QED
  BY <1>9, <1>10

\* What parse() leaves when it has found a header block, and when it has read the
\* body, too.
LEMMA HeadLeaves ==
  ASSUME Typed, Gapless, ParseHead
  PROVE  LET i == req'.of
         IN  /\ i \in DOMAIN dialog
             /\ Window'[1] \in {[of |-> i, nth |-> 5], [of |-> i + 1, nth |-> 1]}
<1>1. PICK e \in 1 .. Len(stream) :
        /\ stream[e].nth = 4 /\ stream[e].of \in DOMAIN dialog
        /\ req' = Parsed(SubSeq(stream, 1, e)) /\ Last(SubSeq(stream, 1, e)) = stream[e]
        /\ dialog' = dialog /\ at' = at /\ stream' = SubSeq(stream, e + 1, Len(stream))
  BY HeadTaken
<1> DEFINE i == stream[e].of
<1>2. req'.of = i
  BY <1>1, ParsedIs
<1>3. Window[e + 1] \in {[of |-> i, nth |-> 5], [of |-> i + 1, nth |-> 1]}
  BY <1>1, BehindHead
<1>4. Window'[1] = Window[e + 1]
  <2>1. e \in 0 .. Len(stream) /\ Len(stream) \in Nat
    BY WindowIs
  <2>2. /\ DOMAIN Window' = 1 .. Len(stream) - e + 1
        /\ \A k \in DOMAIN Window' : Window'[k] = Window[k + e]
    BY <1>1, <2>1, Taken
  <2>3. 1 \in DOMAIN Window' /\ 1 + e = e + 1
    BY <2>1, <2>2
  <2>4. QED
    BY <2>2, <2>3
<1>5. QED
  BY <1>1, <1>2, <1>3, <1>4

LEMMA BodyLeaves ==
  ASSUME Typed, Gapless, Aligned, ParseBody
  PROVE  req.of \in DOMAIN dialog /\ Window'[1] = [of |-> req.of + 1, nth |-> 1]
<1> DEFINE n == req.len
           i == req.of
<1>1. /\ pc = "body" /\ n <= Len(stream) /\ at' = at /\ dialog' = dialog
      /\ stream' = SubSeq(stream, n + 1, Len(stream)) /\ Len(stream) \in Nat
  BY WindowIs DEF ParseBody
<1>2. /\ n \in Nat /\ n > 0 /\ n = dialog[i].body /\ Window[1] = [of |-> i, nth |-> 5]
      /\ i \in DOMAIN dialog
  BY <1>1 DEF Typed, Aligned
<1>3. Window'[1] = Window[n + 1] /\ n + 1 \in DOMAIN Window
  <2>1. n \in 0 .. Len(stream)
    BY <1>1, <1>2
  <2>2. /\ DOMAIN Window' = 1 .. Len(stream) - n + 1
        /\ \A k \in DOMAIN Window' : k + n \in DOMAIN Window /\ Window'[k] = Window[k + n]
    BY <1>1, <2>1, Taken
  <2>3. 1 \in DOMAIN Window' /\ 1 + n = n + 1
    BY <1>1, <1>2, <2>1, <2>2
  <2>4. QED
    BY <2>2, <2>3
<1>4. Follows(Window[1], n, Window[n + 1])
  <2>1. PICK l \in DOMAIN Window : l = n + 1
    BY <1>3
  <2>2. 1 \in DOMAIN Window
    BY FrontIs
  <2>3. 1 < l /\ l - 1 = n
    BY <1>2, <2>1
  <2>4. Follows(Window[1], l - 1, Window[l])
    BY <2>2, <2>3, GaplessIs
  <2>5. QED
    BY <2>1, <2>3, <2>4
<1>5. n = More(Window[1]) + 1
  BY <1>2 DEF More
<1>6. QED
  BY <1>2, <1>3, <1>4, <1>5 DEF Follows

LEMMA NextAligned ==
  ASSUME Ordered, Aligned, [Next]_vars
  PROVE  Aligned'
<1>1. Typed /\ Gapless /\ Fresh /\ Typed'
  BY NextOrdered DEF Ordered
<1>2. dialog' = dialog /\ said' = said /\ (\A i : Measured(i)' = Measured(i))
  BY <1>1, NextBytes DEF Measured
<1>3. /\ ~ closed /\ pc \notin {"body", "bad", "done"} => AtStart(Window[1])
      /\ pc = "body" => /\ req.of \in DOMAIN dialog
                        /\ req.len = dialog[req.of].body /\ req.len > 0
                        /\ Window[1] = [of |-> req.of, nth |-> 5]
  BY DEF Aligned
<1>4. \A u : AtStart(u) => AtStart(u)'
  BY <1>2 DEF AtStart
<1>5. CASE Window'[1] = Window[1] /\ (closed => closed') /\ (pc' = "body" => pc = "body" /\ req' = req)
           /\ (pc \in {"body", "bad", "done"} => pc' \in {"body", "bad", "done"})
  <2>1. ~ closed' /\ pc' \notin {"body", "bad", "done"} => AtStart(Window'[1])
    BY <1>3, <1>5
  <2>2. QED
    BY <1>2, <1>3, <1>4, <1>5, <2>1 DEF Aligned, AtStart
<1>6. CASE Quiet
  BY <1>5, <1>6 DEF Quiet, Window
<1>7. CASE ClientSends
  <2>1. Window'[1] = Window[1] /\ UNCHANGED <<pc, req, closed>>
    BY <1>1, <1>7, Sent DEF ClientSends, serverVars
  <2>2. QED
    BY <1>5, <2>1
<1>8. CASE Refuses \/ Handles
  <2>1. Window' = Window /\ (closed => closed') /\ pc' = "loop" /\ pc \notin {"body", "bad", "done"}
    BY <1>8 DEF Refuses, Handles, Answered, Window
  <2>2. QED
    BY <1>5, <2>1
<1>9. CASE pc' \in {"bad", "done"}
  BY <1>9 DEF Aligned
<1>10. CASE ParseHead /\ pc' # "bad"
  <2>1. PICK e \in 1 .. Len(stream) :
          /\ stream[e].nth = 4 /\ stream[e].of \in DOMAIN dialog
          /\ req' = Parsed(SubSeq(stream, 1, e)) /\ Last(SubSeq(stream, 1, e)) = stream[e]
          /\ at' = at /\ stream' = SubSeq(stream, e + 1, Len(stream))
    BY <1>1, <1>10, HeadTaken
  <2> DEFINE i == stream[e].of
  <2>2. req'.of = i /\ req'.len = said[i].len
    BY <2>1, ParsedIs
  <2>3. /\ e + 1 \in DOMAIN Window
        /\ said[i].len > 0 => said[i].len = dialog[i].body /\ Window[e + 1] = [of |-> i, nth |-> 5]
        /\ ~ (said[i].len > 0) => AtStart(Window[e + 1])
    BY <1>1, <2>1, BehindHead
  <2>4. Window'[1] = Window[e + 1]
    <3>1. e \in 0 .. Len(stream) /\ Len(stream) \in Nat
      BY <1>1, WindowIs
    <3>2. 1 \in DOMAIN Window' /\ \A k \in DOMAIN Window' : Window'[k] = Window[k + e]
      BY <1>1, <1>2, <2>1, <3>1, Taken
    <3>3. QED
      BY <3>1, <3>2
  <2>5. pc' = IF req'.len > 0 THEN "body" ELSE "middleware"
    BY <1>10 DEF ParseHead
  <2>6. CASE req'.len > 0
    BY <1>2, <2>1, <2>2, <2>3, <2>4, <2>5, <2>6 DEF Aligned
  <2>7. CASE ~ (req'.len > 0)
    <3>1. AtStart(Window'[1])
      BY <2>2, <2>3, <2>4, <2>7
    <3>2. QED
      BY <1>2, <2>5, <2>7, <3>1 DEF Aligned, AtStart
  <2>8. QED
    BY <2>6, <2>7
<1>11. CASE (ParseCut \/ ParseBodyCut) /\ pc' # "bad"
  <2>1. closed' /\ pc' = "middleware"
    BY <1>11 DEF ParseCut, ParseBodyCut
  <2>2. QED
    BY <2>1 DEF Aligned
<1>12. CASE ParseBody
  <2>1. pc' = "middleware" /\ Window'[1].nth = 1
    BY <1>1, <1>12, BodyLeaves DEF ParseBody
  <2>2. QED
    BY <2>1 DEF Aligned, AtStart
<1>13. QED
  BY <1>6, <1>7, <1>8, <1>9, <1>10, <1>11, <1>12, Kinds DEF BadRequest

LEMMA InitAligned == Init => Aligned /\ OwnMethods
<1> SUFFICES ASSUME Init PROVE Aligned /\ OwnMethods
  OBVIOUS
<1>1. stream = <<>> /\ at = [of |-> 1, nth |-> 1] /\ pc = "parse" /\ calls = <<>>
  BY DEF Init
<1>2. Window[1] = at
  BY <1>1 DEF Window
<1>3. Range(calls) = {}
  BY <1>1 DEF Range
<1>4. QED
  BY <1>1, <1>2, <1>3 DEF Aligned, AtStart, OwnMethods, InHand

\* A header block that begins in a body comes behind a length that could not be
\* read.
LEMMA OwnMethod ==
  ASSUME Typed, Gapless, AtStart(Window[1]),
         NEW k \in 1 .. Len(stream), stream[k].nth <= 4, stream[k].of \in DOMAIN dialog,
         Measured(stream[k].of - 1)
  PROVE  Part(stream[1]) # "body"
<1> DEFINE u == Window[1]
           v == Window[k]
<1>1. /\ Len(stream) \in Nat /\ DOMAIN Window = 1 .. Len(stream) + 1 /\ v = stream[k]
      /\ k \in DOMAIN Window /\ 1 \in DOMAIN Window /\ stream[1] = u
      /\ u \in Units /\ v \in Units
  BY WindowIs, FrontIs
<1>2. u.of \in Nat \ {0} /\ u.nth \in Nat \ {0} /\ v.of \in Nat \ {0} /\ v.nth \in Nat \ {0}
  BY <1>1 DEF Units
<1>3. CASE u.nth = 1
  BY <1>1, <1>3, PartIs
<1>4. CASE u.nth > 4 /\ ~ Measured(u.of)
  <2>1. k # 1
    BY <1>1, <1>2, <1>4
  <2>2. Follows(u, k - 1, v)
    BY <1>1, <2>1, GaplessIs
  <2>3. u.of \in DOMAIN dialog
    <3>1. u \in Range(stream) \/ k = 1
      BY <1>1 DEF Range
    <3>2. QED
      BY <2>1, <3>1, GaplessIs
  <2>4. v.of > u.of
    <3>1. CASE k - 1 <= More(u)
      <4>1. v.nth = u.nth + (k - 1)
        BY <2>2, <3>1 DEF Follows
      <4>2. v.nth > 4
        BY <1>2, <1>4, <4>1
      <4>3. QED
        BY <1>1, <1>2, <4>2
    <3>2. CASE k - 1 > More(u)
      BY <2>2, <3>2 DEF Follows
    <3>3. More(u) \in Int
      <4>1. dialog[u.of].body \in Nat
        BY <2>3, Bodies DEF Typed
      <4>2. QED
        BY <1>2, <4>1 DEF More
    <3>4. QED
      BY <3>1, <3>2, <3>3
  <2>5. Measured(u.of)
    BY <1>1, <1>2, <2>4 DEF Measured
  <2>6. QED
    BY <1>4, <2>5
<1>5. QED
  BY <1>3, <1>4 DEF AtStart

LEMMA NextOwnMethods ==
  ASSUME Ordered, Aligned, OwnMethods, [Next]_vars
  PROVE  OwnMethods'
<1>1. Typed /\ Gapless /\ Fresh
  BY DEF Ordered
<1>2. dialog' = dialog /\ (\A i : Measured(i)' = Measured(i))
  BY <1>1, NextBytes DEF Measured
<1>3. /\ \A c \in Range(calls) : Measured(c.req.of - 1) => c.req.method = dialog[c.req.of].method
      /\ pc \in InHand => (Measured(req.of - 1) => req.method = dialog[req.of].method)
  BY DEF OwnMethods
<1>4. CASE /\ calls' = calls
           /\ pc' \in InHand => pc \in InHand /\ req'.of = req.of /\ req'.method = req.method
  BY <1>2, <1>3, <1>4 DEF OwnMethods, Measured
<1>5. CASE Quiet \/ Refuses \/ BadRequest
  BY <1>4, <1>5 DEF Quiet, Refuses, BadRequest, InHand
<1>6. CASE ClientSends
  BY <1>4, <1>6 DEF ClientSends, serverVars
<1>7. CASE ParseBody \/ ParseBodyCut
  BY <1>1, <1>4, <1>7 DEF ParseBody, ParseBodyCut, Typed, InHand
<1>8. CASE Handles
  <2>1. pc \in InHand /\ pc' = "loop" /\ \A c \in Range(calls') : c \in Range(calls) \/ c.req = req
    BY <1>1, <1>8, Appended DEF Handles, InHand, Call, Typed
  <2>2. QED
    BY <1>2, <1>3, <2>1 DEF OwnMethods, Measured, InHand
<1>9. CASE ParseHead \/ ParseCut
  <2>1. calls' = calls /\ pc = "parse" /\ AtStart(Window[1])
    BY <1>1, <1>9 DEF ParseHead, ParseCut, Aligned, Fresh
  <2>2. CASE pc' = "bad"
    BY <1>4, <2>1, <2>2 DEF InHand
  <2>3. CASE pc' # "bad"
    <3>1. PICK k \in 1 .. Len(stream) :
            /\ stream[k].nth <= 4 /\ stream[k].of \in DOMAIN dialog
            /\ req'.of = stream[k].of
            /\ req'.method = IF Part(stream[1]) = "body" THEN Garbled ELSE dialog[stream[k].of].method
      <4>0. \A i \in DOMAIN dialog : toupper(Verb(dialog[i])) = dialog[i].method
        BY <1>1, Bodies, VerbRead DEF Typed
      <4>1. CASE ParseHead
        <5>1. PICK e \in 1 .. Len(stream) :
                /\ stream[e].nth = 4 /\ stream[e].of \in DOMAIN dialog
                /\ req' = Parsed(SubSeq(stream, 1, e))
                /\ Last(SubSeq(stream, 1, e)) = stream[e] /\ Head(SubSeq(stream, 1, e)) = stream[1]
          BY <1>1, <4>1, HeadTaken
        <5>2. /\ req'.of = stream[e].of
              /\ req'.method = IF Part(stream[1]) = "body" THEN Garbled ELSE dialog[stream[e].of].method
          BY <4>0, <5>1, ParsedIs
        <5>3. stream[e].nth <= 4
          BY <5>1
        <5>4. QED
          BY <5>1, <5>2, <5>3
      <4>2. CASE ParseCut
        <5>1. PICK e \in 1 .. Len(stream) :
                /\ stream[e].nth <= 3 /\ stream[e].of \in DOMAIN dialog
                /\ req' = [Parsed(SubSeq(stream, 1, e)) EXCEPT !.whole = FALSE]
                /\ Last(SubSeq(stream, 1, e)) = stream[e] /\ Head(SubSeq(stream, 1, e)) = stream[1]
          BY <1>1, <2>3, <4>2, CutTaken
        <5>2. stream[e].nth <= 4
          <6>1. stream[e] \in Units
            BY <1>1, WindowIs
          <6>2. QED
            BY <5>1, <6>1 DEF Units
        <5>3. QED
          BY <4>0, <5>1, <5>2, ParsedIs
      <4>3. QED
        BY <1>9, <4>1, <4>2
    <3>2. Measured(stream[k].of - 1) => req'.method = dialog[stream[k].of].method
      BY <1>1, <2>1, <3>1, OwnMethod
    <3>3. QED
      BY <1>2, <1>3, <2>1, <3>1, <3>2 DEF OwnMethods, Measured
  <2>4. QED
    BY <2>2, <2>3
<1>10. QED
  BY <1>5, <1>6, <1>7, <1>8, <1>9, Kinds

LEMMA AlwaysAligned == Spec => [](Ordered /\ Aligned /\ OwnMethods)
<1>1. Ordered /\ Aligned /\ OwnMethods /\ [Next]_vars => Ordered' /\ Aligned' /\ OwnMethods'
  BY NextOrdered, NextAligned, NextOwnMethods
<1>2. QED
  BY <1>1, InitOrdered, InitAligned, PTL DEF Spec

\* Handlers are called in order and at most once for each request, and with its own
\* method if the lengths of the bodies before it can be read: none of these is taken
\* for a request.
THEOREM InStepAlways == Spec => []InStep
<1>1. Ordered /\ OwnMethods => InStep
  BY DEF Ordered, CallsInOrder, OwnMethods, InStep
<1>2. QED
  BY <1>1, AlwaysAligned, PTL

-----------------------------------------------------------------------------
(* The end of a connection.                                                *)

LEMMA InitAsSaid == Init => AsSaid /\ Stays /\ NoRefusal
<1> SUFFICES ASSUME Init PROVE AsSaid /\ Stays /\ NoRefusal
  OBVIOUS
<1>1. /\ calls = <<>> /\ answers = <<>> /\ pc = "parse" /\ dialog \in Dialogs
      /\ stream = <<>> /\ at = [of |-> 1, nth |-> 1]
  BY DEF Init
<1>2. Range(calls) = {} /\ Range(answers) = {} /\ DOMAIN calls = {} /\ DOMAIN answers = {}
  BY <1>1 DEF Range
<1>3. \A i \in DOMAIN dialog : ~ HasRead(i)
  BY <1>1, Bodies DEF HasRead, Ahead
<1>4. QED
  BY <1>1, <1>2, <1>3 DEF AsSaid, Stays, NoRefusal, InHand

\* parse() gives the loop a request that says what its header block says.
LEMMA ParsedFaithful ==
  ASSUME Typed, Gapless, ParseHead \/ ParseCut, pc' # "bad"
  PROVE  Faithful(req)'
<1>1. dialog' = dialog /\ said' = said
  BY DEF ParseHead, ParseCut
<1>2. CASE ParseHead
  <2>1. PICK e \in 1 .. Len(stream) :
          /\ stream[e].of \in DOMAIN dialog
          /\ req' = Parsed(SubSeq(stream, 1, e)) /\ Last(SubSeq(stream, 1, e)) = stream[e]
    BY <1>2, HeadTaken
  <2>2. /\ req'.of = stream[e].of /\ req'.sound = said[stream[e].of].sound
        /\ req'.keep = said[stream[e].of].keep /\ req'.path = said[stream[e].of].path
        /\ req'.query = said[stream[e].of].query
    BY <2>1, ParsedIs
  <2>3. req'.sound
    BY <1>2 DEF ParseHead
  <2>4. QED
    BY <1>1, <2>1, <2>2, <2>3 DEF Faithful
<1>3. CASE ParseCut
  <2>1. PICK e \in 1 .. Len(stream) :
          /\ stream[e].of \in DOMAIN dialog
          /\ req' = [Parsed(SubSeq(stream, 1, e)) EXCEPT !.whole = FALSE] /\ req'.sound
          /\ Last(SubSeq(stream, 1, e)) = stream[e]
    BY <1>3, CutTaken
  <2>2. /\ req'.of = stream[e].of /\ req'.sound = said[stream[e].of].sound
        /\ req'.keep = said[stream[e].of].keep /\ req'.path = said[stream[e].of].path
        /\ req'.query = said[stream[e].of].query
    BY <2>1, ParsedIs
  <2>3. QED
    BY <1>1, <2>1, <2>2 DEF Faithful
<1>4. QED
  BY <1>2, <1>3

LEMMA NextAsSaid ==
  ASSUME Typed, Gapless, AsSaid, [Next]_vars
  PROVE  AsSaid'
<1>1. dialog' = dialog /\ said' = said
  BY NextBytes
<1>2. \A r : Faithful(r)' = Faithful(r)
  BY <1>1 DEF Faithful
<1>3. /\ \A c \in Range(calls) : Faithful(c.req)
      /\ pc \in InHand \cup {"loop"} => Faithful(req)
  BY DEF AsSaid
<1>4. CASE /\ calls' = calls
           /\ pc' \in InHand \cup {"loop"} => pc \in InHand \cup {"loop"} /\ req' = req
  BY <1>1, <1>3, <1>4 DEF AsSaid, Faithful
<1>5. CASE Quiet \/ Refuses \/ BadRequest \/ ParseBodyCut
  BY <1>4, <1>5 DEF Quiet, Refuses, BadRequest, ParseBodyCut, InHand
<1>6. CASE ClientSends
  BY <1>4, <1>6 DEF ClientSends, serverVars
<1>7. CASE ParseBody
  <2>1. /\ calls' = calls /\ req'.of = req.of /\ req'.keep = req.keep /\ req'.path = req.path
        /\ req'.query = req.query /\ pc = "body"
    BY <1>7 DEF ParseBody, Typed, InHand
  <2>2. QED
    BY <1>1, <1>3, <2>1 DEF AsSaid, Faithful, InHand
<1>8. CASE Handles
  <2>1. /\ pc \in InHand /\ pc' = "loop" /\ req' = req
        /\ \A c \in Range(calls') : c \in Range(calls) \/ c.req = req
    BY <1>8, Appended DEF Handles, InHand, Call, Typed
  <2>2. QED
    BY <1>1, <1>3, <2>1 DEF AsSaid, Faithful
<1>9. CASE ParseHead \/ ParseCut
  <2>1. calls' = calls
    BY <1>9 DEF ParseHead, ParseCut
  <2>2. CASE pc' = "bad"
    BY <1>4, <2>1, <2>2 DEF InHand
  <2>3. CASE pc' # "bad"
    <3>1. Faithful(req)'
      BY <1>9, <2>3, ParsedFaithful
    <3>2. QED
      BY <1>1, <1>3, <2>1, <3>1 DEF AsSaid, Faithful
  <2>4. QED
    BY <2>2, <2>3
<1>10. QED
  BY <1>5, <1>6, <1>7, <1>8, <1>9, Kinds

\* The next unit is the first one of the window.
LEMMA AheadIs ==
  ASSUME Typed
  PROVE  \A i : HasRead(i) <=> i < Window[1].of \/ (i = Window[1].of /\ Window[1].nth > 1)
<1>1. stream \in Seq(Units) /\ at \in Units /\ Window[1] \in Units
  BY FrontIs DEF Typed
<1>2. ASSUME stream = <<>> PROVE Ahead = Window[1]
  <2>1. Ahead = at /\ Window[Len(stream) + 1] = at
    BY <1>2, WindowIs DEF Ahead
  <2>2. Len(stream) + 1 = 1
    BY <1>2
  <2>3. QED
    BY <2>1, <2>2
<1>3. ASSUME stream # <<>> PROVE Ahead = Window[1]
  <2>1. Len(stream) \in Nat \ {0} /\ Head(stream) = stream[1]
    BY <1>1, <1>3
  <2>2. 1 \in 1 .. Len(stream)
    BY <2>1
  <2>3. stream[1] = Window[1]
    BY <2>2, FrontIs
  <2>4. QED
    BY <1>3, <2>1, <2>3 DEF Ahead
<1>4. Ahead = Window[1]
  BY <1>2, <1>3
<1>5. QED
  BY <1>1, <1>4 DEF HasRead

\* Whoever finds no end of a header block on its way has not left the request.
LEMMA OneBlock ==
  ASSUME Typed, Gapless, NEW f \in 1 .. Len(stream), NEW k \in f .. Len(stream),
         stream[f].nth = 1, \A l \in f .. k - 1 : stream[l].nth # 4
  PROVE  stream[k].of = stream[f].of
<1> DEFINE u == stream[f]
           v == stream[k]
<1>1. /\ Len(stream) \in Nat /\ DOMAIN Window = 1 .. Len(stream) + 1
      /\ \A l \in 1 .. Len(stream) : Window[l] = stream[l] /\ l \in DOMAIN Window
      /\ k \in 1 .. Len(stream) /\ u \in Units
  BY WindowIs
<1>2. u.of \in DOMAIN dialog
  BY WindowIs, GaplessIs DEF Range
<1>3. More(u) \in Nat /\ More(u) >= 3
  <2>1. dialog[u.of].body \in Nat
    BY <1>2, Bodies DEF Typed
  <2>2. QED
    BY <2>1 DEF More
<1>4. \A l \in 1 .. Len(stream) : f < l => Follows(u, l - f, stream[l])
  BY <1>1, GaplessIs
<1>5. CASE k - f <= More(u)
  <2>1. CASE k = f
    BY <2>1
  <2>2. CASE f < k
    <3>1. k - f <= More(u) => v = [of |-> u.of, nth |-> u.nth + (k - f)]
      BY <1>1, <1>4, <2>2 DEF Follows
    <3>2. QED
      BY <1>5, <3>1
  <2>3. QED
    BY <1>1, <2>1, <2>2
<1>6. CASE k - f > More(u)
  <2>1. PICK l \in f .. k - 1 : l = f + 3
    BY <1>1, <1>3, <1>6
  <2>2. l \in 1 .. Len(stream) /\ f < l /\ l - f = 3
    BY <1>1, <2>1
  <2>3. Follows(u, 3, stream[l])
    BY <1>4, <2>2
  <2>4. stream[l].nth = 1 + 3
    BY <1>3, <2>3 DEF Follows
  <2>5. QED
    BY <2>1, <2>4
<1>7. QED
  BY <1>1, <1>3, <1>5, <1>6

\* A request that parse() finds is that of the next unit, or the one behind a body that
\* stands in front of it: nothing is passed over.
LEMMA NoneSkipped ==
  ASSUME Typed, Gapless, AtStart(Window[1]),
         NEW k \in 1 .. Len(stream), stream[k].nth <= 4,
         \A l \in 1 .. k - 1 : stream[l].nth # 4,
         NEW i \in DOMAIN dialog, i < stream[k].of
  PROVE  HasRead(i)
<1> DEFINE u == stream[1]
           m == More(u)
<1>1. /\ Len(stream) \in Nat /\ DOMAIN Window = 1 .. Len(stream) + 1
      /\ \A l \in 1 .. Len(stream) : Window[l] = stream[l] /\ l \in DOMAIN Window
      /\ u = Window[1] /\ u \in Units /\ 1 \in 1 .. Len(stream)
  BY WindowIs
<1>2. u.of \in DOMAIN dialog /\ u.of \in Nat /\ u.nth \in Nat
  BY <1>1, WindowIs, GaplessIs DEF Range, Units
<1>3. i \in Nat
  BY Bodies DEF Typed
<1>4. HasRead(i) <=> i < u.of \/ (i = u.of /\ u.nth > 1)
  BY <1>1, AheadIs
<1>5. CASE u.nth = 1
  <2>1. stream[k].of = u.of
    BY <1>1, <1>5, OneBlock
  <2>2. QED
    BY <1>4, <2>1
<1>6. CASE u.nth > 4
  <2>1. m \in Nat /\ u \in Range(Window)
    <3>1. dialog[u.of].body \in Nat /\ u \in Range(Window)
      BY <1>1, <1>2, Bodies DEF Typed, Range
    <3>2. m \in Int /\ m >= 0
      BY <1>2, <3>1, GaplessIs DEF More
    <3>3. QED
      BY <3>1, <3>2
  <2>2. \A l \in 1 .. Len(stream) : 1 < l => Follows(u, l - 1, stream[l])
    BY <1>1, GaplessIs
  <2>3. k - 1 > m
    <3>1. ASSUME k - 1 <= m PROVE stream[k].nth > 4
      <4>1. CASE k = 1
        BY <1>6, <4>1
      <4>2. CASE 1 < k
        <5>1. k - 1 <= m => stream[k] = [of |-> u.of, nth |-> u.nth + (k - 1)]
          BY <2>2, <4>2 DEF Follows
        <5>2. QED
          BY <1>2, <1>6, <3>1, <4>2, <5>1
      <4>3. QED
        BY <4>1, <4>2
    <3>2. stream[k].nth \in Nat
      BY WindowIs DEF Units
    <3>3. QED
      BY <2>1, <3>1, <3>2
  <2>4. PICK f \in 1 .. Len(stream) : f = m + 2
    BY <1>1, <2>1, <2>3
  <2>5. Follows(u, m + 1, stream[f])
    <3>1. 1 < f /\ f - 1 = m + 1
      BY <2>1, <2>4
    <3>2. QED
      BY <2>2, <3>1
  <2>6. stream[f].of = u.of + 1 /\ stream[f].nth = 1
    BY <2>1, <2>5 DEF Follows
  <2>7. k \in f .. Len(stream) /\ \A l \in f .. k - 1 : l \in 1 .. k - 1
    BY <1>1, <2>1, <2>3, <2>4
  <2>8. stream[k].of = stream[f].of
    BY <2>6, <2>7, OneBlock
  <2>9. QED
    BY <1>2, <1>3, <1>4, <1>6, <2>6, <2>8
<1>7. QED
  BY <1>1, <1>5, <1>6 DEF AtStart

LEMMA NextStays ==
  ASSUME Ordered, Aligned, AsSaid, Stays, [Next]_vars
  PROVE  Stays'
<1>1. Typed /\ Gapless /\ Fresh /\ Typed'
  BY NextOrdered DEF Ordered
<1>2. /\ dialog' = dialog /\ (closed => closed')
      /\ DOMAIN dialog \subseteq Nat
  BY <1>1, NextBytes, Bodies DEF Typed
<1>3. /\ \A c \in Range(calls) : StayedBefore(c.req.of)
      /\ \A a \in Range(answers) : a.code # 400 => StayedBefore(a.to)
      /\ pc \in InHand \cup {"loop"} => StayedBefore(req.of)
      /\ pc = "parse" => \A i \in DOMAIN dialog : HasRead(i) => MeansToStay(dialog[i])
      /\ pc \in InHand \cup {"loop"} /\ ~ closed =>
           \A i \in DOMAIN dialog : HasRead(i) => i <= req.of
  BY DEF Stays
<1>4. \A i : StayedBefore(i)' = StayedBefore(i)
  BY <1>2 DEF StayedBefore
<1>5. (\A i : HasRead(i) <=> i < Window[1].of \/ (i = Window[1].of /\ Window[1].nth > 1))'
  BY <1>1, AheadIs, PTL
<1>6. ASSUME Window'[1] = Window[1] PROVE \A i : HasRead(i)' <=> HasRead(i)
  <2>1. ASSUME NEW i PROVE HasRead(i)' <=> HasRead(i)
    <3>1. HasRead(i)' <=> i < Window'[1].of \/ (i = Window'[1].of /\ Window'[1].nth > 1)
      BY <1>5
    <3>2. HasRead(i) <=> i < Window[1].of \/ (i = Window[1].of /\ Window[1].nth > 1)
      BY <1>1, AheadIs
    <3>3. QED
      BY <1>6, <3>1, <3>2
  <2>2. QED
    BY <2>1
<1>7. CASE Quiet
  <2>1. UNCHANGED <<req, calls, answers, closed>> /\ Window' = Window
    BY <1>7 DEF Quiet, Window
  <2>2. \A i : HasRead(i)' <=> HasRead(i)
    BY <1>6, <2>1
  <2>3. CASE pc = "loop" /\ pc' = "parse" /\ req.keep /\ ~ closed
    <3>1. req.of \in DOMAIN dialog /\ MeansToStay(dialog[req.of])
      <4>1. req.of \in DOMAIN dialog /\ said[req.of].keep
        BY <2>3 DEF AsSaid, Faithful
      <4>2. said[req.of] = Said(dialog[req.of]) /\ IsRequest(dialog[req.of])
        BY <1>1, <4>1, Bodies DEF Typed
      <4>3. QED
        BY <4>1, <4>2, SaidKeep
    <3>2. ASSUME NEW i \in DOMAIN dialog, HasRead(i) PROVE MeansToStay(dialog[i])
      <4>1. i <= req.of /\ i \in Nat /\ req.of \in Nat /\ i \in 1 .. Len(dialog)
        BY <1>1, <1>2, <1>3, <2>3, <3>1, <3>2, Bodies DEF Typed
      <4>2. StayedBefore(req.of)
        BY <1>3, <2>3
      <4>3. CASE i = req.of
        BY <3>1, <4>3
      <4>4. CASE i < req.of
        BY <4>1, <4>2, <4>4 DEF StayedBefore
      <4>5. QED
        BY <4>1, <4>3, <4>4
    <3>3. QED
      BY <1>2, <1>3, <1>4, <2>1, <2>2, <2>3, <3>2 DEF Stays, InHand
  <2>4. CASE pc' = pc
    BY <1>2, <1>3, <1>4, <2>1, <2>2, <2>4 DEF Stays
  <2>5. CASE pc \in {"middleware", "routes", "match"} /\ pc' \in {"routes", "match", "handler"}
    <3>1. pc \in InHand \cup {"loop"} /\ pc' # "parse"
      BY <2>5 DEF InHand
    <3>2. QED
      BY <1>2, <1>3, <1>4, <2>1, <2>2, <3>1 DEF Stays
  <2>6. CASE pc' = "done"
    BY <1>3, <1>4, <2>1, <2>6 DEF Stays, InHand
  <2>7. QED
    BY <1>7, <2>3, <2>4, <2>5, <2>6 DEF Quiet
<1>8. CASE ClientSends
  <2>1. UNCHANGED <<pc, req, calls, answers, closed>> /\ Window'[1] = Window[1]
    BY <1>1, <1>8, Sent DEF ClientSends, serverVars
  <2>2. QED
    BY <1>2, <1>3, <1>4, <1>6, <2>1 DEF Stays
<1>9. CASE ParseHead \/ ParseCut
  <2>1. /\ UNCHANGED <<calls, answers>> /\ pc = "parse" /\ pc' \notin {"parse", "loop"}
        /\ AtStart(Window[1])
    BY <1>1, <1>9 DEF ParseHead, ParseCut, Aligned, Fresh
  <2>2. CASE pc' = "bad"
    BY <1>3, <1>4, <2>1, <2>2 DEF Stays, InHand
  <2>3. CASE pc' # "bad"
    <3>1. PICK k \in 1 .. Len(stream) :
            /\ stream[k].nth <= 4 /\ stream[k].of \in DOMAIN dialog /\ req'.of = stream[k].of
            /\ \A l \in 1 .. k - 1 : stream[l].nth # 4
      <4>1. CASE ParseHead
        <5>1. PICK e \in 1 .. Len(stream) :
                /\ stream[e].nth = 4 /\ stream[e].of \in DOMAIN dialog
                /\ req' = Parsed(SubSeq(stream, 1, e)) /\ Last(SubSeq(stream, 1, e)) = stream[e]
                /\ \A l \in 1 .. e - 1 : stream[l].nth # 4
          BY <1>1, <4>1, HeadTaken
        <5>2. req'.of = stream[e].of
          BY <5>1, ParsedIs
        <5>3. QED
          BY <5>1, <5>2
      <4>2. CASE ParseCut
        <5>1. PICK e \in 1 .. Len(stream) :
                /\ stream[e].nth <= 3 /\ stream[e].of \in DOMAIN dialog
                /\ req' = [Parsed(SubSeq(stream, 1, e)) EXCEPT !.whole = FALSE]
                /\ Last(SubSeq(stream, 1, e)) = stream[e]
                /\ \A l \in 1 .. e - 1 : stream[l].nth # 4
          BY <1>1, <2>3, <4>2, CutTaken
        <5>2. stream[e].nth <= 4
          <6>1. stream[e] \in Units
            BY <1>1, WindowIs
          <6>2. QED
            BY <5>1, <6>1 DEF Units
        <5>3. req'.of = stream[e].of
          BY <5>1, ParsedIs
        <5>4. QED
          BY <5>1, <5>2, <5>3
      <4>3. QED
        BY <1>9, <4>1, <4>2
    <3>2. StayedBefore(req'.of)
      <4>1. ASSUME NEW i \in 1 .. req'.of - 1 PROVE MeansToStay(dialog[i])
        <5>1. i \in DOMAIN dialog /\ i < stream[k].of
          BY <1>1, <1>2, <3>1, <4>1, Bodies DEF Typed
        <5>2. HasRead(i)
          BY <1>1, <2>1, <3>1, <5>1, NoneSkipped
        <5>3. QED
          BY <1>3, <2>1, <5>1, <5>2
      <4>2. QED
        BY <4>1 DEF StayedBefore
    <3>3. ASSUME ~ closed', NEW i \in DOMAIN dialog, HasRead(i)' PROVE i <= req'.of
      <4>1. ParseHead
        BY <1>9, <3>3 DEF ParseCut
      <4>2. Window'[1] \in {[of |-> req'.of, nth |-> 5], [of |-> req'.of + 1, nth |-> 1]}
        BY <1>1, <4>1, HeadLeaves
      <4>3. i < Window'[1].of \/ (i = Window'[1].of /\ Window'[1].nth > 1)
        BY <1>5, <3>3
      <4>4. i \in Nat /\ req'.of \in Nat
        BY <1>2, <3>1
      <4>5. QED
        BY <4>2, <4>3, <4>4
    <3>4. QED
      BY <1>2, <1>3, <1>4, <2>1, <3>2, <3>3 DEF Stays
  <2>4. QED
    BY <2>2, <2>3
<1>10. CASE ParseBody
  <2>1. /\ UNCHANGED <<calls, answers, closed>> /\ pc = "body" /\ pc' = "middleware"
        /\ req'.of = req.of
    BY <1>1, <1>10 DEF ParseBody, Typed, InHand
  <2>2. req.of \in Nat /\ Window'[1] = [of |-> req.of + 1, nth |-> 1]
    BY <1>1, <1>2, <1>10, BodyLeaves
  <2>3. ASSUME NEW i \in DOMAIN dialog, HasRead(i)' PROVE i <= req'.of
    <3>1. i < Window'[1].of \/ (i = Window'[1].of /\ Window'[1].nth > 1)
      BY <1>5, <2>3
    <3>2. QED
      BY <1>2, <2>1, <2>2, <3>1
  <2>4. QED
    BY <1>2, <1>3, <1>4, <2>1, <2>3 DEF Stays, InHand
<1>11. CASE ParseBodyCut
  <2>1. UNCHANGED <<calls, answers, req>> /\ pc = "body" /\ pc' = "middleware" /\ closed'
    BY <1>11 DEF ParseBodyCut
  <2>2. QED
    BY <1>3, <1>4, <2>1 DEF Stays, InHand
<1>12. calls \in Seq(Range(calls)) /\ answers \in Seq(Range(answers))
  BY <1>1 DEF Typed
<1>13. CASE BadRequest
  <2>1. /\ calls' = calls /\ pc' = "done"
        /\ answers' = answers \/ answers' = Append(answers, [code |-> 400, to |-> None])
    BY <1>13 DEF BadRequest, Answer
  <2>2. \A a \in Range(answers') : a \in Range(answers) \/ a.code = 400
    <3>1. CASE answers' = answers
      BY <3>1
    <3>2. CASE answers' = Append(answers, [code |-> 400, to |-> None])
      <4>1. Range(answers') = Range(answers) \cup {[code |-> 400, to |-> None]}
        BY <1>12, <3>2, Appended
      <4>2. QED
        BY <4>1
    <3>3. QED
      BY <2>1, <3>1, <3>2
  <2>3. QED
    BY <1>3, <1>4, <2>1, <2>2 DEF Stays, InHand
<1>14. CASE Refuses \/ Handles
  <2>1. /\ pc \in InHand \cup {"loop"} /\ pc' = "loop" /\ req' = req /\ Answered
        /\ Window' = Window
    BY <1>14 DEF Refuses, Handles, InHand, Window
  <2>2. \A c \in Range(calls') : c \in Range(calls) \/ c.req = req
    <3>1. CASE calls' = calls
      BY <3>1
    <3>2. CASE Call
      <4>1. Range(calls') = Range(calls) \cup {[req |-> req, route |-> next]}
        BY <1>12, <3>2, Appended DEF Call
      <4>2. QED
        BY <4>1
    <3>3. QED
      BY <1>14, <3>1, <3>2 DEF Refuses, Handles
  <2>3. \A a \in Range(answers') : a \in Range(answers) \/ a.to = req.of
    <3>1. CASE answers' = answers
      BY <3>1
    <3>2. ASSUME NEW code \in Nat \ {400}, answers' = Append(answers, [code |-> code, to |-> req.of])
          PROVE  \A a \in Range(answers') : a \in Range(answers) \/ a.to = req.of
      <4>1. Range(answers') = Range(answers) \cup {[code |-> code, to |-> req.of]}
        BY <1>12, <3>2, Appended
      <4>2. QED
        BY <4>1
    <3>3. QED
      BY <2>1, <3>1, <3>2 DEF Answered
  <2>4. \A i : HasRead(i)' <=> HasRead(i)
    BY <1>6, <2>1
  <2>5. QED
    BY <1>2, <1>3, <1>4, <2>1, <2>2, <2>3, <2>4 DEF Stays
<1>15. QED
  BY <1>7, <1>8, <1>9, <1>10, <1>11, <1>13, <1>14, Kinds

\* A refusal is the last answer.
LEMMA NextNoRefusal ==
  ASSUME Typed, NoRefusal, [Next]_vars
  PROVE  NoRefusal'
<1>1. /\ \A i \in DOMAIN answers : answers[i].code = 400 => i = Len(answers)
      /\ pc # "done" => \A a \in Range(answers) : a.code # 400
  BY DEF NoRefusal
<1>2. CASE answers' = answers /\ (pc' # "done" => pc # "done")
  BY <1>1, <1>2 DEF NoRefusal
<1>3. CASE Quiet \/ ClientSends \/ ParseHead \/ ParseCut \/ ParseBody \/ ParseBodyCut
  BY <1>2, <1>3 DEF Quiet, ClientSends, ParseHead, ParseCut, ParseBody, ParseBodyCut, serverVars
<1>4. ASSUME NEW a, pc # "done", answers' = Append(answers, a), a.code # 400 \/ pc' = "done"
      PROVE  NoRefusal'
  <2>1. /\ Len(answers) \in Nat /\ DOMAIN answers = 1 .. Len(answers)
        /\ DOMAIN answers' = 1 .. Len(answers) + 1 /\ Len(answers') = Len(answers) + 1
        /\ \A i \in 1 .. Len(answers) : answers'[i] = answers[i] /\ answers[i] \in Range(answers)
        /\ answers'[Len(answers) + 1] = a
        /\ Range(answers') = Range(answers) \cup {a}
    <3>1. answers \in Seq(Range(answers))
      BY DEF Typed
    <3>2. \A i \in DOMAIN answers : answers[i] \in Range(answers)
      BY DEF Range
    <3>3. QED
      BY <1>4, <3>1, <3>2, Appended
  <2>2. \A i \in 1 .. Len(answers) : answers'[i].code # 400
    BY <1>1, <1>4, <2>1
  <2>3. \A i \in DOMAIN answers' : i \in 1 .. Len(answers) \/ i = Len(answers')
    BY <2>1
  <2>4. QED
    BY <1>1, <1>4, <2>1, <2>2, <2>3 DEF NoRefusal
<1>5. CASE BadRequest
  <2>1. /\ pc = "bad" /\ pc' = "done"
        /\ answers' = answers \/ answers' = Append(answers, [code |-> 400, to |-> None])
    BY <1>5 DEF BadRequest, Answer
  <2>2. QED
    BY <1>2, <1>4, <2>1
<1>6. CASE Refuses \/ Handles
  <2>1. pc \in {"middleware", "routes", "handler"} /\ Answered
    BY <1>6 DEF Refuses, Handles
  <2>2. CASE answers' = answers
    BY <1>2, <2>1, <2>2
  <2>3. CASE \E code \in Nat \ {400} : answers' = Append(answers, [code |-> code, to |-> req.of])
    <3>1. PICK code \in Nat \ {400} : answers' = Append(answers, [code |-> code, to |-> req.of])
      BY <2>3
    <3>2. [code |-> code, to |-> req.of].code # 400 /\ pc # "done"
      BY <2>1
    <3>3. QED
      BY <1>4, <3>1, <3>2
  <2>4. QED
    BY <2>1, <2>2, <2>3 DEF Answered
<1>7. QED
  BY <1>3, <1>5, <1>6, Kinds

LEMMA AlwaysAsSaid == Spec => [](Ordered /\ Aligned /\ AsSaid /\ Stays /\ NoRefusal)
<1>1. Ordered /\ Aligned /\ AsSaid /\ Stays /\ NoRefusal /\ [Next]_vars
        => Ordered' /\ Aligned' /\ AsSaid' /\ Stays' /\ NoRefusal'
  BY NextOrdered, NextAligned, NextAsSaid, NextStays, NextNoRefusal DEF Ordered
<1>2. QED
  BY <1>1, InitOrdered, InitAligned, InitAsSaid, PTL DEF Spec

\* Nothing is read, handled or answered behind a request that ends the connection,
\* whatever became of that request, and nothing at all behind a refusal.
THEOREM NothingAfterEndAlways == Spec => []NothingAfterEnd
<1>1. Stays /\ NoRefusal => NothingAfterEnd
  <2> SUFFICES ASSUME Stays, NoRefusal PROVE NothingAfterEnd
    OBVIOUS
  <2>1. \A i \in DOMAIN answers : answers[i].code = 400 => i = Len(answers) /\ pc = "done"
    BY DEF NoRefusal, Range
  <2>2. QED
    BY <2>1 DEF NothingAfterEnd, Stays
<1>2. QED
  BY <1>1, AlwaysAsSaid, PTL

-----------------------------------------------------------------------------
(* The routes.                                                             *)

LEMMA RoutesAre ==
  /\ DOMAIN RouteTable = 1 .. Len(RouteTable) /\ Len(RouteTable) \in Nat
  /\ \A i \in DOMAIN RouteTable : RouteTable[i] \in Range(RouteTable) /\ RouteTable[i].pattern \in Patterns
<1>1. DOMAIN RouteTable = 1 .. Len(RouteTable) /\ Len(RouteTable) \in Nat
  BY HttpAssumption, LenProperties
<1>2. \A i \in DOMAIN RouteTable : RouteTable[i] \in Range(RouteTable)
  BY DEF Range
<1>3. QED
  BY <1>1, <1>2, HttpAssumption

\* What a request says is what its client meant.
LEMMA RequestRead ==
  ASSUME Typed, NEW r, Faithful(r)
  PROVE  LET d == dialog[r.of]
         IN  /\ IsRequest(d) /\ r.path = d.path /\ r.path \in Paths /\ r.query = MeantBy(d.fields)
             /\ \A name \in Range(d.path) : ~ HasDots(name)
<1> DEFINE d == dialog[r.of]
<1>1. /\ r.of \in DOMAIN dialog /\ said[r.of].sound
      /\ r.path = said[r.of].path /\ r.query = said[r.of].query
  BY DEF Faithful
<1>2. said[r.of] = Said(d) /\ IsRequest(d)
  BY <1>1, Bodies DEF Typed
<1> HIDE DEF d
<1>3. /\ Said(d).path = d.path /\ Said(d).query = MeantBy(d.fields)
      /\ \A name \in Range(d.path) : ~ HasDots(name)
  BY <1>1, <1>2, SaidPath
<1>4. d.path \in Paths
  BY <1>2 DEF IsRequest
<1>5. QED
  BY <1>1, <1>2, <1>3, <1>4 DEF d

LEMMA PathRead ==
  ASSUME Typed, NEW r, Faithful(r)
  PROVE  r.path = dialog[r.of].path /\ r.path \in Paths
  BY RequestRead

\* A handler sees the path and the fields that its client meant, and no "..".
THEOREM AsMeantAlways == Spec => []AsMeant
<1>1. Ordered /\ AsSaid => AsMeant
  <2> SUFFICES ASSUME Typed, AsSaid, NEW c \in Range(calls)
               PROVE  LET d == dialog[c.req.of]
                          last == Meant(d.fields)
                      IN  /\ c.req.path = d.path
                          /\ c.req.query = [k \in DOMAIN last |-> d.fields[last[k]][2]]
                          /\ \A name \in Range(d.path) : ~ HasDots(name)
    BY DEF Ordered, AsMeant
  <2>1. Faithful(c.req)
    BY DEF AsSaid
  <2>2. QED
    BY <2>1, RequestRead DEF MeantBy
<1>2. QED
  BY <1>1, AlwaysAsSaid, PTL

LEMMA InitRoutes == Init => IInv /\ Tried /\ Chosen /\ Told
<1> SUFFICES ASSUME Init PROVE IInv /\ Tried /\ Chosen /\ Told
  OBVIOUS
<1>1. /\ pc = "parse" /\ calls = <<>> /\ answers = <<>>
      /\ pattern = <<>> /\ path = <<>> /\ ri = 1 /\ params = Unbound /\ rest = <<>> /\ result = None
  BY DEF Init
<1>2. Range(calls) = {} /\ Range(answers) = {}
  BY <1>1 DEF Range
<1>3. IInv
  BY <1>1 DEF IInv, Shape, RightAnswer, Unbound
<1>4. QED
  BY <1>1, <1>2, <1>3 DEF Tried, Chosen, Told

\* Route::match is right about each route that it is asked about.
LEMMA NextMatch ==
  ASSUME Typed, AsSaid, Tried, IInv, [Next]_vars
  PROVE  IInv'
<1>1. CASE StartMatch
  <2>1. /\ pc = "routes" /\ next \in DOMAIN RouteTable
        /\ MatchStart(RouteTable[next].pattern, req.path)
    BY <1>1, RoutesAre DEF StartMatch, Typed
  <2>2. RouteTable[next].pattern \in Patterns /\ req.path \in Paths
    BY <2>1, RoutesAre, PathRead DEF AsSaid, InHand
  <2>3. pattern' \in Seq(Words \cup Names \cup {Star}) /\ path' \in Seq(Words)
    BY <2>1, <2>2, RouterAssumption DEF MatchStart
  <2>4. ri' = 1 /\ params' = Unbound /\ rest' = <<>> /\ result' = None
    BY <2>1 DEF MatchStart
  <2>5. Len(pattern') \in Nat /\ Len(path') \in Nat
    BY <2>3
  <2>6. QED
    BY <2>3, <2>4, <2>5 DEF IInv, Shape, RightAnswer, Unbound
<1>2. CASE MatchStep
  BY <1>2, StepIInv DEF MatchStep
<1>3. CASE UNCHANGED matchVars
  BY <1>3, StepIInv
<1>4. StartMatch \/ MatchStep \/ UNCHANGED matchVars
  BY DEF Next, Server, vars, ClientSends, HangUp, ParseHead, ParseCut, ParseBody, ParseBodyCut,
         BadRequest, Middleware, Dispatch, TryRoute, NoRoute, Handler, Loop
<1>5. QED
  BY <1>1, <1>2, <1>3, <1>4

LEMMA NextTried ==
  ASSUME Typed, IInv, Tried, [Next]_vars
  PROVE  Tried'
<1> DEFINE Vain(n) == \A r \in 1 .. n : ~ Suits(RouteTable[r], req.method, req.path)
           Seen(n) == \E r \in 1 .. n : Matches(RouteTable[r].pattern, req.path)
<1>1. /\ next \in Nat \ {0} /\ Len(RouteTable) \in Nat /\ DOMAIN RouteTable = 1 .. Len(RouteTable)
  BY RoutesAre DEF Typed
<1>2. CASE pc' \notin {"routes", "match", "handler"}
  BY <1>2 DEF Tried
<1>3. CASE UNCHANGED <<pc, req, next, pathSeen, pattern, path>>
  BY <1>3 DEF Tried
<1>4. CASE Dispatch
  <2>1. pc' = "routes" /\ next' = 1 /\ pathSeen' = FALSE
    BY <1>4 DEF Dispatch
  <2>2. 1 .. next' - 1 = {}
    BY <2>1
  <2>3. next' <= Len(RouteTable) + 1
    BY <1>1, <2>1
  <2>4. pathSeen' = (\E r \in 1 .. next - 1 : Matches(RouteTable[r].pattern, req.path))'
    BY <2>1, <2>2, Zenon
  <2>5. QED
    BY <2>1, <2>2, <2>3, <2>4 DEF Tried
<1>5. CASE StartMatch
  <2>1. /\ pc = "routes" /\ pc' = "match" /\ UNCHANGED <<req, next, pathSeen>>
        /\ next <= Len(RouteTable) /\ pattern' = RouteTable[next].pattern /\ path' = req.path
    BY <1>5 DEF StartMatch, MatchStart
  <2>2. QED
    BY <1>1, <2>1 DEF Tried
<1>6. CASE TryRoute
  <2>1. /\ pc = "match" /\ result # None /\ req' = req /\ pathSeen' = (pathSeen \/ result)
        /\ IF result /\ RouteTable[next].method \in {"*", req.method}
             THEN pc' = "handler" /\ next' = next
             ELSE pc' = "routes" /\ next' = next + 1
    BY <1>6 DEF TryRoute
  <2>2. /\ next \in DOMAIN RouteTable /\ Vain(next - 1) /\ pathSeen = Seen(next - 1)
        /\ pattern = RouteTable[next].pattern /\ path = req.path
    BY <2>1 DEF Tried
  <2>3. result = Matches(RouteTable[next].pattern, req.path)
    BY <2>1, <2>2 DEF IInv, RightAnswer
  <2>4. Suits(RouteTable[next], req.method, req.path)
          <=> result /\ RouteTable[next].method \in {"*", req.method}
    BY <2>3 DEF Suits
  <2>5. \A r \in 1 .. next : r \in 1 .. next - 1 \/ r = next
    BY <1>1
  <2>6. CASE result /\ RouteTable[next].method \in {"*", req.method}
    BY <2>1, <2>2, <2>4, <2>6 DEF Tried
  <2>7. CASE ~ (result /\ RouteTable[next].method \in {"*", req.method})
    <3>1. pc' = "routes" /\ next' = next + 1 /\ next' - 1 = next /\ next' <= Len(RouteTable) + 1
      BY <1>1, <2>1, <2>2, <2>7
    <3>2. Vain(next)
      BY <2>2, <2>4, <2>5, <2>7
    <3>3. pathSeen' = Seen(next)
      <4>1. Seen(next) <=> Seen(next - 1) \/ Matches(RouteTable[next].pattern, req.path)
        <5>1. 1 .. next - 1 \subseteq 1 .. next /\ next \in 1 .. next
          BY <1>1
        <5>2. QED
          BY <2>5, <5>1
      <4>2. pathSeen' <=> Seen(next)
        BY <2>1, <2>2, <2>3, <4>1
      <4>3. pathSeen' \in BOOLEAN /\ Seen(next) \in BOOLEAN
        BY <2>1
      <4>4. QED
        BY <4>2, <4>3, Zenon
    <3>4. QED
      BY <2>1, <3>1, <3>2, <3>3 DEF Tried
  <2>8. QED
    BY <2>6, <2>7
<1>7. CASE Middleware
  BY <1>2, <1>7 DEF Middleware
<1>8. CASE MatchStep
  BY <1>3, <1>8 DEF MatchStep, MatchNext, Wildcard, Param, Literal, EndLoop, serverVars
<1>9. CASE ClientSends \/ HangUp \/ UNCHANGED vars
  BY <1>3, <1>9 DEF ClientSends, HangUp, vars, serverVars, matchVars
<1>10. CASE ParseHead \/ ParseCut \/ ParseBody \/ ParseBodyCut \/ BadRequest \/ NoRoute \/ Handler \/ Loop
  BY <1>2, <1>10 DEF ParseHead, ParseCut, ParseBody, ParseBodyCut, BadRequest, NoRoute, Handler, Loop
<1>11. QED
  BY <1>4, <1>5, <1>6, <1>7, <1>8, <1>9, <1>10 DEF Next, Server

LEMMA NextChosen ==
  ASSUME Typed, Tried, Chosen, [Next]_vars
  PROVE  Chosen'
<1>1. calls' = calls \/ Handles
  BY Kinds DEF Quiet, ClientSends, ParseHead, ParseCut, ParseBody, ParseBodyCut, BadRequest, Refuses
<1>2. CASE calls' = calls
  BY <1>2 DEF Chosen
<1>3. CASE Handles
  <2>1. pc = "handler" /\ calls' = Append(calls, [req |-> req, route |-> next])
    BY <1>3 DEF Handles, Call
  <2>2. \A c \in Range(calls') : c \in Range(calls) \/ c = [req |-> req, route |-> next]
    BY <2>1, Appended DEF Typed
  <2>3. /\ next \in DOMAIN RouteTable /\ Suits(RouteTable[next], req.method, req.path)
        /\ \A r \in 1 .. next - 1 : ~ Suits(RouteTable[r], req.method, req.path)
    BY <2>1 DEF Tried
  <2>4. QED
    BY <2>2, <2>3 DEF Chosen
<1>4. QED
  BY <1>1, <1>2, <1>3

\* NoRoute tells what is wrong with the request.
LEMMA NoRouteTells ==
  ASSUME Typed, AsSaid, Tried, NoRoute,
         NEW a, a.code = IF pathSeen THEN 405 ELSE 404, a.to = req.of
  PROVE  Tells(a)
<1>1. pc = "routes" /\ next > Len(RouteTable) /\ next \in Nat
  BY DEF NoRoute, Typed
<1>2. next - 1 = Len(RouteTable)
  BY <1>1, RoutesAre DEF Tried
<1>3. pathSeen = \E r \in 1 .. next - 1 : Matches(RouteTable[r].pattern, req.path)
  BY <1>1 DEF Tried
<1>4. req.path = dialog[req.of].path
  BY <1>1, PathRead DEF AsSaid, InHand
<1>5. a.code = 405 <=> pathSeen
  OBVIOUS
<1>6. QED
  BY <1>2, <1>3, <1>4, <1>5, RoutesAre DEF Tells

LEMMA NextTold ==
  ASSUME Typed, Gapless, AsSaid, Tried, Told, [Next]_vars
  PROVE  Told'
<1> DEFINE Fine(a) == a.code \in {404, 405} => (\E c \in Range(calls) : c.req.of = a.to) \/ Tells(a)
<1>1. Range(calls) \subseteq Range(calls') /\ dialog' = dialog
  <2>1. Range(calls) \subseteq Range(Append(calls, [req |-> req, route |-> next]))
    BY Appended DEF Typed
  <2>2. calls' = calls \/ calls' = Append(calls, [req |-> req, route |-> next])
    BY Kinds DEF Quiet, ClientSends, ParseHead, ParseCut, ParseBody, ParseBodyCut, BadRequest,
                 Refuses, Handles, Call
  <2>3. Range(calls) \subseteq Range(calls')
    BY <2>1, <2>2
  <2>4. QED
    BY <2>3, NextBytes
<1>2. ASSUME NEW a, Fine(a) PROVE Fine(a)'
  BY <1>1, <1>2 DEF Tells
<1>3. \A a \in Range(answers) : Fine(a)
  BY DEF Told
<1>4. CASE answers' = answers
  BY <1>2, <1>3, <1>4 DEF Told
<1>5. ASSUME NEW a, answers' = Append(answers, a), Fine(a)' PROVE Told'
  <2>1. Range(answers') = Range(answers) \cup {a}
    BY <1>5, Appended DEF Typed
  <2>2. \A b \in Range(answers') : Fine(b)'
    BY <1>2, <1>3, <1>5, <2>1
  <2>3. QED
    BY <2>2 DEF Told
<1>6. ASSUME NEW code, NEW to, Answer(code, to), answers' # answers
      PROVE  \E a : a.code = code /\ a.to = to /\ answers' = Append(answers, a)
  <2> DEFINE a == [code |-> code, to |-> to]
  <2>1. a.code = code /\ a.to = to /\ answers' = Append(answers, a)
    BY <1>6 DEF Answer
  <2>2. QED
    BY <2>1
<1>7. ASSUME NEW code \in Nat \ {404, 405}, NEW to, Answer(code, to) PROVE Told'
  <2>1. CASE answers' # answers
    <3>1. PICK a : a.code = code /\ a.to = to /\ answers' = Append(answers, a)
      BY <1>6, <1>7, <2>1
    <3>2. Fine(a)'
      BY <3>1
    <3>3. QED
      BY <1>5, <3>1, <3>2
  <2>2. QED
    BY <1>4, <2>1
<1>8. CASE BadRequest \/ Middleware
  <2>1. answers' = answers \/ Answer(400, None) \/ Answer(403, req.of)
    BY <1>8 DEF BadRequest, Middleware
  <2>2. QED
    BY <1>4, <1>7, <2>1
<1>9. CASE NoRoute
  <2>1. PICK code : code = (IF pathSeen THEN 405 ELSE 404) /\ Answer(code, req.of)
    BY <1>9 DEF NoRoute
  <2>2. CASE answers' # answers
    <3>1. PICK a : a.code = code /\ a.to = req.of /\ answers' = Append(answers, a)
      BY <1>6, <2>1, <2>2
    <3>2. Tells(a)
      BY <1>9, <2>1, <3>1, NoRouteTells
    <3>3. Fine(a)'
      BY <1>2, <3>2
    <3>4. QED
      BY <1>5, <3>1, <3>3
  <2>3. QED
    BY <1>4, <2>2
<1>10. CASE Handler
  <2>1. calls' = Append(calls, [req |-> req, route |-> next])
    BY <1>10 DEF Handler, Call
  <2>2. PICK c \in Range(calls') : c.req.of = req.of
    BY <2>1, Appended DEF Typed
  <2>3. \A a : a.to = req.of => Fine(a)'
    BY <2>2
  <2>4. answers' = answers \/ \E code : Answer(code, req.of)
    BY <1>10 DEF Handler
  <2>5. CASE answers' # answers
    <3>1. PICK code : Answer(code, req.of)
      BY <2>4, <2>5
    <3>2. PICK a : a.code = code /\ a.to = req.of /\ answers' = Append(answers, a)
      BY <1>6, <2>5, <3>1
    <3>3. QED
      BY <1>5, <2>3, <3>2
  <2>6. QED
    BY <1>4, <2>5
<1>11. answers' = answers \/ BadRequest \/ Middleware \/ NoRoute \/ Handler
  BY DEF Next, Server, vars, ClientSends, HangUp, ParseHead, ParseCut, ParseBody, ParseBodyCut,
         Dispatch, StartMatch, MatchStep, TryRoute, Loop
<1>12. QED
  BY <1>4, <1>8, <1>9, <1>10, <1>11

LEMMA AlwaysRouted ==
  Spec => [](Ordered /\ AsSaid /\ IInv /\ Tried /\ Chosen /\ Told)
<1>1. Ordered /\ AsSaid /\ IInv /\ Tried /\ Chosen /\ Told /\ [Next]_vars
        => Ordered' /\ AsSaid' /\ IInv' /\ Tried' /\ Chosen' /\ Told'
  BY NextOrdered, NextAsSaid, NextMatch, NextTried, NextChosen, NextTold DEF Ordered
<1>2. QED
  BY <1>1, InitOrdered, InitAsSaid, InitRoutes, PTL DEF Spec

\* The loop of Route::match, run by the server for one route after the other.
LEMMA NextParams ==
  ASSUME Typed, AsSaid, Tried, IInv, ParamsSoFar, [Next]_vars
  PROVE  ParamsSoFar'
<1>1. CASE StartMatch
  <2>1. ri' = 1 /\ params' = Unbound /\ rest' = <<>> /\ result' = None
    BY <1>1 DEF StartMatch, MatchStart
  <2>2. \A n \in Names : Passed(n)' = {} /\ params'[n] = None
    BY <2>1 DEF Passed, Unbound
  <2>3. QED
    BY <2>1, <2>2, RouterAssumption DEF ParamsSoFar
<1>2. CASE MatchStep
  BY <1>2, StepParams DEF MatchStep
<1>3. CASE UNCHANGED matchVars
  BY <1>3, StepParams
<1>4. StartMatch \/ MatchStep \/ UNCHANGED matchVars
  BY DEF Next, Server, vars, ClientSends, HangUp, ParseHead, ParseCut, ParseBody, ParseBodyCut,
         BadRequest, Middleware, Dispatch, TryRoute, NoRoute, Handler, Loop
<1>5. QED
  BY <1>1, <1>2, <1>3, <1>4

\* In the server, too, Route::match says yes to the paths of a pattern's shape only,
\* and binds the names and "*" as the pattern says, whatever the requests are.
THEOREM MatchedRightAlways == Spec => [](RightAnswer /\ RightParams)
<1>1. Init => ParamsSoFar
  <2> SUFFICES ASSUME Init PROVE ParamsSoFar
    OBVIOUS
  <2>1. ri = 1 /\ params = Unbound /\ rest = <<>> /\ result = None
    BY DEF Init
  <2>2. \A n \in Names : Passed(n) = {} /\ params[n] = None
    BY <2>1 DEF Passed, Unbound
  <2>3. QED
    BY <2>1, <2>2, RouterAssumption DEF ParamsSoFar
<1>2. Ordered /\ AsSaid /\ Tried /\ IInv /\ ParamsSoFar /\ [Next]_vars => ParamsSoFar'
  BY NextParams DEF Ordered
<1>3. IInv /\ ParamsSoFar => RightAnswer /\ RightParams
  BY DEF IInv, ParamsSoFar, RightParams, Passed
<1>4. QED
  BY <1>1, <1>2, <1>3, AlwaysRouted, PTL DEF Spec

\* A request gets the handler of the first route with its method and path, and one
\* that gets none learns whether only the method is wrong.
THEOREM RightHandlerAlways == Spec => []RightHandler
<1>1. Ordered /\ AsSaid /\ Chosen /\ Told => RightHandler
  <2> SUFFICES ASSUME Ordered, AsSaid, Chosen, Told PROVE RightHandler
    OBVIOUS
  <2>1. ASSUME NEW c \in Range(calls)
        PROVE  c.route = SelectInSeq(RouteTable,
                           LAMBDA r : Suits(r, c.req.method, dialog[c.req.of].path))
    <3> DEFINE I == {i \in 1 .. Len(RouteTable) :
                       Suits(RouteTable[i], c.req.method, dialog[c.req.of].path)}
    <3>1. c.req.path = dialog[c.req.of].path
      BY PathRead DEF AsSaid, Ordered
    <3>2. c.route \in I /\ I \in SUBSET Nat
      BY <3>1, RoutesAre DEF Chosen
    <3>3. \A i \in I : c.route <= i
      BY <3>1, <3>2, RoutesAre DEF Chosen
    <3>4. Min(I) = c.route
      BY <3>2, <3>3, MinIs
    <3>5. QED
      BY <3>2, <3>4 DEF SelectInSeq
  <2>2. ASSUME NEW a \in Range(answers), a.code \in {404, 405},
               \A c \in Range(calls) : c.req.of # a.to
        PROVE  a.code = 405 <=> \E r \in Range(RouteTable) : Matches(r.pattern, dialog[a.to].path)
    <3>1. Tells(a)
      BY <2>2 DEF Told
    <3>2. QED
      BY <3>1 DEF Tells, Range
  <2>3. QED
    BY <2>1, <2>2 DEF RightHandler
<1>2. QED
  BY <1>1, AlwaysRouted, PTL
=============================================================================
