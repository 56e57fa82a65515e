------------------------------- MODULE Router -------------------------------
(***************************************************************************)
(* The loop of Route::match (http_server.cpp): a path against a pattern,   *)
(* segment by segment.  HttpServer runs it for one route after the other.  *)
(***************************************************************************)
EXTENDS Routes, FiniteSetsExt

CONSTANTS
  Patterns,   \* the patterns and the paths to be matched
  Paths,
  None

ASSUME RouterAssumption ==
  /\ None \notin Words /\ None \notin BOOLEAN
  /\ Patterns \subseteq Seq(Words \cup Names \cup {Star})
  /\ Paths \subseteq Seq(Words)

VARIABLES
  pattern, path,
  ri,        \* both indices of the loop: they are always equal
  params,    \* the parameters bound to one segment
  rest,      \* params["*"]
  result

matchVars == <<pattern, path, ri, params, rest, result>>

Unbound == [n \in Names |-> None]

MatchInit ==
  /\ pattern \in Patterns
  /\ path \in Paths
  /\ ri = 1
  /\ params = Unbound
  /\ rest = <<>>
  /\ result = None

\* A caller calls Route::match.
MatchStart(pat, p) ==
  /\ pattern' = pat
  /\ path' = p
  /\ ri' = 1
  /\ params' = Unbound
  /\ rest' = <<>>
  /\ result' = None

InLoop == result = None /\ ri <= Len(pattern) /\ ri <= Len(path)

\* Mutant of Wildcard: the segment that met "*" is left out.
WildcardAfter ==
  /\ InLoop
  /\ pattern[ri] = Star
  /\ rest' = SubSeq(path, ri + 1, Len(path))
  /\ result' = TRUE
  /\ UNCHANGED <<pattern, path, ri, params>>

\* "*" takes the segments that are left.
Wildcard ==
  /\ InLoop
  /\ pattern[ri] = Star
  /\ rest' = SubSeq(path, ri, Len(path))
  /\ result' = TRUE
  /\ UNCHANGED <<pattern, path, ri, params>>

\* ":name" takes one segment.
Param ==
  /\ InLoop
  /\ pattern[ri] \in Names
  /\ params' = [params EXCEPT ![pattern[ri]] = path[ri]]
  /\ ri' = ri + 1
  /\ UNCHANGED <<pattern, path, rest, result>>

\* Another segment must be equal.
Literal ==
  /\ InLoop
  /\ pattern[ri] \in Words
  /\ IF pattern[ri] = path[ri]
       THEN ri' = ri + 1 /\ UNCHANGED result
       ELSE result' = FALSE /\ UNCHANGED ri
  /\ UNCHANGED <<pattern, path, params, rest>>

\* Mutant of EndLoop: a path may go on behind the pattern.
EndOfPattern ==
  /\ result = None /\ ~ InLoop
  /\ result' = (ri > Len(pattern))
  /\ UNCHANGED <<pattern, path, ri, params, rest>>

\* Both must have come to their end.
EndLoop ==
  /\ result = None /\ ~ InLoop
  /\ result' = (ri > Len(pattern) /\ ri > Len(path))
  /\ UNCHANGED <<pattern, path, ri, params, rest>>

MatchNext == Wildcard \/ Param \/ Literal \/ EndLoop

MatchSpec == MatchInit /\ [][MatchNext]_matchVars

-----------------------------------------------------------------------------
\* The answer of the loop is the right one for each pattern and path, also
\* for patterns longer or shorter than the path and for a "*" that is not last.
RightAnswer == result # None => (result = Matches(pattern, path))

\* Where the first "*" that the path reaches stands, or the end.
Stop(pat) == Min({s \in 1 .. Len(pat) : pat[s] = Star} \cup {Len(pat) + 1})

\* After a match a name is bound to the last segment that its name stands at,
\* and "*" to all that is left; a name of the pattern behind the "*" is not
\* bound.
RightParams ==
  result = TRUE =>
    /\ \A n \in Names :
         LET places == {i \in 1 .. Stop(pattern) - 1 : pattern[i] = n} IN
           params[n] = IF places = {} THEN None ELSE path[Max(places)]
    /\ rest = SubSeq(path, Stop(pattern), Len(path))
=============================================================================
