------------------------------- MODULE Routes -------------------------------
(***************************************************************************)
(* When a path has the shape of a route's pattern (http_server.h).         *)
(* Splitting at "/" leaves no empty segments: pattern and path are         *)
(* sequences of segments.                                                  *)
(***************************************************************************)
EXTENDS Integers, Sequences

CONSTANTS
  Words,      \* segments of paths, and plain segments of patterns
  Names,      \* the names x of segments ":x" of patterns
  Star        \* the segment "*"

ASSUME RoutesAssumption ==
  /\ Star \notin Words \cup Names
  /\ Words \cap Names = {}

\* Segment i of the pattern is an ordinary one, and the path agrees with it.
Agrees(pat, p, i) ==
  /\ i <= Len(pat) /\ i <= Len(p)
  /\ pat[i] # Star
  /\ pat[i] \in Words => pat[i] = p[i]

\* A path has the shape of a pattern: all segments agree, or those do that
\* stand before a "*" that has something left to match.
Matches(pat, p) ==
  \/ Len(pat) = Len(p) /\ \A i \in 1 .. Len(pat) : Agrees(pat, p, i)
  \/ \E s \in 1 .. Len(pat) :
       pat[s] = Star /\ s <= Len(p) /\ \A i \in 1 .. s - 1 : Agrees(pat, p, i)
=============================================================================
