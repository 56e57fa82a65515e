------------------------------ MODULE HttpText ------------------------------
(***************************************************************************)
(* What the parser makes of the text of a request (http_parser.cpp), and   *)
(* what the request says about it (http_request.cpp).                      *)
(*                                                                         *)
(* A target is a sequence of characters; a run of letters that the parser  *)
(* never looks into may stand for one of them.  A header line is a         *)
(* sequence of words, blanks and colons.                                   *)
(***************************************************************************)
EXTENDS Integers, SequencesExt

CONSTANT MaxBody   \* the limit of 10 MB, in units

-----------------------------------------------------------------------------
(* Targets.                                                                *)

HexDigits == {"0", "1", "2", "3", "4", "5", "6", "7", "8", "9",
              "a", "b", "c", "d", "e", "f", "A", "B", "C", "D", "E", "F"}

\* The characters that occur, with the hexadecimal digits of their codes.
Codes == {<<" ", "2", "0">>, <<"%", "2", "5">>, <<"&", "2", "6">>, <<"+", "2", "B">>,
          <<"+", "2", "b">>, <<".", "2", "E">>, <<".", "2", "e">>, <<"=", "3", "D">>,
          <<"=", "3", "d">>, <<"?", "3", "F">>, <<"?", "3", "f">>, <<"a", "6", "1">>}

\* strtol() of two digits; the codes of other characters stand for themselves.
CharOf(hi, lo) ==
  LET known == {c \in Codes : c[2] = hi /\ c[3] = lo}
  IN  IF known = {} THEN <<hi, lo>> ELSE (CHOOSE c \in known : TRUE)[1]

\* An escape needs two hexadecimal digits behind the "%".
Escape(s, i) ==
  s[i] = "%" /\ i + 2 <= Len(s) /\ {s[i + 1], s[i + 2]} \subseteq HexDigits

url_decode(s) ==
  LET from[i \in 1 .. Len(s) + 1] ==
        IF i > Len(s) THEN <<>>
        ELSE IF Escape(s, i) THEN <<CharOf(s[i + 1], s[i + 2])>> \o from[i + 3]
        ELSE <<IF s[i] = "+" THEN " " ELSE s[i]>> \o from[i + 1]
  IN  from[1]

\* getline() with a separator, without the empty pieces.
Pieces(s, separator) ==
  LET End(i) == Min({j \in i .. Len(s) + 1 : j = Len(s) + 1 \/ s[j] = separator})
      from[i \in 1 .. Len(s) + 2] ==
        IF i > Len(s) THEN <<>>
        ELSE (IF End(i) = i THEN <<>> ELSE <<SubSeq(s, i, End(i) - 1)>>) \o from[End(i) + 1]
  IN  from[1]

\* What stands before and behind the first c.
Before(s, c) == SubSeq(s, 1, SelectInSeq(s, LAMBDA x : x = c) - 1)
Behind(s, c) == SubSeq(s, SelectInSeq(s, LAMBDA x : x = c) + 1, Len(s))

\* Entries that are put into a map one after the other: the last one for a key stays.
MapOf(entries) ==
  [k \in {e[1] : e \in Range(entries)} |->
     entries[Max({i \in DOMAIN entries : entries[i][1] = k})][2]]

\* A piece of the query string, "key=value" or only a key.
Pair(piece) ==
  IF Contains(piece, "=") THEN <<Before(piece, "="), Behind(piece, "=")>> ELSE <<piece, <<>>>>

\* Mutant of parse_query_string: the string is decoded before it is cut in pieces.
DecodedFirst(s) ==
  LET pieces == Pieces(url_decode(s), "&")
  IN  MapOf([i \in DOMAIN pieces |-> Pair(pieces[i])])

parse_query_string(s) ==
  LET pieces == Pieces(s, "&")
  IN  MapOf([i \in DOMAIN pieces |->
               <<url_decode(Pair(pieces[i])[1]), url_decode(Pair(pieces[i])[2])>>])

\* The target of a request line: the path is decoded after the "?" was found.
Target(url) ==
  IF Contains(url, "?")
    THEN [path |-> url_decode(Before(url, "?")), query |-> parse_query_string(Behind(url, "?"))]
    ELSE [path |-> url_decode(url), query |-> <<>>]

\* What parse_request_line() refuses.
HasDots(path) == \E i \in 1 .. Len(path) - 1 : path[i] = "." /\ path[i + 1] = "."

\* split() of Route::match.
Segments(path) == Pieces(path, "/")

-----------------------------------------------------------------------------
(* Header lines.                                                           *)

Blanks == {" ", "\t", "\r", "\n"}

trim(s) ==
  LET kept == {i \in DOMAIN s : s[i] \notin Blanks}
  IN  IF kept = {} THEN <<>> ELSE SubSeq(s, Min(kept), Max(kept))

\* The words of HTTP that are compared, in lower case.
Lower(word) ==
  CASE word = "Connection" -> "connection"
    [] word = "Content-Length" -> "content-length"
    [] word = "Close" -> "close"
    [] word = "Keep-Alive" -> "keep-alive"
    [] OTHER -> word

\* A method in capitals.
toupper(word) ==
  CASE word = "get" -> "GET"
    [] word = "post" -> "POST"
    [] word = "put" -> "PUT"
    [] OTHER -> word

to_lower(s) == [i \in DOMAIN s |-> Lower(s[i])]

\* parse_header_line(): a line without a colon or a name is passed over.
IsHeader(line) == Contains(line, ":") /\ trim(Before(line, ":")) # <<>>
Entry(line) == <<to_lower(trim(Before(line, ":"))), trim(Behind(line, ":"))>>

\* Step 4 of parse(): an empty line is the last one.
Headers(lines) ==
  LET empty == {i \in DOMAIN lines : lines[i] = <<>>} \cup {Len(lines) + 1}
  IN  MapOf([i \in {j \in 1 .. Min(empty) - 1 : IsHeader(lines[j])} |-> Entry(lines[i])])

header(headers, name) == IF name \in DOMAIN headers THEN headers[name] ELSE <<>>

keep_alive(version, headers) ==
  LET conn == to_lower(header(headers, <<"connection">>))
  IN  IF version = "HTTP/1.1" THEN conn # <<"close">> ELSE conn = <<"keep-alive">>

\* A number has one spelling, and it is not that of a number beyond int.
ASSUME NumeralAssumption ==
  \A n \in 0 .. MaxBody + 1 :
    /\ ToString(n) \notin Blanks \cup {"3000000000"}
    /\ \A m \in 0 .. MaxBody + 1 : ToString(m) = ToString(n) => m = n

\* stoi() reads a number that stands at the front and is not too large for an int;
\* what it cannot read counts as no header.
content_length(headers) ==
  LET value == header(headers, <<"content-length">>)
      number == {n \in 0 .. MaxBody + 1 : value # <<>> /\ value[1] = ToString(n)}
  IN  IF number = {} THEN -1 ELSE CHOOSE n \in number : TRUE
=============================================================================
