----------------------------- MODULE HttpServer -----------------------------
(***************************************************************************)
(* One HTTP connection: HttpServer::handle_connection and dispatch         *)
(* (http_server.cpp) with HttpParser::parse (http_parser.cpp).  HttpText   *)
(* reads targets and header lines, Router matches a path with a route.     *)
(*                                                                         *)
(* The client's bytes are units: of the header block the target, the       *)
(* version, the fields and the empty line, then the units of the body.     *)
(* The client may hang up between any two of them.  The connection keeps   *)
(* the promises that Connection checks of read_until() and read_exact().   *)
(***************************************************************************)
EXTENDS Router, HttpText

CONSTANTS
  RouteTable,    \* routes_: a sequence of [method, pattern]
  Garbled,       \* a method that no client sends and no route has
  Middlewares,   \* how many middlewares are registered
  Dialogs        \* what the client may want to send: sequences of requests

ASSUME HttpAssumption ==
  /\ Middlewares \in Nat /\ MaxBody \in Nat /\ None \notin Nat
  /\ RouteTable \in Seq(Range(RouteTable))
  /\ \A r \in Range(RouteTable) : r.method # Garbled /\ r.pattern \in Patterns
  /\ \A d \in Dialogs : d \in Seq(Range(d))

VARIABLES
  dialog,     \* the requests of this client,
  said,       \* and what the parser reads in the header block of each
  at,         \* the unit that it sends next
  stream,     \* units sent and not read
  ended,      \* the client has hung up
  pc,         \* where handle_connection() is
  req,        \* the request being handled
  next,       \* the middleware or the route that is tried
  pathSeen,   \* path_matched
  closed,     \* closed_
  calls,      \* history: the requests for which a handler was called
  answers     \* history: the responses, with the request they were written for

clientVars == <<dialog, said, at, stream, ended>>
serverVars == <<pc, req, next, pathSeen>>
vars == <<clientVars, serverVars, matchVars, closed, calls, answers>>

-----------------------------------------------------------------------------
(* Routes.                                                                 *)

\* route(), and with "GET" and "POST" get() and post().
route(table, method, pat) == Append(table, [method |-> method, pattern |-> pat])

\* The routes that main() registers.
AppRoutes ==
  route(route(route(route(<<>>,
    "GET", <<>>), "GET", <<<<"static">>, Star>>), "GET", <<<<"api">>, <<"ping">>>>), "GET", <<<<"ws">>>>)

-----------------------------------------------------------------------------
(* What a client writes.                                                   *)

\* A client escapes all characters that it can, or those that mean something in
\* a form, or it writes what it has as it is.
Spelt(c, style) ==
  LET special == {d \in Codes : d[1] = c /\ (style = "all" \/ c \notin {"a", "."})}
  IN  IF style = "form" /\ c = " " THEN <<"+">>
      ELSE IF style = "plain" \/ special = {} THEN <<c>>
      ELSE LET d == CHOOSE d \in special : TRUE IN <<"%", d[2], d[3]>>

Written(text, style) == FlattenSeq([i \in DOMAIN text |-> Spelt(text[i], style)])

\* Fields are separated by one "&" or by two, and a value may be left out.
Field(f, style) ==
  (IF style = "plain" THEN <<"&", "&">> ELSE <<"&">>) \o Written(f[1], style) \o
  (IF style = "plain" /\ f[2] = <<>> THEN <<>> ELSE <<"=">> \o Written(f[2], style))

Url(r) ==
  <<"/">>
  \o FlattenSeq([i \in DOMAIN r.path |-> Written(r.path[i], r.style) \o <<"/">>])
  \o (IF r.fields = <<>> THEN <<>> ELSE <<"?">>)
  \o FlattenSeq([i \in DOMAIN r.fields |-> Field(r.fields[i], r.style)])

\* What is written as it is needs no escape, and looks like none.
Bare(text) ==
  /\ Range(text) \cap {" ", "+", "&", "=", "?", "/"} = {}
  /\ \A i \in DOMAIN text : ~ Escape(text, i)

\* Methods are capitals, names have no "/" in them, and whoever has a body says how long it is.
IsRequest(r) ==
  /\ toupper(r.method) = r.method
  /\ r.path \in Paths /\ r.fields \in Seq(Seq(STRING) \X Seq(STRING))
  /\ \A name \in Range(r.path) : name \in Seq(STRING) \ {<<>>} /\ "/" \notin Range(name)
  /\ \/ r.style \in {"all", "form"}
     \/ /\ r.style = "plain"
        /\ \A name \in Range(r.path) : Bare(name)
        /\ \A f \in Range(r.fields) : f[1] # <<>> /\ Bare(f[1]) /\ Bare(f[2])
  /\ r.conn \in {"", "close", "keep-alive"}
  /\ r.body \in Nat
  /\ \/ r.length = "none" /\ r.body = 0
     \/ r.length = "exact" /\ r.body <= MaxBody + 1
     \/ r.length = "unreadable"

ASSUME ClientAssumption == \A d \in Dialogs : \A r \in Range(d) : IsRequest(r)

\* Some clients write the method as they like.
Verb(r) ==
  LET small == {w \in {"get", "post", "put"} : r.style = "plain" /\ toupper(w) = r.method}
  IN  IF small = {} THEN r.method ELSE CHOOSE w \in small : TRUE

\* Clients differ in case and blanks, and send lines that say nothing.
Lines(r) ==
  LET plain == r.style = "plain"
      about == IF r.length = "none" THEN <<>>
               ELSE <<<<"Content-Length", ":", " ",
                        IF r.length = "exact" THEN ToString(r.body) ELSE "3000000000">>>>
      conn == IF r.conn = "" THEN <<>>
              ELSE IF plain THEN <<<<"connection", " ", ":",
                                     IF r.conn = "close" THEN "Close" ELSE "Keep-Alive", " ">>>>
              ELSE <<<<"Connection", ":", " ", r.conn>>>>
  IN  (IF plain THEN <<<<"junk">>, <<":", "junk">>>> ELSE <<>>) \o about \o conn

\* What the request line and the header lines of a request say.
Said(r) ==
  LET target == Target(Url(r))
      headers == Headers(Lines(r))
  IN  [path |-> Segments(target.path), query |-> target.query,
       keep |-> keep_alive(r.version, headers), len |-> content_length(headers),
       sound |-> r.words >= 3 /\ ~ HasDots(target.path)]

\* The units of a request are numbered.
Part(u) == IF u.nth <= 4 THEN <<"target", "version", "fields", "end">>[u.nth] ELSE "body"

\* The one behind u, in the same request or the next one.
Following(u) ==
  IF u.nth < 4 + dialog[u.of].body THEN [of |-> u.of, nth |-> u.nth + 1]
  ELSE [of |-> u.of + 1, nth |-> 1]

Init ==
  /\ dialog \in Dialogs
  /\ said = [i \in DOMAIN dialog |-> Said(dialog[i])]
  /\ at = [of |-> 1, nth |-> 1]
  /\ stream = <<>>
  /\ ended = FALSE
  /\ pc = "parse"
  /\ req = None
  /\ next = 1
  /\ pathSeen = FALSE
  /\ pattern = <<>> /\ path = <<>> /\ ri = 1 /\ params = Unbound /\ rest = <<>> /\ result = None
  /\ closed = FALSE
  /\ calls = <<>>
  /\ answers = <<>>

-----------------------------------------------------------------------------
(* The client.                                                             *)

ClientSends ==
  /\ ~ ended /\ at.of <= Len(dialog)
  /\ stream' = Append(stream, at)
  /\ at' = Following(at)
  /\ UNCHANGED <<dialog, said, ended, serverVars, matchVars, closed, calls, answers>>

HangUp ==
  /\ ~ ended
  /\ ended' = TRUE
  /\ UNCHANGED <<dialog, said, at, stream, serverVars, matchVars, closed, calls, answers>>

-----------------------------------------------------------------------------
(* HttpParser::parse.                                                      *)

\* A header block is read.  A body is a word without blanks: what is left of one in
\* front of a request line spoils the method.
Parsed(block) ==
  LET i == Last(block).of
  IN  [of |-> i,
       method |-> IF Part(Head(block)) = "body" THEN Garbled ELSE toupper(Verb(dialog[i])),
       whole |-> said[i].len <= 0, path |-> said[i].path, query |-> said[i].query,
       keep |-> said[i].keep, len |-> said[i].len, sound |-> said[i].sound]

\* Step 1 of parse() finds the end of the header block.
ParseHead ==
  /\ pc = "parse"
  /\ \E e \in DOMAIN stream :
       /\ Part(stream[e]) = "end"
       /\ \A i \in 1 .. e - 1 : Part(stream[i]) # "end"
       /\ req' = Parsed(SubSeq(stream, 1, e))
       /\ stream' = SubSeq(stream, e + 1, Len(stream))
       /\ pc' = IF ~ req'.sound \/ req'.len > MaxBody THEN "bad"
                ELSE IF req'.len > 0 THEN "body" ELSE "middleware"
  /\ next' = 1
  /\ UNCHANGED <<dialog, said, at, ended, pathSeen, matchVars, closed, calls, answers>>

NoEnd == \A i \in DOMAIN stream : Part(stream[i]) # "end"

\* Mutant of ParseCut: the end of the stream counts as no data yet.
ParseCutWaits ==
  /\ pc = "parse" /\ ended /\ NoEnd
  /\ UNCHANGED vars

\* The client hung up before it: read_until() gives what there is.  The last
\* four bytes of that are dropped; what is left may be a request or not.
ParseCut ==
  /\ pc = "parse" /\ ended /\ NoEnd
  /\ closed' = TRUE
  /\ stream' = <<>>
  /\ next' = 1
  /\ \/ /\ \E i \in DOMAIN stream :
             /\ Part(stream[i]) \in {"version", "fields"}
             /\ req' = [Parsed(SubSeq(stream, 1, i)) EXCEPT !.whole = FALSE]
             /\ req'.sound
        /\ pc' = "middleware"
     \/ /\ pc' = "bad"
        /\ UNCHANGED req
  /\ UNCHANGED <<dialog, said, at, ended, pathSeen, matchVars, calls, answers>>

\* Mutant of ParseBody: the body stays in the stream.
ParseBodyPeeks ==
  /\ pc = "body"
  /\ Len(stream) >= req.len
  /\ pc' = "middleware"
  /\ UNCHANGED <<clientVars, req, next, pathSeen, matchVars, closed, calls, answers>>

\* Step 5: read_exact().
ParseBody ==
  /\ pc = "body"
  /\ Len(stream) >= req.len
  /\ stream' = SubSeq(stream, req.len + 1, Len(stream))
  /\ req' = [req EXCEPT !.whole = TRUE]
  /\ pc' = "middleware"
  /\ UNCHANGED <<dialog, said, at, ended, next, pathSeen, matchVars, closed, calls, answers>>

\* The client hung up in the body: parse() does not look at what it got.
ParseBodyCut ==
  /\ pc = "body" /\ ended
  /\ Len(stream) < req.len
  /\ closed' = TRUE
  /\ stream' = <<>>
  /\ pc' = "middleware"
  /\ UNCHANGED <<dialog, said, at, ended, req, next, pathSeen, matchVars, calls, answers>>

-----------------------------------------------------------------------------
(* handle_connection() and dispatch().                                     *)

\* write(): nothing on a closed connection, and it may fail after a hang-up.
Answer(code, to) ==
  \/ /\ ~ closed
     /\ answers' = Append(answers, [code |-> code, to |-> to])
     /\ UNCHANGED closed
  \/ /\ closed
     /\ UNCHANGED <<answers, closed>>
  \/ /\ ~ closed /\ ended
     /\ closed' = TRUE
     /\ UNCHANGED answers

\* parse() returned false.
BadRequest ==
  /\ pc = "bad"
  /\ IF closed THEN UNCHANGED <<answers, closed>> ELSE Answer(400, None)
  /\ pc' = "done"
  /\ UNCHANGED <<clientVars, req, next, pathSeen, matchVars, calls>>

\* Mutant of Middleware: the loop goes on behind a stop, past the keep-alive test.
MiddlewareGoesOn ==
  /\ pc = "middleware" /\ next <= Middlewares
  /\ \/ next' = next + 1 /\ UNCHANGED <<pc, answers, closed>>
     \/ UNCHANGED <<answers, closed>> /\ pc' = (IF closed THEN "done" ELSE "parse") /\ next' = 1
     \/ Answer(403, req.of) /\ pc' = (IF closed' THEN "done" ELSE "parse") /\ next' = 1
  /\ UNCHANGED <<clientVars, req, pathSeen, matchVars, calls>>

\* A middleware lets the request pass, or stops it, with an answer or without.
Middleware ==
  /\ pc = "middleware" /\ next <= Middlewares
  /\ \/ next' = next + 1 /\ UNCHANGED <<pc, answers, closed>>
     \/ pc' = "loop" /\ next' = 1 /\ UNCHANGED <<answers, closed>>
     \/ pc' = "loop" /\ next' = 1 /\ Answer(403, req.of)
  /\ UNCHANGED <<clientVars, req, pathSeen, matchVars, calls>>

Dispatch ==
  /\ pc = "middleware" /\ next > Middlewares
  /\ pc' = "routes"
  /\ next' = 1
  /\ pathSeen' = FALSE
  /\ UNCHANGED <<clientVars, req, matchVars, closed, calls, answers>>

\* The next round of the loop over routes_ begins with Route::match.
StartMatch ==
  /\ pc = "routes" /\ next <= Len(RouteTable)
  /\ MatchStart(RouteTable[next].pattern, req.path)
  /\ pc' = "match"
  /\ UNCHANGED <<clientVars, req, next, pathSeen, closed, calls, answers>>

MatchStep ==
  /\ pc = "match"
  /\ MatchNext
  /\ UNCHANGED <<clientVars, serverVars, closed, calls, answers>>

\* Mutant of TryRoute: the method is looked at first.
TryMethodFirst ==
  /\ pc = "match" /\ result # None
  /\ LET method == RouteTable[next].method \in {"*", req.method}
     IN  /\ pathSeen' = (pathSeen \/ (method /\ result))
         /\ IF method /\ result
              THEN pc' = "handler" /\ UNCHANGED next
              ELSE pc' = "routes" /\ next' = next + 1
  /\ UNCHANGED <<clientVars, req, matchVars, closed, calls, answers>>

\* The end of the round.
TryRoute ==
  /\ pc = "match" /\ result # None
  /\ pathSeen' = (pathSeen \/ result)
  /\ IF result /\ RouteTable[next].method \in {"*", req.method}
       THEN pc' = "handler" /\ UNCHANGED next
       ELSE pc' = "routes" /\ next' = next + 1
  /\ UNCHANGED <<clientVars, req, matchVars, closed, calls, answers>>

NoRoute ==
  /\ pc = "routes" /\ next > Len(RouteTable)
  /\ Answer(IF pathSeen THEN 405 ELSE 404, req.of)
  /\ pc' = "loop"
  /\ next' = 1
  /\ UNCHANGED <<clientVars, req, pathSeen, matchVars, calls>>

Call == calls' = Append(calls, [req |-> req, route |-> next])

\* Mutant of Handler: the loop over the routes goes on after the call.
HandlerAndOn ==
  /\ pc = "handler"
  /\ Call
  /\ pc' = "routes"
  /\ next' = next + 1
  /\ Answer(200, req.of)
  /\ UNCHANGED <<clientVars, req, pathSeen, matchVars>>

\* The handler answers (main.cpp has 302 for "/", 200 or 404 for files, 200 for
\* "/api/ping"), returns without an answer (a failed WebSocket handshake), or
\* throws (500).  No handler of main.cpp throws after it has answered:
\* send_error() would answer a second time.  What the handler of "/ws" reads
\* and writes is the business of WebSocket and ChatRoom.
Handler ==
  /\ pc = "handler"
  /\ Call
  /\ pc' = "loop"
  /\ next' = 1
  /\ \/ \E code \in {200, 302, 404} : Answer(code, req.of)
     \/ UNCHANGED <<answers, closed>>
     \/ IF closed THEN UNCHANGED <<answers, closed>> ELSE Answer(500, req.of)
  /\ UNCHANGED <<clientVars, req, pathSeen, matchVars>>

\* The condition of the keep-alive loop.
Loop ==
  /\ pc = "loop"
  /\ pc' = IF req.keep /\ ~ closed THEN "parse" ELSE "done"
  /\ UNCHANGED <<clientVars, req, next, pathSeen, matchVars, closed, calls, answers>>

Server ==
  \/ ParseHead \/ ParseCut \/ ParseBody \/ ParseBodyCut \/ BadRequest
  \/ Middleware \/ Dispatch \/ StartMatch \/ MatchStep \/ TryRoute \/ NoRoute
  \/ Handler \/ Loop

Next == ClientSends \/ HangUp \/ Server

Spec == Init /\ [][Next]_vars

\* The scheduler resumes the coroutine again and again; of clients nothing is assumed.
FairSpec == Spec /\ WF_vars(Server)

-----------------------------------------------------------------------------

\* The version and the Connection header, in whatever case, keep the connection.
MeansToStay(r) == IF r.version = "HTTP/1.1" THEN r.conn # "close" ELSE r.conn = "keep-alive"

\* What the client gets answered comes in the order of its requests, and no
\* request is answered twice: pipelining relies on it.
AnswersInOrder ==
  \A i, j \in DOMAIN answers :
    i < j => \/ answers[j].to = None
             \/ answers[i].to # None /\ answers[i].to < answers[j].to

\* A body is never taken for a request: handlers are called for the requests of
\* the client in order, at most once for each, and with its own method if all
\* the requests before it had a length that can be read.
Measured(i) == \A j \in 1 .. i : dialog[j].length # "unreadable"

InStep ==
  /\ \A i, j \in DOMAIN calls : i < j => calls[i].req.of < calls[j].req.of
  /\ \A c \in Range(calls) :
       Measured(c.req.of - 1) => c.req.method = dialog[c.req.of].method

\* A handler sees the path and the form fields that the client meant, however it
\* wrote them, the last value of a field that occurs twice, and no path with "..".
Meant(fields) ==
  [k \in {f[1] : f \in Range(fields)} |-> SelectLastInSeq(fields, LAMBDA f : f[1] = k)]

AsMeant ==
  \A c \in Range(calls) :
    LET d == dialog[c.req.of]
        last == Meant(d.fields)
    IN  /\ c.req.path = d.path
        /\ c.req.query = [k \in DOMAIN last |-> d.fields[last[k]][2]]
        /\ \A name \in Range(d.path) : ~ HasDots(name)

\* The handler is that of the first route with the method and the path, in the
\* order of registration; for a request without a handler, 405 and 404 tell
\* whether only the method is wrong.
Suits(r, m, p) == r.method \in {"*", m} /\ Matches(r.pattern, p)

RightHandler ==
  /\ \A c \in Range(calls) : c.route =
       SelectInSeq(RouteTable, LAMBDA r : Suits(r, c.req.method, dialog[c.req.of].path))
  /\ \A a \in Range(answers) :
       a.code \in {404, 405} /\ (\A c \in Range(calls) : c.req.of # a.to) =>
         (a.code = 405 <=> \E r \in Range(RouteTable) : Matches(r.pattern, dialog[a.to].path))

\* The requests of which parse() has read something: those in front of the unit
\* that is read next, and its own if that is not its first one.
Ahead == IF stream = <<>> THEN at ELSE Head(stream)
HasRead(i) == i < Ahead.of \/ (i = Ahead.of /\ Ahead.nth > 1)

\* All requests in front of the i-th keep the connection.
StayedBefore(i) == \A j \in 1 .. i - 1 : MeansToStay(dialog[j])

\* Nothing is read, handled or answered behind a request that ends the connection,
\* whatever became of it: whether it was handled, had no route, or was stopped by a
\* middleware with an answer or without one.  Behind a 400 nothing comes at all.
NothingAfterEnd ==
  /\ pc = "parse" => \A i \in DOMAIN dialog : HasRead(i) => MeansToStay(dialog[i])
  /\ \A c \in Range(calls) : StayedBefore(c.req.of)
  /\ \A a \in Range(answers) : a.code # 400 => StayedBefore(a.to)
  /\ \A i \in DOMAIN answers : answers[i].code = 400 => i = Len(answers) /\ pc = "done"

\* A client that hung up is let go: the handler's coroutine comes to its end.
Ends == ended ~> pc = "done"

-----------------------------------------------------------------------------
(* What the comments of the parser say and the code does not keep.         *)

\* A handler sees only requests that arrived complete.
OnlyWhole == \A c \in Range(calls) : c.req.whole

\* Every request that a handler sees is one the client sent.
OnlySent == \A c \in Range(calls) : c.req.method = dialog[c.req.of].method
=============================================================================
