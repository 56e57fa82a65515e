---------------------------- MODULE MCHttpServer ----------------------------
(* HttpServer on small instances: the routes of main.cpp and three more, and  *)
(* clients with one, two or three requests on a connection.                   *)
EXTENDS HttpServer

CONSTANT id

api == <<"api">>
ping == <<"ping">>
static == <<"static">>

\* A "*" that is not the last segment, and routes that overlap with others.
MCTable ==
  route(route(route(AppRoutes, "POST", <<api, id>>), "*", <<api, ping>>), "PUT", <<api, Star, id>>)

MCPatterns == {r.pattern : r \in Range(MCTable)}

Plain == [method |-> "GET", path |-> <<api, ping>>, fields |-> <<>>, style |-> "form",
          version |-> "HTTP/1.1", conn |-> "", words |-> 3, length |-> "none", body |-> 0]

Requests ==
  { Plain,
    [Plain EXCEPT !.method = "POST", !.length = "exact", !.body = 1, !.style = "plain"],
    [Plain EXCEPT !.method = "POST", !.length = "exact", !.body = 3],
    [Plain EXCEPT !.path = <<static, api>>, !.conn = "close", !.style = "plain"],
    [Plain EXCEPT !.path = <<static>>, !.version = "HTTP/1.0", !.conn = "keep-alive", !.style = "plain"],
    [Plain EXCEPT !.path = <<api, api>>],
    [Plain EXCEPT !.words = 2] }

\* A Content-Length of 3 GB, which stoi() rejects.
Large == {<<[Plain EXCEPT !.method = "POST", !.length = "unreadable", !.body = 2], Plain>>}

\* Targets with all kinds of characters, one to a connection.
Texts(chars) == BoundedSeq(chars, 2)
k == <<"a">>
Values == {[Plain EXCEPT !.fields = <<<<k, v>>>>, !.style = style] :
             v \in Texts({"a", "%", "+", "&", "=", " "}), style \in {"form", "all"}}
          \cup {[Plain EXCEPT !.fields = <<<<k, v>>>>, !.style = "plain"] : v \in Texts({"a", "%"})}
Keys == {[Plain EXCEPT !.fields = <<<<f, <<"a">>>>, <<k, <<>>>>, <<f, <<"+">>>>>>, !.style = style] :
             f \in {<<"&">>, <<"=", "?">>, <<"a">>}, style \in {"form", "all"}}
Files == {<<"?">>, <<".", "a">>, <<".", ".">>, <<"%", "a">>}
Paths1 == {[Plain EXCEPT !.path = <<static, f>>, !.style = style] : f \in Files, style \in {"form", "all"}}

MCDialogs ==
  {<<q, r, Plain>> : q \in Requests, r \in Requests} \cup Large
  \cup {<<q>> : q \in Values \cup Keys \cup Paths1}

MCPaths == {q.path : q \in Requests \cup Paths1}
MCWords == UNION {Range(p) : p \in MCPaths} \cup {<<"ws">>}

\* A POST whose body may be cut off.
OnePost == {<<[Plain EXCEPT !.method = "POST", !.length = "exact", !.body = 2]>>}
=============================================================================
