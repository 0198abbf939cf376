---------------------------- MODULE MCFileServer ----------------------------
(* FileServer on small instances.                                          *)
EXTENDS FileServer, TLC

CONSTANTS c1, c2

MCConnOne == {c1}
MCConnTwo == {c1, c2}
Clients == Permutations({c1, c2})

Get(target) == [words |-> 3, version |-> "HTTP/1.1", method |-> "GET", target |-> target]

\* One request for each row of parse_http_head and open_regular_file, but for the
\* file that stat finds and open refuses.
EveryRequest ==
  {Get(t) : t \in Target \ {"unreadable"}} \cup
  {[Get("regular") EXCEPT !.words = 2], [Get("regular") EXCEPT !.version = "other"],
   [Get("regular") EXCEPT !.method = "other"]}

Found == {Get("regular")}
Forbidden == {Get(t) : t \in NoRights}
=============================================================================
