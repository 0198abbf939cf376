------------------------------- MODULE Weather -------------------------------
(***************************************************************************)
(* The weather report (hw4/src): main asks wttr.in by libcurl, collects    *)
(* the answer in a buffer and leaves by a chain of labels, each of which   *)
(* frees what has been had before; parser.c looks five strings up in the   *)
(* answer.  The answer is the set of its nodes, each at its path.          *)
(***************************************************************************)
EXTENDS Integers, Sequences

CONSTANTS Answers,     \* [type, size, nodes]: nodes is a set of [path, tag], or {} if no JSON
          InitSize,    \* gc_initial_buffer_size
          MaxSize      \* gc_max_buffer_size

VARIABLES asked,     \* the answer there will be
          at,        \* where main is
          option,    \* the next option of curl
          has,       \* what is allocated: url, global, curl, list, node
          buffer,    \* [data : "garbage", "null" or "held", size, room]
          outcome,   \* [result, report]
          failing    \* ghost: what has failed

weatherVars == <<asked, at, option, has, buffer, outcome, failing>>

\* Set before the buffer is initialised, and after.
EarlyOptions == 5
Options == EarlyOptions + 1

\* main goes to a label, with an error or without; something may have failed.
Goto(label, result, what) ==
    /\ at' = label
    /\ outcome' = [outcome EXCEPT !.result = result]
    /\ failing' = failing \cup what

Get(thing, then) == has' = has \cup {thing} /\ at' = then /\ UNCHANGED <<outcome, failing>>

-----------------------------------------------------------------------------
(* main. *)

\* The city may be too long, memory may be short.
MakeUrl ==
    /\ at = "url"
    /\ \/ Get("url", "global")
       \/ Goto("exited", -1, {"url"}) /\ UNCHANGED has
    /\ UNCHANGED <<asked, option, buffer>>

GlobalInit ==
    /\ at = "global"
    /\ \/ Get("global", "curl")
       \/ Goto("clean0", 1, {"curl"}) /\ UNCHANGED has
    /\ UNCHANGED <<asked, option, buffer>>

EasyInit ==
    /\ at = "curl"
    /\ \/ Get("curl", "options")
       \/ Goto("clean1", -1, {"curl"}) /\ UNCHANGED has
    /\ UNCHANGED <<asked, option, buffer>>

\* curl_easy_setopt, check_and_go; the buffer is initialised on the way.
SetOption ==
    /\ at = "options"
    /\ \/ /\ option' = option + 1
          /\ at' = IF option < Options THEN "options" ELSE "header"
          /\ UNCHANGED <<outcome, failing>>
       \/ Goto("clean2", 1, {"curl"}) /\ UNCHANGED option
    /\ buffer' = IF option = Options THEN [data |-> "null", size |-> 0, room |-> 0] ELSE buffer
    /\ UNCHANGED <<asked, has>>

\* Without memory for the header the result is left as it is.
AppendHeader ==
    /\ at = "header"
    /\ \/ Get("list", "sethdr")
       \/ Goto("clean2", 0, {"memory"}) /\ UNCHANGED has
    /\ UNCHANGED <<asked, option, buffer>>

SetHeader ==
    /\ at = "sethdr"
    /\ \/ at' = "perform" /\ UNCHANGED <<outcome, failing>>
       \/ Goto("clean3", 1, {"curl"})
    /\ UNCHANGED <<asked, option, has, buffer>>

Larger(sz) == (sz * 3) \div 2

\* The size buffer_resize comes to.
Grown(from, req) ==
    LET grown[sz \in Nat] == IF sz < req /\ sz < MaxSize THEN grown[Larger(sz)] ELSE sz
    IN grown[from]

\* buffer_resize: the sizes there may be after it.
Resized(req) ==
    LET sz == Grown(IF buffer.data = "null" \/ buffer.room = 0 THEN InitSize ELSE buffer.room, req) IN
    IF buffer.room > req THEN {buffer.room}
    ELSE IF sz > MaxSize THEN {}
    ELSE {sz} \cup (IF buffer.data = "held" THEN {req} ELSE {})

Hold(room, size) == buffer' = [data |-> "held", room |-> room, size |-> size]

\* write_cb.
WriteChunk ==
    /\ at = "perform" /\ buffer.size < asked.size
    /\ \E n \in 1..(asked.size - buffer.size) : \E room \in Resized(buffer.size + n) :
        Hold(room, buffer.size + n)
    /\ UNCHANGED <<asked, at, option, has, outcome, failing>>

\* curl_easy_perform; it fails if the network does, or the buffer cannot grow.
Perform ==
    /\ at = "perform"
    /\ \/ buffer.size = asked.size /\ at' = "type" /\ UNCHANGED <<outcome, failing>>
       \/ Goto("clean3", 1, {"curl"})
    /\ UNCHANGED <<asked, option, has, buffer>>

CheckType ==
    /\ at = "type"
    /\ \/ asked.type = "json" /\ at' = "finish" /\ UNCHANGED <<outcome, failing>>
       \/ asked.type # "json" /\ Goto("clean3", 0, {"type"})
       \/ Goto("clean3", 1, {"curl"})
    /\ UNCHANGED <<asked, option, has, buffer>>

\* The NUL after the answer.
Finish ==
    /\ at = "finish"
    /\ \/ /\ \E room \in Resized(buffer.size + 1) : Hold(room, buffer.size + 1)
          /\ at' = "parse" /\ UNCHANGED <<outcome, failing>>
       \/ Goto("clean3", 0, {"memory"}) /\ UNCHANGED buffer
    /\ UNCHANGED <<asked, option, has>>

-----------------------------------------------------------------------------
(* parser.c *)

Area == <<"nearest_area", "0", "areaName", "0", "value">>
Descr == <<"current_condition", "0", "lang_ru", "0", "value">>
WindDegree == <<"current_condition", "0", "winddirDegree">>
WindSpeed == <<"current_condition", "0", "windspeedKmph">>
Temperature == <<"current_condition", "0", "temp_C">>

Wanted == <<Area, Descr, WindDegree, WindSpeed, Temperature>>

\* Each member or element on the way, and a string at the end.
Found(path) ==
    /\ \A k \in 1..Len(path) : \E n \in asked.nodes : n.path = SubSeq(path, 1, k)
    /\ [path |-> path, tag |-> "string"] \in asked.nodes

\* parse_wrrt: json_decode, then one string after the other.
Decode ==
    /\ at = "parse"
    /\ IF asked.nodes = {} THEN Goto("clean3", 0, {"answer"}) /\ UNCHANGED has
       ELSE Get("node", "look")
    /\ UNCHANGED <<asked, option, buffer>>

LookUp ==
    LET k == Len(outcome.report) + 1 IN
    /\ at = "look" /\ k <= Len(Wanted)
    /\ IF Found(Wanted[k])
       THEN outcome' = [outcome EXCEPT !.report = Append(@, Wanted[k])] /\ UNCHANGED <<at, has, failing>>
       ELSE /\ at' = "clean3" /\ failing' = failing \cup {"answer"}
            /\ outcome' = [outcome EXCEPT !.report = <<>>]
            /\ has' = has \ {"node"}
    /\ UNCHANGED <<asked, option, buffer>>

PrintReport ==
    /\ at = "look" /\ Len(outcome.report) = Len(Wanted)
    /\ at' = "clean3"
    /\ has' = has \ {"node"}
    /\ UNCHANGED <<asked, option, buffer, outcome, failing>>

-----------------------------------------------------------------------------
(* The labels. *)

FreesAt == [clean3 |-> "list", clean2 |-> "curl", clean1 |-> "global"]
AfterSkipping == [clean3 |-> "clean1", clean2 |-> "clean1", clean1 |-> "clean0"]    \* mutant
After == [clean3 |-> "clean2", clean2 |-> "clean1", clean1 |-> "clean0"]

Clean ==
    /\ at \in DOMAIN After
    /\ has' = has \ {FreesAt[at]}
    /\ at' = After[at]
    /\ UNCHANGED <<asked, option, buffer, outcome, failing>>

\* free of what is not null: what was never initialised may be anything.
Clean0 ==
    /\ at = "clean0"
    /\ \/ /\ at' = "exited" /\ has' = has \ {"url"}
          /\ buffer' = [buffer EXCEPT !.data = IF @ = "held" THEN "null" ELSE @]
       \/ buffer.data = "garbage" /\ at' = "crashed" /\ UNCHANGED <<has, buffer>>
    /\ UNCHANGED <<asked, option, outcome, failing>>

Init ==
    /\ asked \in Answers
    /\ at = "url"
    /\ option = 1
    /\ has = {}
    /\ buffer = [data |-> "garbage", size |-> 0, room |-> 0]
    /\ outcome = [result |-> 0, report |-> <<>>]
    /\ failing = {}

Next == \/ MakeUrl \/ GlobalInit \/ EasyInit \/ SetOption \/ AppendHeader \/ SetHeader
        \/ WriteChunk \/ Perform \/ CheckType \/ Finish
        \/ Decode \/ LookUp \/ PrintReport \/ Clean \/ Clean0

Spec == Init /\ [][Next]_weatherVars

-----------------------------------------------------------------------------
(* Whatever fails, what was had is freed when main returns, nothing is freed *)
(* by a label that was not had, and the program can only crash when it leaves*)
(* before the buffer is initialised (main.c:159-193, :240-250).              *)
AllFreed ==
    /\ at = "exited" => has = {} /\ buffer.data # "held"
    /\ at \in DOMAIN FreesAt => FreesAt[at] \in has
    /\ at = "crashed" => option < Options

(* The report is printed when the answer has all five strings, and a result  *)
(* of 0 without a report means the wrong type, a wrong answer or no memory,  *)
(* never an error of the network (main.c:203-237, parser.c:155-195).         *)
ReportOrReason ==
    at = "exited" =>
        /\ outcome.report # <<>> <=> failing = {}
        /\ outcome.report # <<>> => \A k \in DOMAIN Wanted : [path |-> Wanted[k], tag |-> "string"] \in asked.nodes
        /\ "curl" \in failing => outcome.result # 0
        /\ outcome.result # 0 => failing \subseteq {"curl", "url"}

(* The answer and its NUL lie inside the buffer (main.c:52-95, :132-145).    *)
InBuffer == buffer.data = "held" => buffer.size <= buffer.room
=============================================================================
