----------------------------- MODULE HttpService -----------------------------
(***************************************************************************)
(* What the file server promises a client, without sockets, events or      *)
(* buffers: a connection carries one request, the bytes the server puts on *)
(* the stream are a growing prefix of one answer to it, and the server     *)
(* closes the connection only when the answer is complete, when the client *)
(* has gone, or when it is being stopped.  FileServer implements it.       *)
(***************************************************************************)
EXTENDS Naturals, Sequences

CONSTANTS
  Conn,            \* the connections
  Request,         \* the requests clients may make
  Unit,            \* the units of a stream
  Response(_),     \* the full answer with a status code
  Allowed(_)       \* the status codes a request may get

VARIABLES
  request,   \* the request each client makes
  phase,     \* "idle", "open" or "closed"
  stream,    \* what the server has put on the connection's stream
  gone,      \* has the client closed its side?
  stopping   \* has the server been told to stop?

svars == <<request, phase, stream, gone, stopping>>

\* s is a prefix of some answer to r.
Prefix(s, t) == Len(s) <= Len(t) /\ s = SubSeq(t, 1, Len(s))
PartOfAnswer(s, r) == \E code \in Allowed(r) : Prefix(s, Response(code))
Complete(s, r) == \E code \in Allowed(r) : s = Response(code)

Init ==
  /\ request \in [Conn -> Request]
  /\ phase = [c \in Conn |-> "idle"]
  /\ stream = [c \in Conn |-> << >>]
  /\ gone = [c \in Conn |-> FALSE]
  /\ stopping = FALSE

Open(c) ==
  /\ phase[c] = "idle"
  /\ phase' = [phase EXCEPT ![c] = "open"]
  /\ UNCHANGED <<request, stream, gone, stopping>>

\* The stream grows along the same answer.
Serve(c) ==
  /\ phase[c] = "open"
  /\ \E code \in Allowed(request[c]) : \E n \in Len(stream[c])+1..Len(Response(code)) :
       /\ Prefix(stream[c], Response(code))
       /\ stream' = [stream EXCEPT ![c] = SubSeq(Response(code), 1, n)]
  /\ UNCHANGED <<request, phase, gone, stopping>>

Leave(c) ==
  /\ phase[c] = "open"
  /\ gone' = [gone EXCEPT ![c] = TRUE]
  /\ UNCHANGED <<request, phase, stream, stopping>>

Close(c) ==
  /\ phase[c] = "open"
  /\ Complete(stream[c], request[c]) \/ gone[c] \/ stopping
  /\ phase' = [phase EXCEPT ![c] = "closed"]
  /\ UNCHANGED <<request, stream, gone, stopping>>

Halt == stopping' = TRUE /\ UNCHANGED <<request, phase, stream, gone>>

Next == (\E c \in Conn : Open(c) \/ Serve(c) \/ Leave(c) \/ Close(c)) \/ Halt

Spec == Init /\ [][Next]_svars
=============================================================================
