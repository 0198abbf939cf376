------------------------------ MODULE FileServer ------------------------------
(***************************************************************************)
(* The event loop of the file server (hw13/fileserver/main.c): one thread, *)
(* an edge-triggered epoll set, a listening socket and one socket per      *)
(* client, and the signal handler that clears run_flag.  The thread is     *)
(* interleaved with the clients, the kernel and the signal at every step   *)
(* of the loop body; each handler of module Connection is one step.        *)
(***************************************************************************)
EXTENDS Connection, FiniteSets

CONSTANTS
  Conn,         \* the connections clients may open, each at most once
  Listener,     \* the listening socket
  MaxEvents,    \* MAX_EPOLL_EVENTS
  MaxSignals,   \* bound on the stop signals delivered
  AcceptFails,  \* may accept, make_nonblock or epoll_ctl fail?
  FreedReads,   \* states that fs_get_conn_state may read from freed memory
  Aborts,       \* what terminating a freed connection may do: "abort", "return"
  Quits         \* what a client may do to its end: "fin", "rst"

ASSUME ServerAssumption ==
  /\ IsFiniteSet(Conn)
  /\ Listener \notin Conn
  /\ MaxEvents \in Nat \ {0}
  /\ MaxSignals \in Nat
  /\ AcceptFails \in BOOLEAN
  /\ FreedReads \subseteq ConnState \cup {"garbage"}
  /\ FreedReads # {}
  /\ Aborts \subseteq {"abort", "return"}
  /\ Quits \subseteq {"fin", "rst"}

VARIABLES
  pc,                 \* where the thread is in main
  run_flag,           \* the flag the signal handler clears
  connections_count,  \* main's count of open connections
  conn_number,        \* add_connections' count of new ones
  life,               \* what became of each connection
  conn,               \* the connections
  ready,              \* epoll's ready list: sockets with an unreported edge
  batch,              \* the events of the last epoll_wait not yet handled
  mask,               \* the event bits of the last epoll_wait
  cur,                \* the connection being handled
  signals             \* stop signals delivered so far

loop == <<run_flag, connections_count, conn_number>>
vars == <<pc, loop, life, conn, ready, batch, mask, cur, signals>>

PC == {"boot", "loop", "wait", "next", "accept", "read", "write", "hup", "end",
       "exited", "aborted"}

\* none: no client yet; queued: in the backlog; live: accepted; freed,
\* freed_twice: terminated once or twice; closed: make_nonblock failed; leaked:
\* fs_new_conn failed; rejected: epoll_ctl failed.
Life == {"none", "queued", "live", "freed", "freed_twice", "closed", "leaked", "rejected"}

Bits == {"IN", "OUT", "RDHUP", "HUP"}

Running == pc \notin {"exited", "aborted"}
In(what) == {c \in Conn : life[c] = what}

TypeOK ==
  /\ pc \in PC
  /\ run_flag \in BOOLEAN
  /\ connections_count \in Int
  /\ conn_number \in Nat
  /\ life \in [Conn -> Life]
  /\ conn \in [Conn -> Connections]
  /\ ready \subseteq Conn \cup {Listener}
  /\ batch \subseteq Conn \cup {Listener}
  /\ mask \in [Conn -> SUBSET Bits]
  /\ cur \in Conn \cup {Listener}
  /\ signals \in Nat

Init ==
  /\ pc = "boot"
  /\ run_flag = FALSE
  /\ connections_count = 0
  /\ conn_number = 0
  /\ life = [c \in Conn |-> "none"]
  /\ \E req \in [Conn -> Requests] : conn = [c \in Conn |-> NewConn(req[c])]
  /\ ready = {}
  /\ batch = {}
  /\ mask = [c \in Conn |-> {}]
  /\ cur = Listener
  /\ signals = 0

-----------------------------------------------------------------------------
(* The clients and the kernel.                                             *)

\* An event on c's socket; it is an edge for epoll once c is registered.
Edge(c) == ready' = IF life[c] = "live" THEN ready \cup {c} ELSE ready

\* c's peer is there.
Reachable(c) == Running /\ life[c] \in {"queued", "live"} /\ conn[c].peer # "rst"

Connect(c) ==
  /\ Running /\ life[c] = "none"
  /\ life' = [life EXCEPT ![c] = "queued"]
  /\ ready' = ready \cup {Listener}
  /\ UNCHANGED <<pc, loop, conn, batch, mask, cur, signals>>

\* The next piece of the request, or one more after it, arrives.
SendPart(c) ==
  /\ Reachable(c) /\ conn[c].peer = "open"
  /\ conn[c].got + conn[c].unread < Parts + Extra
  /\ conn' = [conn EXCEPT ![c].unread = @ + 1]
  /\ Edge(c)
  /\ UNCHANGED <<pc, loop, life, batch, mask, cur, signals>>

\* The client acknowledges a unit; a full buffer that gets room is an edge.
Ack(c) ==
  /\ Reachable(c)
  /\ conn[c].sndq > 0
  /\ conn' = [conn EXCEPT ![c].sndq = @ - 1]
  /\ IF Room(conn[c]) = 0 THEN Edge(c) ELSE UNCHANGED ready
  /\ UNCHANGED <<pc, loop, life, batch, mask, cur, signals>>

\* The client closes its sending side, or resets the connection.
Quit(c) ==
  /\ Reachable(c)
  /\ \E how \in Quits \ {conn[c].peer} : conn' = [conn EXCEPT ![c].peer = how]
  /\ Edge(c)
  /\ UNCHANGED <<pc, loop, life, batch, mask, cur, signals>>

-----------------------------------------------------------------------------
(* The loop.                                                               *)

\* From the installation of the handlers to run_flag = true.
Boot ==
  /\ pc = "boot"
  /\ run_flag' = TRUE
  /\ pc' = "loop"
  /\ UNCHANGED <<connections_count, conn_number, life, conn, ready, batch, mask, cur, signals>>

\* Mutant of LoopTest: while (run_flag).
LeavesAtOnce ==
  /\ pc = "loop"
  /\ pc' = IF run_flag THEN "wait" ELSE "exited"
  /\ UNCHANGED <<loop, life, conn, ready, batch, mask, cur, signals>>

\* while (run_flag || connections_count)
LoopTest ==
  /\ pc = "loop"
  /\ pc' = IF run_flag \/ connections_count # 0 THEN "wait" ELSE "exited"
  /\ UNCHANGED <<loop, life, conn, ready, batch, mask, cur, signals>>

\* The bits epoll would report for c now.
EventBits(c) ==
  {b \in Bits :
     \/ b = "IN"    /\ (conn[c].unread > 0 \/ conn[c].peer # "open")
     \/ b = "OUT"   /\ (Room(conn[c]) > 0 \/ conn[c].peer = "rst")
     \/ b = "RDHUP" /\ conn[c].peer # "open"
     \/ b = "HUP"   /\ conn[c].peer = "rst"}

\* Edges whose condition has gone are dropped from the ready list unreported.
EpollWait ==
  /\ pc = "wait" /\ ready # {}
  /\ \E taken \in SUBSET ready :
       /\ Cardinality(taken) = Lesser(MaxEvents, Cardinality(ready))
       /\ batch' = {f \in taken : IF f = Listener THEN In("queued") # {} ELSE EventBits(f) # {}}
       /\ mask' = [c \in Conn |-> IF c \in taken THEN EventBits(c) ELSE {}]
       /\ ready' = ready \ taken
  /\ pc' = IF batch' = {} THEN "wait" ELSE "next"
  /\ UNCHANGED <<loop, life, conn, cur, signals>>

\* for (i = 0; i < events_count; i++)
NextEvent ==
  /\ pc = "next" /\ batch # {}
  /\ \E f \in batch :
       /\ batch' = batch \ {f}
       /\ cur' = f
       /\ pc' = IF f = Listener THEN "accept" ELSE "read"
  /\ conn_number' = 0
  /\ UNCHANGED <<run_flag, connections_count, life, conn, ready, mask, signals>>

EndOfBatch ==
  /\ pc = "next" /\ batch = {}
  /\ pc' = "loop"
  /\ UNCHANGED <<loop, life, conn, ready, batch, mask, cur, signals>>

\* accept returns c; a registered socket with anything to report is ready.
Accept(c) ==
  /\ pc = "accept" /\ life[c] = "queued"
  /\ life' = [life EXCEPT ![c] = "live"]
  /\ conn_number' = conn_number + 1
  /\ ready' = IF EventBits(c) # {} THEN ready \cup {c} ELSE ready
  /\ UNCHANGED <<pc, run_flag, connections_count, conn, batch, mask, cur, signals>>

\* accept returns c, but make_nonblock, fs_new_conn or epoll_ctl fails; after
\* epoll_ctl the connection is freed and counted all the same.
AcceptInVain(c) ==
  /\ pc = "accept" /\ life[c] = "queued"
  /\ \E end \in (IF AcceptFails THEN {"closed", "rejected"} ELSE {})
                  \cup (IF MallocFails THEN {"leaked"} ELSE {}) :
       /\ life' = [life EXCEPT ![c] = end]
       /\ conn_number' = IF end = "rejected" THEN conn_number + 1 ELSE conn_number
  /\ UNCHANGED <<pc, run_flag, connections_count, conn, ready, batch, mask, cur, signals>>

\* Mutant of AcceptDone: the count is assigned, not added to.
AcceptAssigns ==
  /\ pc = "accept"
  /\ In("queued") = {} \/ AcceptFails
  /\ connections_count' = conn_number
  /\ conn_number' = 0
  /\ pc' = "next"
  /\ UNCHANGED <<run_flag, life, conn, ready, batch, mask, cur, signals>>

\* Mutant of AcceptDone: one accept per event.
AcceptsOnce ==
  /\ pc = "accept"
  /\ In("queued") = {} \/ conn_number > 0
  /\ connections_count' = connections_count + conn_number
  /\ conn_number' = 0
  /\ pc' = "next"
  /\ UNCHANGED <<run_flag, life, conn, ready, batch, mask, cur, signals>>

\* accept fails, for want of clients or of descriptors.
AcceptDone ==
  /\ pc = "accept"
  /\ In("queued") = {} \/ AcceptFails
  /\ connections_count' = connections_count + conn_number
  /\ conn_number' = 0
  /\ pc' = "next"
  /\ UNCHANGED <<run_flag, life, conn, ready, batch, mask, cur, signals>>

Read ==
  /\ pc = "read"
  /\ pc' = "write"
  /\ IF "IN" \in mask[cur]
     THEN \E k \in OnReadyRead(conn[cur]) : conn' = [conn EXCEPT ![cur] = k]
     ELSE conn' = conn
  /\ UNCHANGED <<loop, life, ready, batch, mask, cur, signals>>

\* With nothing received yet and no memory for the NUL, the text that
\* parse_http_head is given is a null pointer.
ReadNull ==
  /\ pc = "read" /\ MallocFails
  /\ "IN" \in mask[cur]
  /\ conn[cur].state = "wait_request" /\ conn[cur].got + conn[cur].unread = 0
  /\ pc' = "aborted"
  /\ UNCHANGED <<loop, life, conn, ready, batch, mask, cur, signals>>

Write ==
  /\ pc = "write"
  /\ pc' = "hup"
  /\ IF "OUT" \in mask[cur]
     THEN \E k \in OnReadyWrite(conn[cur]) : conn' = [conn EXCEPT ![cur] = k]
     ELSE conn' = conn
  /\ UNCHANGED <<loop, life, ready, batch, mask, cur, signals>>

\* Mutant of Terminate: the socket stays in the epoll set.
StaysRegistered ==
  /\ connections_count' = connections_count - 1
  /\ life' = [life EXCEPT ![cur] = IF @ = "live" THEN "freed" ELSE "freed_twice"]
  /\ conn' = [conn EXCEPT ![cur] = CloseConn(@)]
  /\ ready' = ready

\* terminate_connection(cur), and connections_count--.
Terminate ==
  /\ connections_count' = connections_count - 1
  /\ life' = [life EXCEPT ![cur] = IF @ = "live" THEN "freed" ELSE "freed_twice"]
  /\ conn' = [conn EXCEPT ![cur] = CloseConn(@)]
  /\ ready' = ready \ {cur}

\* The peer has hung up.
Hup ==
  /\ pc = "hup"
  /\ pc' = "end"
  /\ IF mask[cur] \cap {"HUP", "RDHUP"} # {}
     THEN Terminate
     ELSE UNCHANGED <<connections_count, life, conn, ready>>
  /\ UNCHANGED <<run_flag, conn_number, batch, mask, cur, signals>>

\* Mutant of StatesRead: the freed memory still holds the state.
StateSurvives == {conn[cur].state}

\* What fs_get_conn_state returns, for a connection Hup may have freed.
StatesRead == IF life[cur] = "live" THEN {conn[cur].state} ELSE FreedReads

\* if (!run_flag || fs_get_conn_state(pconn) == state_end)
Finished == ~run_flag \/ "end" \in StatesRead
Unfinished == run_flag /\ \E s \in StatesRead : s # "end"

End ==
  /\ pc = "end"
  /\ pc' = "next"
  /\ \/ Finished /\ (life[cur] = "live" \/ "return" \in Aborts) /\ Terminate
     \/ Unfinished /\ UNCHANGED <<connections_count, life, conn, ready>>
  /\ UNCHANGED <<run_flag, conn_number, batch, mask, cur, signals>>

\* The allocator stops the program at the second free.
EndAborts ==
  /\ pc = "end"
  /\ Finished /\ life[cur] # "live" /\ "abort" \in Aborts
  /\ pc' = "aborted"
  /\ UNCHANGED <<loop, life, conn, ready, batch, mask, cur, signals>>

\* A stop signal; inside epoll_wait it also interrupts the call, unless the
\* thread had not entered it yet.
Stop ==
  /\ Running /\ signals < MaxSignals
  /\ signals' = signals + 1
  /\ run_flag' = FALSE
  /\ pc' \in IF pc = "wait" THEN {"wait", "loop"} ELSE {pc}
  /\ UNCHANGED <<connections_count, conn_number, life, conn, ready, batch, mask, cur>>

-----------------------------------------------------------------------------
Thread ==
  \/ Boot \/ LoopTest \/ EpollWait \/ NextEvent \/ EndOfBatch
  \/ (\E c \in Conn : Accept(c) \/ AcceptInVain(c)) \/ AcceptDone
  \/ Read \/ ReadNull \/ Write \/ Hup \/ End \/ EndAborts

Client(c) == Connect(c) \/ SendPart(c) \/ Ack(c) \/ Quit(c)

Next == Thread \/ (\E c \in Conn : Client(c)) \/ Stop

Spec == Init /\ [][Next]_vars

\* The thread is always running; the peer's kernel acknowledges what it gets.
Fairness == WF_vars(Thread) /\ \A c \in Conn : WF_vars(Ack(c))
FairSpec == Spec /\ Fairness

-----------------------------------------------------------------------------
(* Properties.                                                             *)

\* Events are never stale: a connection of the current batch, or one whose
\* handlers are running, has not been freed by an earlier event of the batch.
\* Only the test at main.c:184 may look at a freed connection.
NoStaleEvent ==
  /\ batch \cup ready \subseteq In("live") \cup {Listener}
  /\ pc \in {"read", "write", "hup"} => cur \in In("live")
  /\ pc = "end" => cur \in In("live") \cup In("freed")
  /\ pc \in {"read", "write", "hup", "end", "accept"} => cur \notin batch

\* The loop's count is what its exit test takes it for, the connections still
\* open, plus those epoll_ctl rejected, less those terminated twice.
CountBalance ==
  connections_count + conn_number =
    Cardinality(In("live")) + Cardinality(In("rejected")) - Cardinality(In("freed_twice"))

\* Edge-triggered discipline: a connection that is in no ready list and in no
\* batch waits for nothing that has already happened.  All that came was read,
\* and whatever is unsent waits for room in the send buffer.
Idle(c) == life[c] = "live" /\ c \notin ready \cup batch /\ pc # "aborted"
             /\ ~(c = cur /\ pc \in {"read", "write", "hup", "end"})
NoLostEdge ==
  \A c \in Conn : Idle(c) =>
    /\ conn[c].peer = "open"
    /\ conn[c].state = "wait_request" => conn[c].unread = 0
    /\ conn[c].state = "sending_answer" => Room(conn[c]) = 0
    /\ conn[c].state = "sending_file" => Room(conn[c]) = 0 \/ conn[c].foff >= conn[c].flen
    /\ conn[c].state # "end"

\* Likewise for the listening socket: no client is left in the backlog when
\* the thread goes to sleep.
NoLostClient ==
  pc \in {"loop", "wait"} /\ Listener \notin ready => In("queued") = {}

\* What the answer to the request should put on the stream.
Response(code) ==
  [i \in 1..AnsLen |-> <<code, i>>]
    \o (IF code = 200 THEN [i \in 1..FileLen |-> <<0, i>>] ELSE << >>)

\* The server ends a connection on its own only when the whole answer, head
\* and body, has been handed to the kernel.
EndMeansAnswered ==
  \A c \in Conn : conn[c].state = "end" => conn[c].out = Response(conn[c].code)

\* The file being sent is open until the connection is freed, and closed then.
NoDescriptorLeak ==
  \A c \in Conn : conn[c].fileOpen => life[c] = "live"

\* The server exits by itself only when it has closed every connection.
ExitsEmpty == pc = "exited" => In("live") = {}

\* As long as the state of a freed connection does not read as state_end, no
\* connection is terminated twice before a stop signal; the allocator would
\* answer the second free by stopping the program.
TerminatedOnce ==
  signals = 0 /\ "end" \notin FreedReads => In("freed_twice") = {} /\ pc # "aborted"

\* connections_count can be trusted: the loop ends only with nobody served, and
\* nobody is taken off the count a second time (main.c:154, :184-186).
CountTrusted == ExitsEmpty /\ TerminatedOnce

\* A request that parse_http_head takes as far as its file.
WellFormed(req) == req.words = 3 /\ req.version = "HTTP/1.1" /\ req.method = "GET"

\* The process may lack the right to read the file, or to search a directory above it.
NoRights == {"unreadable", "search_denied"}

\* The codes a request may get, whatever order the code looks at it in: 200 for
\* a readable regular file and nothing else, the readme's 404 for a missing one
\* and 403 for one that may not be read (hw13/readme.md:15-17), and some error
\* for the rest.
Allowed(req) ==
  {code \in Codes :
     /\ code = 200 <=> (WellFormed(req) /\ req.target = "regular")
     /\ code = 404 <=> (WellFormed(req) /\ req.target = "missing")
     /\ WellFormed(req) /\ req.target \in NoRights => code = 403}

\* The abstract service: a connection is open to a client from its connect
\* until its descriptor is closed.
Service == INSTANCE HttpService WITH
  request  <- [c \in Conn |-> conn[c].req],
  phase    <- [c \in Conn |-> CASE life[c] = "none" -> "idle"
                                [] life[c] \in {"queued", "live"} -> "open"
                                [] OTHER -> "closed"],
  stream   <- [c \in Conn |-> conn[c].out],
  gone     <- [c \in Conn |-> conn[c].peer # "open"],
  stopping <- signals > 0

\* The loop with its buffers and events gives each client one answer, in
\* order, without gaps or repeats, and never hangs up on it half-way.  It does
\* so for every request but one for a file that open refuses to read: see
\* ForbiddenTold.
ServesHttp == Service!Spec

\* A request that arrived in full is answered in full, unless its peer hangs
\* up or the server is stopped.
Answered ==
  \A c \in Conn :
    (life[c] \in {"queued", "live"} /\ conn[c].got + conn[c].unread >= Parts)
      ~> \/ conn[c].out = Response(ParseHttpHead(conn[c].req))
         \/ conn[c].peer # "open"
         \/ signals > 0

-----------------------------------------------------------------------------
(* Statements of the repository about the program that it does not meet.   *)

\* A request for a file that the process has no right to read is answered 403
\* (hw13/readme.md:15-17), whether the file or a directory above it denies it.
ForbiddenTold ==
  \A c \in Conn :
    WellFormed(conn[c].req) /\ conn[c].req.target \in NoRights /\ conn[c].code # 0
      => conn[c].code = 403

\* catch_http_request tells whether the buffer holds a request
\* (connection.c:32-34): a connection does not go on waiting for a request
\* that its buffer holds in full.
RequestCaught ==
  \A c \in Conn : conn[c].state = "wait_request" => conn[c].got < Parts
=============================================================================
