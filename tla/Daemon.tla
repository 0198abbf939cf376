------------------------------- MODULE Daemon -------------------------------
(***************************************************************************)
(* The daemon of hw9 that tells the size of a file over a UNIX socket:     *)
(* several instances of the program started side by side, the lock file    *)
(* that should keep them apart, the forks of daemonize, stop signals, and  *)
(* clients.  Each system call that another process can see is a step.      *)
(***************************************************************************)
EXTENDS Naturals, Sequences, FiniteSets

CONSTANTS
  Instance,    \* the times the program is started
  Daemonized,  \* of these, with -d
  Client,
  Commands,    \* what a client's first read may bring: see IsCommand
  Sizes,       \* sizes of the target file
  MaxChanges,  \* bound on the changes of its size
  MaxSignals,  \* bound on the stop signals an instance gets
  None, Old,   \* no process; one from before, whose lock file is there
  MaxFailures, \* bound on the different calls that fail
  Faults       \* system calls that may fail: "lock", "fork", "config", "accept", "open", "send"

ASSUME DaemonAssumption ==
  /\ Daemonized \subseteq Instance
  /\ IsFiniteSet(Instance) /\ IsFiniteSet(Client)
  /\ {None, Old} \cap Instance = {} /\ None # Old
  /\ None \notin Client \cup {"line", "zero", "other"}
  /\ Commands \subseteq {"line", "zero", "other"}
  /\ Sizes \subseteq Nat /\ Sizes # {}
  /\ MaxChanges \in Nat /\ MaxSignals \in Nat /\ MaxFailures \in Nat
  /\ Faults \subseteq {"lock", "fork", "config", "accept", "open", "send"}

VARIABLES
  pc,          \* where each instance is in main
  forked,      \* has it left its parent behind?
  lock,        \* the record lock: Old's, or the first process's of an instance
  pidfile,     \* the process the lock file names
  name,        \* the instance the socket's path leads to
  backlog,     \* the clients waiting at each instance's socket
  cur,         \* the client each instance is serving
  run_flag,
  size,        \* file_size's result
  fsize,       \* the size of the file
  changes,     \* its changes so far
  signals,     \* stop signals each instance got
  link,        \* each client's connection: "none", "up", "left", "down"
  said,        \* what it has sent, or None
  got,         \* what it was told, a set of at most one size
  seen,        \* the sizes of the file since it said something
  missed,      \* did a signal come between a test of g_run_flag and its blocking call?
  failed       \* the calls that have failed

process == <<pc, forked, run_flag, size, cur>>
startup == <<lock, pidfile, name>>
clients == <<backlog, link, said, got>>
world == <<fsize, changes, signals, seen, missed>>
vars == <<process, startup, clients, world, failed>>

Starting == {"start", "won", "write", "lost", "options", "config", "unlink", "bind", "arm"}
Serving == {"test", "calling", "accept", "accepted", "reading", "read", "size", "send", "close"}
PC == Starting \cup Serving \cup {"leave", "exited"}

TypeOK ==
  /\ pc \in [Instance -> PC]
  /\ forked \in [Instance -> BOOLEAN]
  /\ lock \in Instance \cup {None, Old}
  /\ pidfile \in Instance \cup {None, Old}
  /\ name \in Instance \cup {None}
  /\ backlog \in [Instance -> Seq(Client)]
  /\ cur \in [Instance -> Client \cup {None}]
  /\ run_flag \in [Instance -> BOOLEAN]
  /\ size \in [Instance -> Sizes \cup {0}]
  /\ fsize \in Sizes
  /\ changes \in 0..MaxChanges
  /\ signals \in [Instance -> 0..MaxSignals]
  /\ link \in [Client -> {"none", "up", "left", "down"}]
  /\ said \in [Client -> Commands \cup {None}]
  /\ got \in [Client -> SUBSET Sizes]
  /\ seen \in [Client -> SUBSET Sizes]
  /\ missed \in [Instance -> BOOLEAN]
  /\ failed \in SUBSET Faults

Init ==
  /\ pc = [i \in Instance |-> "start"]
  /\ forked = [i \in Instance |-> FALSE]
  /\ lock \in {None, Old}
  /\ pidfile \in IF lock = Old THEN {Old} ELSE {None, Old}
  /\ name = None
  /\ backlog = [i \in Instance |-> << >>]
  /\ cur = [i \in Instance |-> None]
  /\ run_flag = [i \in Instance |-> TRUE]
  /\ size = [i \in Instance |-> 0]
  /\ fsize \in Sizes
  /\ changes = 0
  /\ signals = [i \in Instance |-> 0]
  /\ link = [c \in Client |-> "none"]
  /\ said = [c \in Client |-> None]
  /\ got = [c \in Client |-> {}]
  /\ seen = [c \in Client |-> {}]
  /\ missed = [i \in Instance |-> FALSE]
  /\ failed = {}

Goto(i, l) == pc' = [pc EXCEPT ![i] = l]
Step(i, from, to) == pc[i] = from /\ Goto(i, to)

\* A call fails: another one, or as it did before.
Fail(call) ==
  /\ call \in Faults
  /\ failed' = failed \cup {call}
  /\ Cardinality(failed') <= MaxFailures

-----------------------------------------------------------------------------
(* single_process.                                                         *)

\* fcntl(fd, F_SETLK, &fl)
Lock(i) ==
  /\ pc[i] = "start"
  /\ IF lock = None THEN lock' = i /\ Goto(i, "won") ELSE UNCHANGED lock /\ Goto(i, "lost")
  /\ UNCHANGED <<forked, run_flag, size, cur, pidfile, name, clients, world, failed>>

\* The lock file cannot be opened or locked: main says so and goes on.
LockFails(i) ==
  /\ Fail("lock")
  /\ Step(i, "start", "options") \/ Step(i, "lost", "options")
  /\ UNCHANGED <<forked, run_flag, size, cur, startup, clients, world>>

Truncate(i) ==
  /\ Step(i, "won", "write")
  /\ pidfile' = None
  /\ UNCHANGED <<forked, run_flag, size, cur, lock, name, clients, world, failed>>

WritePid(i) ==
  /\ Step(i, "write", "options")
  /\ pidfile' = i
  /\ UNCHANGED <<forked, run_flag, size, cur, lock, name, clients, world, failed>>

\* Another process has the lock.  Without a number in its file the result is
\* -1, and main goes on.
ReadPid(i) ==
  /\ Step(i, "lost", IF pidfile = None THEN "options" ELSE "leave")
  /\ UNCHANGED <<forked, run_flag, size, cur, startup, clients, world, failed>>

-----------------------------------------------------------------------------
(* From the options to the loop.                                           *)

\* The child goes on, and the parent exits some time later; when the fork
\* fails the program goes on as it is.
Daemonize(i) ==
  /\ pc[i] = "options" /\ Goto(i, "config")
  /\ \/ i \in Daemonized /\ forked' = [forked EXCEPT ![i] = TRUE] /\ UNCHANGED failed
     \/ i \in Daemonized /\ Fail("fork") /\ UNCHANGED forked
     \/ i \notin Daemonized /\ UNCHANGED <<forked, failed>>
  /\ UNCHANGED <<run_flag, size, cur, startup, clients, world>>

\* Record locks go with the process that took them.
ParentExits(i) ==
  /\ forked[i] /\ lock = i
  /\ lock' = None
  /\ UNCHANGED <<process, pidfile, name, clients, world, failed>>

\* The configuration file and the socket; failing with either ends main.
Config(i) ==
  /\ \/ Step(i, "config", "unlink") /\ UNCHANGED failed
     \/ Step(i, "config", "leave") /\ Fail("config")
  /\ UNCHANGED <<forked, run_flag, size, cur, startup, clients, world>>

Unlink(i) ==
  /\ Step(i, "unlink", "bind")
  /\ name' = None
  /\ UNCHANGED <<forked, run_flag, size, cur, lock, pidfile, clients, world, failed>>

\* bind and listen; the path must not be there.
Bind(i) ==
  /\ pc[i] = "bind"
  /\ IF name = None THEN name' = i /\ Goto(i, "arm") ELSE UNCHANGED name /\ Goto(i, "leave")
  /\ UNCHANGED <<forked, run_flag, size, cur, lock, pidfile, clients, world, failed>>

\* g_run_flag = true, and the handlers are installed.
Arm(i) ==
  /\ Step(i, "arm", "test")
  /\ run_flag' = [run_flag EXCEPT ![i] = TRUE]
  /\ UNCHANGED <<forked, size, cur, startup, clients, world, failed>>

-----------------------------------------------------------------------------
(* The loop.                                                               *)

Test(i) ==
  /\ Step(i, "test", IF run_flag[i] THEN "calling" ELSE "leave")
  /\ UNCHANGED <<forked, run_flag, size, cur, startup, clients, world, failed>>

Call(i) ==
  /\ Step(i, "calling", "accept")
  /\ UNCHANGED <<forked, run_flag, size, cur, startup, clients, world, failed>>

Accept(i) ==
  /\ backlog[i] # << >>
  /\ Step(i, "accept", "accepted")
  /\ cur' = [cur EXCEPT ![i] = Head(backlog[i])]
  /\ backlog' = [backlog EXCEPT ![i] = Tail(@)]
  /\ UNCHANGED <<forked, run_flag, size, startup, link, said, got, world, failed>>

AcceptFails(i) ==
  /\ Fail("accept")
  /\ Step(i, "accept", "leave")
  /\ UNCHANGED <<forked, run_flag, size, cur, startup, clients, world>>

\* The second test of g_run_flag.
Accepted(i) ==
  /\ Step(i, "accepted", IF run_flag[i] THEN "reading" ELSE "leave")
  /\ UNCHANGED <<forked, run_flag, size, cur, startup, clients, world, failed>>

CallRead(i) ==
  /\ Step(i, "reading", "read")
  /\ UNCHANGED <<forked, run_flag, size, cur, startup, clients, world, failed>>

\* Mutant: the line's end is left where it is.
IsCommandAsRead(s) == s = "zero"

\* The command is "size" and one character, a line's end or a zero: main puts
\* a zero over the line's end.  What comes in two pieces is another command.
IsCommand(s) == s \in {"line", "zero"}

\* The client has sent something, or left without.
Read(i) ==
  /\ pc[i] = "read"
  /\ said[cur[i]] # None \/ link[cur[i]] = "left"
  /\ Goto(i, IF IsCommand(said[cur[i]]) THEN "size" ELSE "close")
  /\ UNCHANGED <<forked, run_flag, size, cur, startup, clients, world, failed>>

\* Mutant of FileSize: the size is looked up once.
FileSizeOnce(i) ==
  /\ pc[i] = "size"
  /\ size' = [size EXCEPT ![i] = IF @ = 0 THEN fsize ELSE @]
  /\ UNCHANGED failed
  /\ Goto(i, IF size'[i] > 0 THEN "send" ELSE "close")
  /\ UNCHANGED <<forked, run_flag, cur, startup, clients, world>>

\* Mutant of FileSize: one more than the size.
FileSizeAndOne(i) ==
  /\ pc[i] = "size"
  /\ size' = [size EXCEPT ![i] = fsize + 1]
  /\ Goto(i, "send")
  /\ UNCHANGED <<forked, run_flag, cur, startup, clients, world, failed>>

\* file_size, and the test of its result.
FileSize(i) ==
  /\ pc[i] = "size"
  /\ \/ size' = [size EXCEPT ![i] = fsize] /\ UNCHANGED failed
     \/ size' = [size EXCEPT ![i] = 0] /\ Fail("open")
  /\ Goto(i, IF size'[i] > 0 THEN "send" ELSE "close")
  /\ UNCHANGED <<forked, run_flag, cur, startup, clients, world>>

\* The text is short and goes in one send, whose flags are 0.
Send(i) ==
  /\ Step(i, "send", "close")
  /\ link[cur[i]] = "up"
  /\ got' = [got EXCEPT ![cur[i]] = @ \cup {size[i]}]
  /\ UNCHANGED <<forked, run_flag, size, cur, startup, backlog, link, said, world, failed>>

\* A failure is logged and its -1 makes bytes_sent the largest size_t, which
\* ends the loop.
SendFails(i) ==
  /\ Fail("send")
  /\ Step(i, "send", "close")
  /\ UNCHANGED <<forked, run_flag, size, cur, startup, clients, world>>

\* The client has left: SIGPIPE, which nobody handles, ends the process.
SendToNobody(i) ==
  /\ Step(i, "send", "leave")
  /\ link[cur[i]] = "left"
  /\ UNCHANGED <<forked, run_flag, size, cur, startup, clients, world, failed>>

Down(c) == IF c \in Client /\ link[c] = "up" THEN "down" ELSE link[c]

\* Mutant of Close: the socket is left open.
CloseNothing(i) ==
  /\ Step(i, "close", "test")
  /\ cur' = [cur EXCEPT ![i] = None]
  /\ UNCHANGED <<forked, run_flag, size, startup, clients, world, failed>>

\* close(ssock)
Close(i) ==
  /\ Step(i, "close", "test")
  /\ link' = [link EXCEPT ![cur[i]] = Down(cur[i])]
  /\ cur' = [cur EXCEPT ![i] = None]
  /\ UNCHANGED <<forked, run_flag, size, startup, backlog, said, got, world, failed>>

\* The process ends: its lock is gone, and its connections; its path stays.
Leave(i) ==
  /\ Step(i, "leave", "exited")
  /\ lock' = IF lock = i THEN None ELSE lock
  /\ link' = [c \in Client |-> IF c = cur[i] \/ \E n \in DOMAIN backlog[i] : backlog[i][n] = c
                               THEN Down(c) ELSE link[c]]
  /\ backlog' = [backlog EXCEPT ![i] = << >>]
  /\ cur' = [cur EXCEPT ![i] = None]
  /\ UNCHANGED <<forked, run_flag, size, pidfile, name, said, got, world, failed>>

-----------------------------------------------------------------------------
(* Signals, clients and the file.                                          *)

\* Mutant of Interrupted: accept and read are called again.
InterruptedRetries(i) == pc[i]

\* Where a signal leaves a thread that is blocked in a call.
Interrupted(i) ==
  CASE pc[i] = "accept" -> "leave"
    [] pc[i] = "read" -> "close"
    [] OTHER -> pc[i]

\* SIGINT or SIGTERM.  Until the handlers are there it kills the process; a
\* call that can return returns all the same.
Stop(i) ==
  /\ pc[i] \notin {"leave", "exited"} /\ signals[i] < MaxSignals
  /\ signals' = [signals EXCEPT ![i] = @ + 1]
  /\ IF pc[i] \in Starting
     THEN Goto(i, "leave") /\ UNCHANGED <<run_flag, missed>>
     ELSE /\ run_flag' = [run_flag EXCEPT ![i] = FALSE]
          /\ Goto(i, Interrupted(i))
          /\ missed' = [missed EXCEPT ![i] = @ \/ (pc[i] \in {"calling", "reading"} /\ run_flag[i])]
  /\ UNCHANGED <<forked, size, cur, startup, clients, fsize, changes, seen, failed>>

Connect(c) ==
  /\ link[c] = "none"
  /\ name # None /\ pc[name] \in Serving \cup {"arm"}
  /\ link' = [link EXCEPT ![c] = "up"]
  /\ backlog' = [backlog EXCEPT ![name] = Append(@, c)]
  /\ UNCHANGED <<process, startup, said, got, world, failed>>

Say(c) ==
  /\ link[c] = "up" /\ said[c] = None
  /\ \E cmd \in Commands : said' = [said EXCEPT ![c] = cmd]
  /\ seen' = [seen EXCEPT ![c] = {fsize}]
  /\ UNCHANGED <<process, startup, backlog, link, got, fsize, changes, signals, missed, failed>>

HangUp(c) ==
  /\ link[c] = "up"
  /\ link' = [link EXCEPT ![c] = "left"]
  /\ UNCHANGED <<process, startup, backlog, said, got, world, failed>>

Resize ==
  /\ changes < MaxChanges
  /\ changes' = changes + 1
  /\ fsize' \in Sizes \ {fsize}
  /\ seen' = [c \in Client |-> IF said[c] = None THEN {} ELSE seen[c] \cup {fsize'}]
  /\ UNCHANGED <<process, startup, clients, signals, missed, failed>>

-----------------------------------------------------------------------------
Startup(i) ==
  \/ Lock(i) \/ LockFails(i) \/ Truncate(i) \/ WritePid(i) \/ ReadPid(i)
  \/ Daemonize(i) \/ Config(i) \/ Unlink(i) \/ Bind(i) \/ Arm(i)
Serve(i) ==
  \/ Test(i) \/ Call(i) \/ Accept(i) \/ AcceptFails(i) \/ Accepted(i) \/ CallRead(i)
  \/ Read(i) \/ FileSize(i) \/ Send(i) \/ SendFails(i) \/ SendToNobody(i) \/ Close(i)
Main(i) == Startup(i) \/ Serve(i) \/ Leave(i)

Next ==
  \/ \E i \in Instance : Main(i) \/ ParentExits(i) \/ Stop(i)
  \/ \E c \in Client : Connect(c) \/ Say(c) \/ HangUp(c)
  \/ Resize

Spec == Init /\ [][Next]_vars

\* Every process is scheduled.  Nothing is assumed of the clients.
FairSpec ==
  /\ Spec
  /\ \A i \in Instance : WF_vars(Main(i)) /\ WF_vars(ParentExits(i))

-----------------------------------------------------------------------------
(* Properties.                                                             *)

\* A client is told one size at most, and one that the file has had since the
\* client asked: what is served is the current size.
Fresh == \A c \in Client : Cardinality(got[c]) <= 1 /\ got[c] \subseteq seen[c]

\* A client that has asked for the size and stayed until it was disconnected
\* has its answer, unless the file was empty or could not be read, a signal
\* stopped an instance, or another client hung up and took the daemon along.
Told ==
  \A c \in Client :
    link[c] = "down" /\ said[c] = "line" /\ got[c] = {} =>
      \/ 0 \in seen[c]
      \/ failed \cap {"accept", "open", "send"} # {}
      \/ \E i \in Instance : signals[i] > 0
      \/ \E d \in Client : link[d] = "left"

\* A client is told the current size, once, or for a good reason nothing
\* (main.c:48-83, :200-220).
TellsSize == TypeOK /\ Fresh /\ Told

\* An instance is blocked: nobody connects, or its client says nothing and stays.
InAccept(i) == pc[i] = "accept" /\ backlog[i] = << >>
InRead(i) == pc[i] = "read" /\ said[cur[i]] = None /\ link[cur[i]] = "up"

\* The readme: the daemon disconnects a client at once.  Whatever the client
\* says, and whatever happens to the daemon, its connection is taken down; the
\* one thing that can keep it is a client, itself or one before it, that never
\* says anything (main.c:200-220).
Disconnects ==
  \A c \in Client : link[c] = "up" ~> link[c] # "up" \/ \E i \in Instance : []InRead(i)

\* A stop signal ends the instance, though nobody speaks or connects.  One that
\* came between a test of g_run_flag and the accept or read after it is lost to
\* that call: the instance ends when the call returns, which it may never do
\* (main.c:85-91, :186-207).
Stops ==
  \A i \in Instance :
    /\ ~run_flag[i] /\ ~missed[i] ~> pc[i] = "exited"
    /\ ~run_flag[i] ~> pc[i] = "exited" \/ [](InAccept(i) \/ InRead(i))

\* single_process returns 0 to "единственный процесс" (single_process.h): when
\* no call has failed there is one instance that serves.
OnlyOne == failed = {} => Cardinality({i \in Instance : pc[i] \in Serving}) <= 1
=============================================================================
