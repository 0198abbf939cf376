-------------------------------- MODULE SfLog --------------------------------
(***************************************************************************)
(* The logger (hw13/sflog, hw6/sflog) in its two programs: the chorus of   *)
(* hw6/test, whose threads print together, and the file server of hw13,    *)
(* whose signal handlers print whatever the thread they interrupt was      *)
(* doing.  A thread is the sequence of what it still has to do: a call puts*)
(* its own steps in front, a signal those of its handler.                  *)
(***************************************************************************)
EXTENDS Integers, Sequences, FiniteSets

CONSTANTS Guys,          \* the threads of the chorus, a sequence
          MainThread,
          StopSignals, ErrorSignals,    \* of signal_helpers.c; each is sent once at most
          MaxEvents      \* bound: the events the server is told of

Workers == {Guys[i] : i \in DOMAIN Guys}
Threads == Workers \cup {MainThread}
Signals == StopSignals \cup ErrorSignals

VARIABLES plot,      \* "chorus" or "server"
          todo,      \* what each thread has to do
          lib,       \* the logger's statics
          closed,    \* the streams that have been closed
          line,      \* the thread that has begun a line and not ended it, or "none"
          said,      \* the lines in each stream
          loop,      \* run_flag, connections_count, and the events so far
          onexit,    \* sfl_release is to be called by exit
          sent,      \* the signals that have been sent
          torn,      \* history: a line was begun or ended inside another
          misused,   \* history: streams that were none, or no longer
          hit,       \* history: what signals have interrupted to no good, see Signal
          failed,    \* history: what could not be had
          over       \* has the process "exited" or "crashed"? else "no"

histVars == <<torn, misused, hit, failed>>
logVars == <<plot, todo, lib, closed, line, said, loop, onexit, sent, over, histVars>>

-----------------------------------------------------------------------------
(* What there is to do. *)

Do(op, arg) == [op |-> op, arg |-> arg]

Log(level, text) == [op |-> "print", arg |-> text, level |-> level]

\* sfl_fatal prints at the level of an error.
Fatal(text) == <<Log("error", text), Do("backtrace", text)>>

Levels == {"error", "warning", "info", "notice", "debug"}

SayName(w) == <<Do("wait", w), Log("info", w)>>

ChorusMain ==
    <<Do("try", "memory"), Do("init", "stdout"), Do("atexit", "release"), Do("try", "barrier"),
      Do("verbosity", Levels \ {"debug"}), Log("debug", "unseen"), Log("notice", "count")>>
    \o [i \in DOMAIN Guys |-> Do("create", Guys[i])]
    \o [i \in DOMAIN Guys |-> Do("join", Guys[i])]
    \o Fatal("drill")
    \o <<Log("warning", "back"), Do("init", "file"), Log("info", "record"), Do("exit", "main")>>

ServerMain ==
    <<Do("init", "stdout"), Do("atexit", "release"), Do("verbosity", {"error", "info"}),
      Do("signals", "set"), Log("info", "start"), Do("listen", ""), Do("run", ""), Do("test", "")>>

\* on_stop_signal, on_error_signal.
Handler(s) == IF s \in StopSignals THEN <<Log("info", s), Do("stop", s)>>
              ELSE Fatal(s) \o <<Do("exit", s)>>

Does(t, op) == over = "no" /\ todo[t] # <<>> /\ Head(todo[t]).op = op

Arg(t) == Head(todo[t]).arg

\* The thread goes on with s, then with what is left.
GoOn(t, s) == todo' = [todo EXCEPT ![t] = s \o Tail(@)]

-----------------------------------------------------------------------------
(* sflog.c. *)

\* sfl_print tests the level and the stream, and only then locks.
SflPrint(t) ==
    /\ Does(t, "print")
    /\ GoOn(t, IF Head(todo[t]).level \in lib.verbose /\ lib.fs # "null"
               THEN <<Do("lock", ""), Do("prefix", ""), Do("body", Arg(t)), Do("unlock", "")>>
               ELSE <<>>)
    /\ UNCHANGED <<plot, lib, closed, line, said, loop, onexit, sent, over, histVars>>

LockBusy(t) ==    \* mutant: the mutex is not waited for
    /\ Does(t, "lock")
    /\ lib' = [lib EXCEPT !.mutex = t]
    /\ GoOn(t, <<>>)
    /\ UNCHANGED <<plot, closed, line, said, loop, onexit, sent, over, histVars>>

\* mtx_lock; on a destroyed mutex it fails, which is not looked at.
MtxLock(t) ==
    /\ Does(t, "lock")
    /\ lib.mutex \in {"free", "destroyed"}
    /\ lib' = [lib EXCEPT !.mutex = IF @ = "free" THEN t ELSE @]
    /\ GoOn(t, <<>>)
    /\ UNCHANGED <<plot, closed, line, said, loop, onexit, sent, over, histVars>>

\* Writing to what is no stream, or no longer one.
Write == /\ misused' = misused \cup ({lib.fs} \cap (closed \cup {"null"}))
         /\ over' = IF lib.fs = "null" THEN "crashed" ELSE over

PrintPrefix(t) ==
    /\ Does(t, "prefix")
    /\ Write
    /\ torn' = (torn \/ line # "none")
    /\ line' = t
    /\ GoOn(t, <<>>)
    /\ UNCHANGED <<plot, lib, closed, said, loop, onexit, sent, hit, failed>>

PrintBody(t) ==
    /\ Does(t, "body")
    /\ Write
    /\ torn' = (torn \/ line # t)
    /\ line' = "none"
    /\ said' = [said EXCEPT ![lib.fs] = @ \cup {Arg(t)}]
    /\ GoOn(t, <<>>)
    /\ UNCHANGED <<plot, lib, closed, loop, onexit, sent, hit, failed>>

UnlockForgotten(t) ==    \* mutant: the mutex is kept
    /\ Does(t, "unlock")
    /\ GoOn(t, <<>>)
    /\ UNCHANGED <<plot, lib, closed, line, said, loop, onexit, sent, over, histVars>>

MtxUnlock(t) ==
    /\ Does(t, "unlock")
    /\ lib' = [lib EXCEPT !.mutex = IF @ = "destroyed" THEN @ ELSE "free"]
    /\ GoOn(t, <<>>)
    /\ UNCHANGED <<plot, closed, line, said, loop, onexit, sent, over, histVars>>

\* sfl_print_backtrace tests nothing and locks nothing.
PrintBacktrace(t) ==
    /\ Does(t, "backtrace")
    /\ Write
    /\ GoOn(t, <<>>)
    /\ UNCHANGED <<plot, lib, closed, line, said, loop, onexit, sent, torn, hit, failed>>

SetVerbosity(t) ==
    /\ Does(t, "verbosity")
    /\ lib' = [lib EXCEPT !.verbose = Arg(t)]
    /\ GoOn(t, <<>>)
    /\ UNCHANGED <<plot, closed, line, said, loop, onexit, sent, over, histVars>>

\* sfl_init_fstream of stdout, or sfl_init_fpath, whose fopen may fail.
SflInit(t) ==
    /\ Does(t, "init")
    /\ closed' = closed \cup (IF lib.close THEN {lib.fs} \ {"null"} ELSE {})
    /\ \E got \in IF Arg(t) = "stdout" THEN {"stdout"} ELSE {Arg(t), "null"} :
        /\ lib' = [lib EXCEPT !.fs = got, !.close = Arg(t) # "stdout",
                              !.mutex = IF lib.fs = "null" THEN "free" ELSE @]
        /\ failed' = IF got = "null" THEN failed \cup {Arg(t)} ELSE failed
    /\ GoOn(t, <<>>)
    /\ UNCHANGED <<plot, line, said, loop, onexit, sent, over, torn, misused, hit>>

\* sfl_release: mtx_destroy (which refuses a locked mutex), fclose, fs = NULL.
Destroy(t) ==
    /\ Does(t, "destroy")
    /\ lib' = [lib EXCEPT !.mutex = IF @ = "free" THEN "destroyed" ELSE @]
    /\ GoOn(t, <<>>)
    /\ UNCHANGED <<plot, closed, line, said, loop, onexit, sent, over, histVars>>

CloseStream(t) ==
    /\ Does(t, "close")
    /\ closed' = closed \cup (IF lib.close THEN {lib.fs} ELSE {})
    /\ GoOn(t, <<>>)
    /\ UNCHANGED <<plot, lib, line, said, loop, onexit, sent, over, histVars>>

ClearStream(t) ==
    /\ Does(t, "clear")
    /\ lib' = [lib EXCEPT !.fs = "null"]
    /\ GoOn(t, <<>>)
    /\ UNCHANGED <<plot, closed, line, said, loop, onexit, sent, over, histVars>>

-----------------------------------------------------------------------------
(* The programs. *)

AtExit(t) ==
    /\ Does(t, "atexit")
    /\ onexit' = TRUE
    /\ GoOn(t, <<>>)
    /\ UNCHANGED <<plot, lib, closed, line, said, loop, sent, over, histVars>>

\* exit, also by main's return: the rest of what the thread had to do is dropped.
Exit(t) ==
    /\ Does(t, "exit")
    /\ todo' = [todo EXCEPT ![t] = (IF onexit /\ lib.fs # "null"
                                    THEN <<Do("destroy", ""), Do("close", ""), Do("clear", "")>>
                                    ELSE <<>>) \o <<Do("gone", "")>>]
    /\ onexit' = FALSE
    /\ UNCHANGED <<plot, lib, closed, line, said, loop, sent, over, histVars>>

Gone(t) ==
    /\ Does(t, "gone")
    /\ over' = "exited"
    /\ UNCHANGED <<plot, todo, lib, closed, line, said, loop, onexit, sent, histVars>>

\* calloc or pthread_barrier_init, which may fail.
Try(t) ==
    /\ Does(t, "try")
    /\ \/ GoOn(t, <<>>) /\ UNCHANGED failed
       \/ /\ todo' = [todo EXCEPT ![t] = Fatal(Arg(t)) \o <<Do("exit", "")>>]
          /\ failed' = failed \cup {Arg(t)}
    /\ UNCHANGED <<plot, lib, closed, line, said, loop, onexit, sent, over, torn, misused, hit>>

\* thrd_create, whose result is not looked at.
Create(t) ==
    /\ Does(t, "create")
    /\ \/ todo' = [todo EXCEPT ![t] = Tail(@), ![Arg(t)] = SayName(Arg(t))] /\ UNCHANGED failed
       \/ GoOn(t, <<>>) /\ failed' = failed \cup {Arg(t)}
    /\ UNCHANGED <<plot, lib, closed, line, said, loop, onexit, sent, over, torn, misused, hit>>

\* The barrier lets them all go when the last has come.
Barrier(t) ==
    /\ Does(t, "wait")
    /\ \A w \in Workers : ~Does(w, "unborn")
    /\ GoOn(t, <<>>)
    /\ UNCHANGED <<plot, lib, closed, line, said, loop, onexit, sent, over, histVars>>

\* thrd_join; of a thread that was not created it follows a null handle.
ThrdJoin(t) ==
    /\ Does(t, "join")
    /\ \/ todo[Arg(t)] = <<>> /\ GoOn(t, <<>>) /\ UNCHANGED over
       \/ Does(Arg(t), "unborn") /\ over' = "crashed" /\ UNCHANGED todo
    /\ UNCHANGED <<plot, lib, closed, line, said, loop, onexit, sent, histVars>>

SetHandlers(t) ==
    /\ Does(t, "signals")
    /\ GoOn(t, <<>>)
    /\ UNCHANGED <<plot, lib, closed, line, said, loop, onexit, sent, over, histVars>>

\* The sockets and epoll, any of which may fail.
Listen(t) ==
    /\ Does(t, "listen")
    /\ \/ GoOn(t, <<>>)
       \/ GoOn(t, <<Log("error", "listen"), Do("exit", "failure")>>)
    /\ UNCHANGED <<plot, lib, closed, line, said, loop, onexit, sent, over, histVars>>

\* run_flag is set only now: a stop signal that has come before is forgotten.
SetRunFlag(t) ==
    /\ Does(t, "run")
    /\ loop' = [loop EXCEPT !.run = TRUE]
    /\ GoOn(t, <<>>)
    /\ UNCHANGED <<plot, lib, closed, line, said, onexit, sent, over, histVars>>

\* while (run_flag || connections_count)
TestLoop(t) ==
    /\ Does(t, "test")
    /\ GoOn(t, IF loop.run \/ loop.count # 0 THEN <<Do("sleep", "")>> ELSE <<Do("exit", "success")>>)
    /\ UNCHANGED <<plot, lib, closed, line, said, loop, onexit, sent, over, histVars>>

\* epoll_wait returns: with an event, or with an error that is no interruption.
\* Nothing makes it return.
EpollWait(t) ==
    /\ Does(t, "sleep")
    /\ \/ loop.events < MaxEvents /\ GoOn(t, <<Do("event", "")>>)
       \/ GoOn(t, <<Log("error", "wait"), Do("exit", "failure")>>)
    /\ UNCHANGED <<plot, lib, closed, line, said, loop, onexit, sent, over, histVars>>

\* One event of those it returned: whoever waits is accepted, or a connection
\* is served, either with an error in the log or without; then comes another
\* event, or the test again.
Event(t) ==
    /\ Does(t, "event")
    /\ loop' = [loop EXCEPT !.events = @ + 1]
    /\ \E ops \in {"accept"} \cup (IF loop.count # 0 THEN {"served"} ELSE {}),
          says \in {<<>>, <<Log("error", "event")>>},
          next \in {"test"} \cup (IF loop.events + 1 < MaxEvents THEN {"event"} ELSE {}) :
        GoOn(t, says \o <<Do(ops, ""), Do(next, "")>>)
    /\ UNCHANGED <<plot, lib, closed, line, said, onexit, sent, over, histVars>>

\* One has come, or it could not be taken; more at once are more events.
Accepted(t) ==
    /\ Does(t, "accept")
    /\ \E n \in {0, 1} : loop' = [loop EXCEPT !.count = @ + n]
    /\ GoOn(t, <<>>)
    /\ UNCHANGED <<plot, lib, closed, line, said, onexit, sent, over, histVars>>

\* After its handlers a connection that hung up is counted off, and one that is
\* done, or is found by a stopped server, is: one that is both, twice.
Served(t) ==
    /\ Does(t, "served")
    /\ \E hup, done \in BOOLEAN :
        loop' = [loop EXCEPT !.count = @ - (IF hup THEN 1 ELSE 0)
                                         - (IF done \/ ~loop.run THEN 1 ELSE 0)]
    /\ GoOn(t, <<>>)
    /\ UNCHANGED <<plot, lib, closed, line, said, onexit, sent, over, histVars>>

Stop(t) ==
    /\ Does(t, "stop")
    /\ loop' = [loop EXCEPT !.run = FALSE]
    /\ GoOn(t, <<>>)
    /\ UNCHANGED <<plot, lib, closed, line, said, onexit, sent, over, histVars>>

Ahead(op) == \E i \in DOMAIN todo[MainThread] : todo[MainThread][i].op = op

\* A signal interrupts the server, which has one thread, once the handlers are
\* set.  In epoll_wait it makes the call return, and the loop tests again; just
\* before the call ("wait") it does not.  That, a stop signal before run_flag is
\* set ("start") and one during a print ("lock") are noted in hit.
Signal(s) ==
    /\ plot = "server" /\ over = "no"
    /\ s \in Signals \ sent
    /\ ~Ahead("signals")
    /\ sent' = sent \cup {s}
    /\ \E wakes \in IF Does(MainThread, "sleep") THEN BOOLEAN ELSE {FALSE} :
        /\ todo' = [todo EXCEPT ![MainThread] =
                       Handler(s) \o (IF wakes THEN <<Do("test", "")>> \o Tail(@) ELSE @)]
        /\ hit' = hit \cup (IF lib.mutex = MainThread THEN {"lock"} ELSE {})
                      \cup (IF s \in StopSignals /\ Ahead("run") THEN {"start"} ELSE {})
                      \cup (IF s \in StopSignals /\ Ahead("sleep") /\ ~wakes THEN {"wait"} ELSE {})
    /\ UNCHANGED <<plot, lib, closed, line, said, loop, onexit, over, torn, misused, failed>>

Run(t) == \/ SflPrint(t) \/ MtxLock(t) \/ PrintPrefix(t) \/ PrintBody(t) \/ MtxUnlock(t)
          \/ PrintBacktrace(t) \/ SetVerbosity(t) \/ SflInit(t)
          \/ Destroy(t) \/ CloseStream(t) \/ ClearStream(t)
          \/ AtExit(t) \/ Exit(t) \/ Gone(t)
          \/ Try(t) \/ Create(t) \/ Barrier(t) \/ ThrdJoin(t)
          \/ SetHandlers(t) \/ Listen(t) \/ SetRunFlag(t) \/ TestLoop(t)
          \/ Event(t) \/ Accepted(t) \/ Served(t) \/ Stop(t)

Init ==
    /\ plot \in {"chorus", "server"}
    /\ todo = [t \in Threads |-> IF t = MainThread
                                 THEN IF plot = "chorus" THEN ChorusMain ELSE ServerMain
                                 ELSE <<Do("unborn", "")>>]
    /\ lib = [fs |-> "null", close |-> FALSE, mutex |-> "free", verbose |-> Levels]
    /\ closed = {}
    /\ line = "none"
    /\ said = [f \in {"stdout", "file"} |-> {}]
    /\ loop = [run |-> FALSE, count |-> 0, events |-> 0]
    /\ onexit = FALSE
    /\ sent = {}
    /\ torn = FALSE
    /\ misused = {}
    /\ hit = {}
    /\ failed = {}
    /\ over = "no"

Next == \/ \E t \in Threads : Run(t) \/ EpollWait(t)
        \/ \E s \in Signals : Signal(s)

\* While a thread can run, one does; nothing makes a signal or an event come.
Spec == Init /\ [][Next]_logVars /\ WF_logVars(\E t \in Threads : Run(t))

-----------------------------------------------------------------------------
(* The log is made of whole lines: no line is begun or ended inside another,*)
(* however threads and handlers meet, until exit has destroyed the mutex and*)
(* two signals come after that (sflog.c:51, :98-102).                       *)
LogWhole == torn => ~onexit /\ Cardinality(sent) > 1

(* What is written to is an open stream, until sfl_release: no thread prints*)
(* to a stream that is closed or gone.  Only sfl_fatal's backtrace meets a  *)
(* null stream: without memory for the threads the chorus reports it before *)
(* sfl_init_fstream, and an error signal may come in exit, after sfl_release*)
(* (sflog.c:64-71, hw6/test/main.c:33-38, hw13/fileserver/main.c:41-44).    *)
OpenStream ==
    misused # {} =>
        /\ misused = {"null"}
        /\ \/ failed = {"memory"}
           \/ ~onexit /\ sent \cap ErrorSignals # {}

(* The chorus ends with each of its lines in its stream, every name among   *)
(* them, and without the debug line (hw6/test/main.c:46-61).                *)
ChorusSaid ==
    plot = "chorus" /\ over = "exited" /\ failed = {} =>
        said = [stdout |-> Workers \cup {"count", "drill", "back"}, file |-> {"record"}]

(* The chorus ends if its threads could be created, and the server after any*)
(* signal, but for: a handler that waits for the mutex of the very thread it*)
(* has interrupted (main.c:37, sflog.c:98); a stop signal that came before  *)
(* run_flag was set (main.c:150) or between its test and the sleep          *)
(* (main.c:154-155), after which no other woke it; and a connections_count  *)
(* that stays other than zero, as connections do that do nothing.           *)
Counted == loop.count # 0

EndsUnlessHit ==
    [](plot = "chorus" \/ sent # {} =>
         <>(over # "no" \/ hit # {} \/ failed \cap Workers # {}) \/ <>[]Counted)
=============================================================================
