# Verification of the otus-c-2022-09 programs

The repository holds fifteen independent C programs (`src/hw1` ... `src/hw15`).
This directory models those that have state worth checking: the HTTP file server
and its logger (hw13, hw6), the package manager clib (hw8), the hash table and
the word count (hw3), the weather report and its JSON library (hw4), the parallel
log analyser (hw11), the daemon that tells the size of a file and its ini parser
(hw9), the telehack client (hw12), and three programs that read a file once (hw1,
hw2, hw10). TLC checks them on small instances, and TLAPS proves the main
invariants for every value of the constants.

`PROJECT.json` maps every definition that models code to the lines it stands
for, and lists the runs, the mutants that show that each property can fail, the
hazards, the findings and the theorems.

## 1. Inventory

| Component | State | Operations | What is hard |
|---|---|---|---|
| hw13 event loop: `fileserver/main.c` | `run_flag`, `connections_count`, epoll set and ready list, batch of events | accept loop, dispatch of IN / OUT / HUP, termination, stop signal | edge-triggered events that are reported once; a connection freed while its event is handled; signals between a test and a blocking call; failures half-way through accept |
| hw13 connection: `fileserver/connection.c` | `conn_state`, request buffer, answer and its count, file, `file_bytes_sent` | read handler, `catch_http_request`, `parse_http_head`, `send_answer`, `send_file`, close | partial reads and writes, EAGAIN added to counts, a file that changes between `stat` and `sendfile`, failures of `malloc` |
| hw13 buffer: `fileserver/buffer.c` | `data`, `data_size`, `buffer_size` | append, push, pop, extend, clear | growth by 3/2 up to a limit, two attempts of `realloc`, unsigned subtraction |
| hw13 / hw6 logger: `sflog/sflog.c`, `hw6/test/main.c` | stream, mutex, verbosity | init, print, backtrace, release, exit | a test before the lock, release during print; a signal handler that logs; a thread that could not be created and a barrier that waits for it |
| hw8 clib library: `common/clib-package.c`, `common/clib-cache.c` | `opts`, `lock.mutex`, `visited_packages`, caches of manifests and packages, the packages' counts of references | make a package from a slug, fetch files by threads, install, configure, unpack | a mutex unlocked once too often, threads left running after the join, a name freed under them, `refs` changed without the mutex, downloads that fail or are retried, cycles of dependencies |
| hw8 clib commands: `clib-build.c`, `clib-configure.c`, `clib-install.c`, `clib-update.c`, `clib-upgrade.c` | the hash of packages done, the threads and their frames, the project's manifest | build or configure a tree of packages, install and save them | two threads at one package, a parent that returns while its children read its frame, what an exit status or a saved dependency still promises after a failure |
| hw3 hash table: `maplib/impl/maplib.c` | cells, `count`, `stored_count`, `count_limit` | find, insert, remove, rehash, iterate, destroy | tombstones, the exchange on insertion, probes that do not visit the whole table, a rehash or an allocation that fails |
| hw3 word count: `wordcount/main.c` | word buffer, map | reading loop | words as long as the buffer, the last word |
| hw9 daemon: `main.c`, `single_process.c`, `demonize.c` | record lock and lock file, socket's path, `g_run_flag`, client being served | lock, two forks, set-up, accept, command, close, signals | locks and forks, two instances started at once, signals around `accept` and `read`, a client that leaves or is silent |
| hw11 log statistics: `parselogs/main.c` | shared index, a table per thread, merged tables, top sequences | claim a file, parse a line, join, merge, pick the tops | threads that share an index, `errno` that nobody clears, tables walked in any order |
| hw12 telehack client: `main.c`, `buffer.c` | prompt matcher, tries, bytes sent and received, answer | wait for the prompt, send, receive | partial sends, timeouts, the end of the stream, the echo |
| hw1 jpeg with zip: `main.c` | a cursor over the file | find the picture's start and end, list the entries | matchers that start over in the middle of a match; names too long, sizes that lie, reads that end early |
| hw2 code pages: `main.c` | one byte at a time | encode, write | limits of the encodings, writes that fail |
| hw4 JSON: `libs/json/json.c` | linked nodes, string buffer, position in a text | build, remove, delete, check; encode and decode | links that must agree after any calls, room in the buffer, texts that break off at any depth |
| hw4 weather: `main.c`, `parser.c` | what main holds, the buffer of the answer | one request, labels that free, five lookups | a failure at each of a dozen calls, an answer that is late in parts, too long, or not what was asked for |
| hw9 ini files: `ccan/ciniparser` | arrays of keys and values, a count | load, get, set, unset, dump | free slots found by a count, growth without memory, errors before and after an entry |
| hw10 crc32: `main.c`, `crc32.c` | mapping, offset | read page by page, unmap | the last page, sizes that are multiples of a page, calls that fail |
| hw5 GStreamer plugin, hw7 assembler list, hw14 SQL statistics, hw15 cube, `clib.c`, `clib-init.c`, `clib-search.c` | held by a framework, or none | one call of a library after another | nothing of their own that a model would add to |

Interactions. In hw13 the event loop calls the handlers of the connection,
which use the buffer; clients and the kernel act between any two steps, and
both the loop and the signal handlers log. In hw8 the commands share the
library's mutex and caches with the threads they start. In hw3 the word count
is the only user of the map. In hw4 main hands the answer it has collected to
the JSON library. In hw11 the threads share the index and nothing else. In hw9
the instances meet only through the lock file, its record lock and the path of
the socket; the daemon reads its settings by the ini parser. The programs do
not interact with each other.

What makes each component correct:

* file server: one answer to one request, whole and in order; no edge of epoll
  lost, so that nobody waits for what has already happened; nothing used after
  it has been freed; a count of connections on which the exit test can rely;
* buffer: data inside the block, and an append that fails leaves it alone;
* hash table: it is a dictionary; a search ends, at the key if there is one;
  the table is never full, tombstones included;
* log statistics: every line counted once, the tops are the tops, the program ends;
* daemon: the current size or nothing, to every client that asks; every client
  disconnected; a signal ends it; one instance at a time;
* logger: whole lines, to an open stream, from every thread that prints; a
  program that logs still ends;
* clib: one thread in the sections of the mutex; no half-written manifest read;
  a package's command run once; nothing used after it was freed; whole files in
  the cache; success told only of what was installed; every command ends;
* JSON: the nodes are a forest; a string or value written is read as itself; what
  is accepted is JSON; a refused text leaves nothing allocated;
* weather, ini files, code pages, crc32, jpeg with zip, telehack client: what is
  printed is what was read or received, whatever call fails, and what was held
  is given back.

Not all of it is so: section 3 lists what TLC finds violated.

## 2. Modules

```
HttpService   <--refines--  FileServer    --EXTENDS-->  Connection
Dictionary    <--refines--  HashMap
JsonForest    <--refines--  JsonTree
ClibBuild, ClibInstall      --EXTENDS-->  ClibPackage
MCPrograms    composes  Buffer ParseLogs SfLog Telehack ZipJpeg WordCount IniFile CodePage CrcFile
MCJson        composes  JsonTree JsonString JsonDecode Weather
Daemon
```

`MCPrograms` and `MCJson` check several machines in one run: a variable names
the one that takes steps in a behaviour, the others stand still in a state that
does not multiply the initial ones. The properties of each are named in its own
module; the run checks the conjunction of what concerns one program. Which machines
a run has is a constant, `Chosen` and `Parts`.

| Module | Models | State and steps |
|---|---|---|
| `Connection` | hw13 `connection.c` | A connection is a record: `struct Connection` with the kernel's side of its socket and file. A handler (`OnReadyRead`, `OnReadyWrite`, `SendAnswer`, `SendFile`, ...) is an operator from a connection to the set of connections it may leave behind: `malloc` and the kernel choose. |
| `FileServer` | hw13 `main.c` | `pc` is the place in the loop; each test, system call and handler of the loop body is an action, so that clients (`Connect`, `SendPart`, `Ack`, `Quit`) and signals (`Stop`) come between any two of them. `ready` is epoll's ready list. |
| `HttpService` | what the server promises | request, stream and phase of each connection: the stream grows along one allowed answer, and the server closes only when the answer is complete, the client has gone, or it is stopping. |
| `Buffer` | hw13 `buffer.c` | By sizes: `data_size`, `buffer_size` and `alloc`, the real size of the block. `use` tells the request buffer, from which NULs are popped, from the path and answer buffers. |
| `Dictionary` | `maplib.h` | the map as a function, each operation with what it returns |
| `HashMap` | hw3 `maplib.c` | the cells; an operation is a step, but for an insertion that grows the table, which moves one cell a step. The hash function is any function. |
| `ParseLogs` | hw11 `main.c` | one action per line read, per file claimed, per thread joined and per entry moved to a top |
| `Daemon` | hw9 | one action per system call that another process can see |
| `ClibPackage` | hw8 `clib-package.c`, `clib-cache.c` | a caller's way through `clib_package_new_from_slug`: lock, look into the cache of manifests, unlock, download, retry, save. A retry's unlock may come while another thread holds the mutex. |
| `ClibBuild` | `clib-build.c`, `clib-configure.c` | a thread per child; its record is its frame, with the slots of its own children and its parent. A section of the commands' own mutex calls nothing that waits and is one step. |
| `ClibInstall` | `clib-install.c`, `clib-update.c`, `clib-upgrade.c`, the rest of `clib-package.c` | main's calls are a stack of frames; each fetch thread goes from the test for its file to the decrement of `refs`, a read and a write |
| `SfLog` | hw13 and hw6 `sflog.c`, hw6 `test/main.c`, hw13 `signal_helpers.c` | a thread is the sequence of what it still has to do: a call puts its steps in front, a signal those of its handler. Two plots: the chorus of hw6's test, and the server of hw13 under signals |
| `Telehack` | hw12 `main.c` | the client, a socket that takes and gives any part, and the server: greeting, echo, answer, end |
| `ZipJpeg` | hw1 `main.c` | the file is a sequence of bytes of which only those of signatures are told apart |
| `WordCount` | hw3 `wordcount/main.c` | one character a step; the map is the function of its counts |
| `IniFile` | hw9 `ccan/ciniparser` | one logical line a step, then gets, sets, unsets and a dump; the arrays of the dictionary as they lie |
| `JsonForest` | `json.h` | the children of each live value, in order |
| `JsonTree` | hw4 `json.c` | nodes with parent, siblings and ends of their lists; one call a step |
| `JsonString` | hw4 `json.c` | bytes; emitting with the room there is, parsing with every escape |
| `JsonDecode` | hw4 `json.c` | tokens; the calls that have not returned are a stack, allocations are counted |
| `Weather` | hw4 `main.c`, `parser.c` | main's labels, what it holds, the answer in chunks, its nodes by their paths |
| `CodePage` | hw2 `main.c` | one byte a step, each `fputc` may fail |
| `CrcFile` | hw10 `main.c` | one page a step; a checksum is the sequence of what it is of |
| `MC...` | | the finite sets the configurations use |
| `...Proofs` | | theorems and their proofs. `FileServerProofs` holds the lemmas about `Connection` too; `ClibPackageProofs` is about `ClibPackage` and the threads of `ClibBuild` that run it; `ClibInstallToldProofs` goes on from `ClibInstallProofs`; `ProgramProofs` is about `Buffer`, `CrcFile`, `Telehack`, `Weather` and `ParseLogs` |

Definitions marked as mutants are variants of the definition after them (or of
the one they name) with one plausible mistake, kept to show that a property would
notice it. The specifications do not use them. `PROJECT.json` lists one for each
property a run checks; the other parts of a conjunction have theirs beside the
definition they change.

### How the models abstract

* Connection: text is what the code tells apart: the number of words of the
  request line, its version, its method, what `stat` and `open` make of the
  path. Lengths are units: a request head has `Parts` pieces, an answer head
  `AnsLen` units, the file `FileLen`; the send buffer holds `SndBuf`. A unit of
  the stream carries its place, so that gaps, repeats and mixtures show.
  `answer_bytes_sent` is unsigned (mod `SizeMax + 1`), `file_bytes_sent` signed.
  `poisoned` is the NUL that `catch_http_request` leaves in the request.
* Reading a freed connection (`main.c:184`, after line 174 has freed it) is
  undefined. `FreedReads` says what `fs_get_conn_state` may find and `Aborts`
  what a second `free` may do. With glibc the first word of a freed block, where
  `state` is, is overwritten by the allocator's link, so that it reads as no
  state at all ("garbage"); "end" is the other outcome, and is allowed in the
  runs `one_client` and `failures`.
* HashMap: `map_destroy` is a step without the blocks it frees, and the iterator
  is left out (see section 6).
* ParseLogs: a line is whether its tokens exist, whether `strtol` can represent
  its number, and its URL, referer and bytes. `erange` is the thread's errno.
* ClibPackage: a manifest is had or not, its text is what a scenario says. A
  mutex unlocked by a thread that does not hold it becomes free, as glibc has it.
  The network fails, a manifest is not JSON or a cache entry expires at most
  `MaxFaults` times in a run.
* ClibBuild: a package is looked for in one of three places: the current directory
  ("here", where a run without names and an argument that is a file have theirs),
  below `--out`, or where its slug says. The hash of packages done is keyed by the
  place too, as it is by the path in the code, so that a package that depends on the
  root of the run by way of others is built once in each place.
* ClibInstall: a file is not there, written in part, or whole. Fetch threads are
  numbered as they are made; the same thread of another package has another number.
  Force together with a cycle of dependencies recurses without end and is in no
  scenario. A failed copy into or out of the cache (`copy_dir`) leaves any of its
  files missing or in part, told or not; it and a command that fails (-1 or another
  status) count among the faults. `failed` is a history: what was not installed, and
  with which result.
* SfLog: the text of a line is who prints it. A handler runs in the thread it
  interrupts, with what that thread still has to do behind it.
* JsonTree: a call whose assertion fails aborts and is not made; putting a value
  below itself, which the assertions allow, sets `looped`, and the properties
  speak of the time before.
* JsonDecode: an atom is a string, null or a number; "inf" is a number too large for
  a double, which becomes the infinite one and is written as null, and "max" one that
  16 digits round up to such a number.
* CodePage: a byte's `fputc` may fail, and so may `fclose`, which nobody looks at:
  then the bytes still in the stream's buffer, any number of the last, are lost.
* IniFile: any one allocation fails, with those of `dictionary_new` nobody looks at;
  the use of an array that is not there is "crashed".
* Weather: a call of libcurl succeeds or fails; `buffer.data = "garbage"` is the
  uninitialised buffer that three gotos reach.
* Daemon: the configuration file is readable or not. A command is the five
  bytes `size` and a line's end (`"line"`) or a zero (`"zero"`), or anything else.

## 3. Runs

| Run | Instance | What it shows |
|---|---|---|
| `one_client` | one connection, any of nine requests (all but the one the claim `ForbiddenTold` is about), a head of two pieces and one more, a file of 2 units that may turn out shorter, send buffer of 2, two signals, FIN and RST | `NoLostEdge`, `EndMeansAnswered`, and `FileServer` implements `HttpService` (`ServesHttp`) |
| `two_clients` | two connections, one signal, FIN; fair | `NoStaleEvent`, `NoLostClient`, `CountTrusted`, and `Answered`: a whole request is answered in full |
| `failures` | two connections; malloc, accept, fcntl and epoll_ctl fail, sends are refused, freed memory reads as anything | `TypeOK`, `CountBalance`, `NoDescriptorLeak` |
| `hash_table` | three keys, two values, tables of 4 and 8 cells, every hash function to four values | `CellsRight`, `NeverFull`, and `HashMap` implements `Dictionary` |
| `daemon` | one instance with or without an earlier process that holds the lock, two clients, one change of the size, one signal, any one call failing; fair | `TellsSize`, `Disconnects`, `Stops` |
| `clib_build` | three packages as a diamond, a fan, a cycle through each list, a package that leads back to the root, a tree with development dependencies, and unreadable; command lines with names, with an option before or instead of them, with a `--`; both programs, one to three children at a time, up to six threads besides main, two faults; fair | `CacheGuarded`, `TreeBuilt`, `ParentsWait`, `Ends` |
| `clib_install` | three packages of up to three files; more sources than slots, as many, no slot; two cycles with makefile and script; an executable; copies in the cache, whole and old, and half a file on the disk; the project's own lists with `--save`; update and upgrade; two faults; fair | `FetchContained`, `FilesWhole`, `InstalledAsTold`, `Ends` |
| `programs` | see below; fair for those with threads or a peer | `Contained`, `Modest`, `FailureKeeps` (buffer), `LogsRight`, `LoggerRight`, `ClientRight`, `ListsRight`, `CountsRight`, `IniRight`, `PagesRight`, `WholeFile`, `ProgramsEnd` |
| `json` | four nodes; strings of up to four characters of seven, literals of three escapes, wrong and raw bytes at every boundary; all texts of four tokens and every change of one token in three longer ones; answers with each node missing or of another kind | `ChecksOut`, `JsonTree` implements `JsonForest` (`ImplementsForest`), `TextsRight`, `ReportRight` |

The machines of `programs`: buffer limits of 4 and 20 bytes with appends of up
to 5; two threads on two logs of up to two lines out of five, tops of two
entries, sums mod 8; two singers; a stop signal, an error signal and three
events of the server; a request
of 4 bytes, greetings with prompts in every place, a receive buffer of 3; four
pictures, gaps and up to two entries whose names and data hold parts of
signatures, cut anywhere; texts of up to 6 characters for a buffer of 4; ini
files of up to three lines with two operations after the load and one failure of
memory; code points on both sides of every limit of UTF-8 below U+FFFF; files of
up to 10 bytes in pages of 3.

Runs whose property TLC finds violated, each stating what the repository says:

| Run | Property | Finding |
|---|---|---|
| `split_request` | `RequestCaught` | A request head that arrives in two reads is never recognised: the NUL that `catch_http_request` stores after the first part stays in the text (`connection.c:45`, `buffer.c:101-104`). |
| `endless_search` | `SearchReturns` | `map_find` is to return NULL for a key that is not there; a probe whose step shares a factor with the size of the table goes round two full cells for ever. The three residues of the run are attained by words of three letters under the Pearson hash of `wordcount/hash.c`. |
| `only_one` | `OnlyOne` | `single_process` returns 0 to "единственный процесс" (`single_process.h:8`), yet two instances serve at once, in two ways. TLC shows the shorter: an instance reads the lock file between another's truncation and writing, gets -1, and goes on. The other: `daemonize` leaves the record lock to a parent that exits; with the first way excluded TLC finds this one. |

Further claims of the repository that do not hold. They are stated beside the
properties of their modules, and TLC finds each violated with the configuration named,
which is not among the runs of `PROJECT.json`; no run relies on them. Those of programs
that share a composition take one program (`Chosen`) or part (`Parts`) of it:

| Configuration | Claim | What the code does |
|---|---|---|
| `MCFileServer_forbidden.cfg` | `ForbiddenTold` | The readme (hw13, lines 15-17) asks for 403 when the process lacks the right to read a file. A directory that may not be searched gives it, but for a file that `stat` finds and `open` refuses the code answers 500 (`connection.c:97-101`). |
| `MCClibBuild_names.cfg` | `NamesBuilt` | The usage is `[options] [name ...]` (`clib-build.c:583`), and what follows a `--` is for `make`. With a `--` on the line the current directory is built and none of the packages named (`clib-build.c:697`, `clib-configure.c:626`). Without one, the loop of line 700 takes as many words as there are names, from the first word on: an option before the names is looked for as a package, and names at the end are left out. |
| `MCPrograms_words.cfg` | `EveryWord` | The readme of hw3 (line 10) asks for the count of each word of the file. A word is counted at the character behind it: the last one is left out when nothing follows it, and the loop stops for good at a word that fills the buffer (`wordcount/main.c:38`). |
| `MCPrograms_sections.cfg` | `EverySection` | `ciniparser.h:66-86` numbers the sections from 0 and dumps all of them. `ciniparser_getsecname` makes 1 of a 0 (`ciniparser.c:207`): of two or more sections the first is dumped twice and the last not at all. |
| `MCPrograms_utf8.cfg` | `AlwaysUtf8` | hw2 converts to UTF-8 (readme, lines 3-4), with any page one adds (lines 9-10). Three bytes are used below U+8000 instead of U+10000 (`main.c:62`), so that characters from there on get a fourth. No page of the repository has one. |
| `MCPrograms_sizes.cfg` | `AnySize` | hw10 computes the checksum of files that exceed the memory (readme, lines 9-10). One whose size is a multiple of the page's, 2 MiB, is read whole, and then `munmap` of nothing fails (`main.c:81`). |
| `MCJson_controls.cfg` | `ControlsEscaped` | "Control characters are not allowed in string literals" (`json.c:868`), yet the byte 31 is emitted as it is (`json.c:1180`) and refused by the library's own reader. |
| `MCClibInstall_status.cfg` | `FailureTold` | "Failed installations should exit with a non-zero exit code" (`test/gh-35-exit-codes.sh:6`). The command looks for -1 only (`clib-install.c:347`), and a failed install or configure command gives its wait status (`clib-package.c:1572`). The test's own case, a package that does not exist, gives -1. |

### Bounds and why they are enough

The properties of the event loop speak of one connection, or of one connection
and the events of another: two connections give every order of two events in
one batch, of an accept with an event, and of a double termination with
another client still there. The file and the send buffer have two units, so
that a transfer needs more than one call and meets a full buffer; two pieces of
request with one more to come give split and excessive input. In `hash_table`
the four residues give the keys different starts, equal starts with different
steps, and equal probes; in four cells a third entry always finds tombstones or
grows the table. Two files for two threads give one thread both, or each one;
three URLs for a top of two force an entry out; sums wrap. In the daemon two
clients are one being served and one waiting, and more failures of the same
call are allowed. In clib three packages make a diamond, a cycle and a chain, one
slot fewer than the sources leaves a thread behind, and two faults take a manifest
through its retries and one more call. The telehack request is longer than the
buffer, so that every loop turns twice. Four nodes are a parent, two siblings and
one below or to be moved.

`MaxSize` (HashMap) and `MaxData` (Buffer) stop growth; `MaxSignals`,
`MaxChanges`, `MaxFailures`, `MaxFaults`, `MaxStarved`, `MaxOps`, `MaxEvents`,
`MaxOut`, `MaxInput`, `MaxText`, `MaxFile`, `Extra` and `MaxLines` bound what the environment
does. Nothing in the code is cut by them, except that a table of `MaxSize` cells
does not grow further, a buffer takes no more than `MaxData` bytes, and no more than
`MaxOut` bytes are kept of a request that is sent again and again.

Deadlock is not checked: all these systems may stop (the server has exited, or
nobody will send anything any more), and the models end there.

### Fairness

`FileServer`: weak fairness of the thread, which the kernel schedules as long
as it does not sleep in `epoll_wait` with nothing ready, and of `Ack`: a peer's
kernel acknowledges by itself what it has received. Clients, signals and quits
have none. `ParseLogs`: weak fairness of each thread. `Daemon`: weak fairness
of each instance and of a parent's exit; clients have none, and since `read` has
no timeout (`main.c:203`) one that connects and is silent keeps all others
waiting. `ClibBuild` and
`ClibInstall`: weak fairness of main and of each thread; a download or a command
ends by itself, with success or without. In `programs`, of the threads of parselogs
and of the logger, and of the client, whose `recv` has a timeout and whose `send`
takes something in the end; not of signals, of what `epoll_wait` returns, of errors
or of telehack's server.

## 4. Properties worth an explanation

* `NoLostEdge` is the discipline edge-triggered epoll asks for: a connection
  that is in no list and not being handled waits for nothing that has already
  happened. `NoLostClient` says it of the listening socket; it holds as long as
  `accept` fails only for want of clients.
* `CountBalance` says by what `connections_count` is off: rejected connections
  are counted although they have been freed (`main.c:59-66`), and one that is
  terminated at line 174 and again at 184 is subtracted twice.
* `TerminatedOnce` has the condition `"end" \notin FreedReads`; see section 2.
* `CountTrusted` puts the exit test and the double termination together: the loop
  leaves when the count is 0, which is right as long as nobody is subtracted twice.
* `InOnePlace` (a part of `LogsRight`) follows each byte of traffic: it is in a line still unread, in the
  result of one running worker, or in main's sum. It and `StatisticsRight` speak
  of inputs whose numbers are in range; for the others see section 6.
* `Told` (a part of `TellsSize`) lists the reasons for which a client that asked may be sent away
  without an answer: an empty file (`main.c:71` takes a size of 0 for an error), a
  call that failed, a signal, or a client that hung up early and took the daemon
  along with SIGPIPE.
* `Stops`: a signal ends the process whatever the clients do, unless it came
  between a test of `g_run_flag` (`main.c:186`, `:196`) and the `accept` or `read`
  after it. Then it is lost to that call, and the process stays in it until
  somebody connects, or its client says something or leaves.
* `Disconnects` assumes nothing of the clients, and so names the one way in which a
  client is kept for ever: a client being served that neither speaks nor leaves.
* `CacheGuarded` (`Exclusive` and `WholeManifest`) holds until a download is retried: the retry
  unlocks a mutex the thread does not hold (`clib-package.c:653`), so that from
  then on two threads may be in the sections of the cache.
* `TreeBuilt`: a package is built twice in one place when two threads both find it unbuilt,
  since it is entered after its command (`clib-build.c:182`, `:302`); `Once` says
  when that cannot happen. `Complete` goes from what the user names to what is done
  at the exit, and so is restricted to the command lines that are read as they are
  meant (`Plain`: names first, and no `--` after them); for the others see the claim
  `NamesBuilt` (section 3).
* `ParentsWait`: a child copies its directory from a frame of its parent, and is
  joined before the parent returns, in rounds of `concurrency` and whatever the list
  was; it can fail only once a manifest was lost and the parent returned with its
  children running (`clib-build.c:347-350`).
* `FetchContained`: `clib_package_install` joins its threads by slots, and every
  group of `concurrency + 1` sources leaves one unjoined, which then reads a
  directory's name that main frees (`clib-package.c:937`, `:1587`).
* `InstalledAsTold` says what an exit status of 0 still promises: each package asked
  for, and each dependency of one that is installed, is installed or had an
  installation that failed, and with another result than -1 unless it was asked for by a directory
  or a file; and if no call fails nothing does. Of a saved dependency it says that an
  installation of it ended with 0 and, if none failed, that it is installed and its
  dependencies have been visited. That a failure is told is false (`FailureTold`).
* `RequestWhole` and `AnswerWhole` (parts of `ClientRight`) hold through every error,
  pause and cut of `send` and `recv` but one: a `send` that is interrupted leaves -1
  in `sent` (hw12 `main.c:124-129`), so that the next sends the byte of memory before
  the request as well, and may leave out the last. See section 6.
* `ProgramsEnd` puts three ends together. parselogs ends always. The chorus and the
  server under a signal end but for the cases that `EndsUnlessHit` lists, which
  section 6 describes: the hung mutex, the thread that was not created, a stop signal
  before line 150 or between lines 154 and 155, and a `connections_count` that stays
  other than zero. The count is as the loop keeps it: a connection that hung up and is
  done as well is counted off twice. Telehack's client always comes to its end again
  but for two loops: `recv` of 0 after the server closed, and a `send` that never takes
  half of the request at once.
* `ListsRight`, `CountsRight`, `IniRight`, `PagesRight`, `TextsRight` compare a
  program with a definition of what it should print or accept that does not follow
  its steps (the entries of the archive, the runs of letters, the last value given,
  UTF-8 by code points, the grammar of JSON). They hold for the inputs that they name,
  and require nothing of the others: words with a separator behind them, sections that
  have a number, characters below U+8000, strings without the byte 31, numbers that a
  double can hold. The claims `EveryWord`, `EverySection`, `AlwaysUtf8` and
  `ControlsEscaped`, which do not hold, are about the others (section 3), as is
  `AnySize` for `WholeFile`.

## 5. Proofs

Every theorem holds for every value of the constants that the named assumptions
of its module allow.

| Theorem | Statement | Argument |
|---|---|---|
| `FileServerProofs!TypeCorrect` | `Spec => []TypeOK` | inductive together with: when a handler runs, `cur` is a connection. The types of the handlers are lemmas, one per operator of `Connection`, since a handler leaves a set of connections behind |
| `FileServerProofs!EventsFresh` | `Spec => []NoStaleEvent` | inductive relative to `TypeOK`. `Terminate` takes the socket out of the ready list, and the batch never holds the connection being handled |
| `FileServerProofs!CountBalanced` | `Spec => []CountBalance` | strengthened by "outside `accept`, `conn_number` is 0", relative to the two above; cardinalities of sets that gain or lose one member |
| `FileServerProofs!NoFileLeaks` | `Spec => []NoDescriptorLeak` | inductive relative to the first two; each way out of a connection goes through `fs_conn_free` |
| `FileServerProofs!BacklogServed` | `NoLostClient`, if `~AcceptFails` | `Heard`: outside `accept` whoever is in the backlog has an edge in the ready list or the batch, and nothing is left of a batch when the thread goes to sleep |
| `FileServerProofs!CountIsTrusted` | `CountTrusted`, if a second `free` does not return and memory does not run out | `Once`, relative to `CountBalance`: what the count is off by is empty as long as the process runs; and `run_flag` is cleared by a signal only |
| `FileServerProofs!EdgesNotLost` | `NoLostEdge`, if `~Pressure` | `EdgesKept`: a live connection outside the ready list is quiet (its peer is there, nothing is unread while it waits for the request, its answer has gone as far as the buffer lets it), or the handlers that `mask` and `pc` still owe it will make it so; one lemma for each handler, and `Drained` for the batch |
| `FileServerProofs!WholeAnswers` | `EndMeansAnswered`, if `Favourable` | `StreamKept`: the stream is the beginning of one answer, as long as the counts of bytes sent say (`InOrder`), and the file is open exactly when it is to follow the head (`FileReady`) |
| `FileServerProofs!ImplementsService` | `Spec => ServesHttp`, if `Favourable`, `~AcceptFails` and `Openable` | step by step: a handler's connection maps to `Serve` or to a stutter (`StreamKept`, `EdgesKept`), a termination to `Close` for the reason that `mask`, the signal or the completed answer gives (`MaskTrue`) |
| `FileServerProofs!OnReadyReadType` | the read handler turns connections into connections | |
| `ProgramProofs!SizesTyped`, `AppendsContained`, `FailuresKeep` | types; data inside the block; a failed append changes nothing | `BInv`: nothing is counted before there is a block (`Empty`), and outside the request buffer `data_size <= buffer_size = alloc < MaxSize` (`Tight`), so that a size that passes `buffer_extend`'s test is enough |
| `ProgramProofs!SizesModest` | `Spec => []Modest` | `Paired`: a pop takes from `buffer_size` what the push before it added to `data_size`, so that `buffer_size` has come down to 0 only when `data_size` is past the block; `Fits` for the width of `size_t` |
| `HashMapProofs!LoadBounded` | `Spec => []NeverFull` | `Loaded`: `count` is at most the limit plus one, `stored_count` at most `count`, and at the last step of an insertion `count` is at most the limit; growth by `ResizeFactor` makes room for one more |
| `HashMapProofs!CellsAreRight` | `CellsRight`, if no entry fails to get its memory | `Placed`: the probe of each stored key meets no empty cell before the key (`Safe`), keys are stored once, the counts are cardinalities; during a rehash the new cells are exactly the entries moved so far (`Moving`) |
| `HashMapProofs!TableIsDictionary` | `HashMap` implements `Dictionary`, under the same | `Placed` makes a search's result a function of the map that the cells stand for; an exchange with a tombstone, a moved cell and a new table leave that map alone |
| `DaemonProofs!SizeTold` | `Spec => []TellsSize` | `Attentive`: a client is in one place of one queue or served by one instance (`Queues`), what an instance is doing says what its client has seen, said and got (`Knows`, `Asked`) |
| `ClibPackageProofs!PackageInvariant`, `ManifestsGuarded` | the mutex and the cache of manifests, for any threads and packages: `PackageSpec => []CacheGuarded` | `Guarded`: before a retry the holder of the mutex is the one thread in a section, and a manifest is half-written only while that thread saves it |
| `ClibPackageProofs!BuildInvariant`, `BuildGuarded` | the same for the threads of `ClibBuild`: `Spec => []CacheGuarded` | every step of a build is a step of `ClibPackage` or leaves its variables alone (`LibraryStep`): its next package is one of a manifest, since a thread asks only within its list |
| `ClibPackageProofs!NobodyOrphaned` | `Spec => []ParentsWait` of `ClibBuild` | `Orderly`: until a manifest is lost the threads are a family, `Hung` (a child is in a slot of its parent, which is in the call the child was born in), `Held` (slots hold live children, each once) and `Rooted` (no set of threads without main has all its parents in it); and always `Paced` (slots are filled only between the first of a round and its joins). At the exit main has no slots, so a child left would be in a set that `Rooted` excludes |
| `ClibPackageProofs!TreesBuilt` | `Spec => []TreeBuilt` of `ClibBuild`, `Once` and `Complete` | `Tree`, kept until a manifest is lost. `Steady`: a thread works from the first list on and is past its command only with its package done. `Followed` and `Heeded`: of a package that is done, each dependency is done too, or a thread is at it (`Covered`), or is still before the package's thread (`Behind`), or its slot was not filled (`Garbled`, which the join does not survive); so at the exit the packages done are closed under dependencies and hold all that main went through (`AllDone`), which is what a line with its names first names (`PlainReached`). For `Once`: `InTurn` with one child at a time (all threads but one wait), and `Apiece` with no package asked for twice (what has been begun has an asker, an argument taken or a list passed, and the place a thread is made for is another) |
| `ClibInstallProofs!InstallContained` | `Spec => []FetchContained` of `ClibInstall` | `Contained`. `Sound`: types, and the shape of the stack (the kinds of calls come in one order, and each points at a package made). `Held`: until a retry, who is in a section has the mutex. `Loading`: while main loads a package, the threads of that package are those in its slots and those whose slots were overwritten (`Paced`: at most one in each `concurrency + 1` sources), and before that there are none. `Joined`: with a slot for every source main waits for every thread there is. `Counted`: a package's `refs` is at least the number of its threads, as long as no update is lost |
| `ClibInstallProofs!InstallFilesWhole` | `Spec => []FilesWhole` of `ClibInstall` | `Filed`, over `Contained`. `Once`: without force the threads of a package belong to one call, since it is visited before they are made. `Apart`: no two of them have one path, since main takes the sources one by one. `Whole`: without a fault a half-written file has its thread (`HalfWritten`), a source already passed is there or has a thread before its download (`SeenTo`), so that after the joins every source is whole |
| `ClibInstallToldProofs!InstallTold` | `Spec => []InstalledAsTold` of `ClibInstall` | `Claims`, over `Contained`: what each call on the stack has still to do. `Serves`: what a call wants installed has been visited, or is at hand or on the list of the call it waits for; `Going`: the package of a call is visited from a certain point on; `Back`: a result other than -1 means that the list is done. By these a dependency that is neither visited nor going to be cannot be passed up as a success, whatever circle it is in. `Lost`: after a package failed with -1, one is on its way out through every call, since each list passes it up; `Seen`: a package that is visited has failed, is installed, or is being installed, so that at the end (`SeenAtLast`) no third case is left; `Faultless`: without a fault nothing has failed; `Supplied` for the manifests |
| `JsonTreeProofs!TreeChecksOut` | `Spec => []ChecksOut` of `JsonTree` | `Inv`: the nodes are linked as the lists that `json_foreach` visits (`Lists`). For any lists `K` that the links spell, a walk along `next` from the head is the list of `K` (`WalkIs`: it is no longer than the memory, as no node is in it twice); appending, prepending, removing, making and freeing leave links that spell `K` with the child added, taken out, or gone with all below it (`AppendLists`, `PrependLists`, `RemovedLists`, `MadeLists`, `FreedLists`). That a child to be added has no parent is what keeps it in one list |
| `JsonTreeProofs!TreeIsForest` | `JsonTree` implements `JsonForest` (`ImplementsForest`) | by the same lemmas each call changes the lists as the forest does; what `json_delete` frees is closed under children and, once the value has left its parent, under parents (`BelowIs`), so that no list that is left has lost a node |
| `ProgramProofs!ChecksumOfWholeFile` | `Spec => []WholeFile` of `CrcFile` | what has been read is the file up to the offset, a whole number of pages (`PagesCover`: the pages and the rest are the file); so the rest is nothing, which `munmap` refuses, only in a file of whole pages |
| `ProgramProofs!WholeRequestSent` | `Spec => []RequestWhole` of `Telehack` | nothing has been sent while `sent` is 0, and the loop is left only by a send of as much as the request is long; unless one was interrupted (`sent = -1`) that is the first send, as later ones have less than that left |
| `ProgramProofs!AnswerIsWhole` | `Spec => [](AsksAtPrompt /\ AnswerWhole)` of `Telehack` | `Heeding`, relative to what has been sent. `Matching`: what the matcher's state says of the last two bytes read, from which a prompt is missed only after another empty line. `Unanswered`: until something is sent nothing is answered, and what has arrived and what is to come are the rest of the greeting. `Answering`: when the greeting has been read to its end, what comes is the echo, the text and the prompt (`Comes`), and of what has come what follows the echo has been taken, however it was cut (`EcholessMore`) |
| `ProgramProofs!WeatherRight` | `Spec => [](AllFreed /\ ReportOrReason /\ InBuffer)` of `Weather` | `Reporting`: where main is says what it holds (`Has`), what the buffer is (`Stored`) and what has been found or has failed (`Told`). The loop of `buffer_resize` ends with what is asked for or past the limit, never at the limit (`GrownIs`); as it is a recursive function, first that there is one (`RoundsEnd`: the least size within reach that is enough) |
| `ProgramProofs!StatisticsOfAllLines` | `Spec => [](InOnePlace /\ StatisticsRight)` of `ParseLogs` | `Conserving`: whatever is measured (all bytes, those of a URL, the lines of a referer), what all lines say is what main's sum, the unread lines and the results of the threads not yet joined say together (`Conserved`), since a file has one reader (`Apart`) and a line, a file or a result moves from one place to the next whole; and a key is in one of the three places exactly when a line has it (`KeysKept`). When the last thread is joined two of the places are empty (`AllJoined`). `Picked`: from then on the tops are the best of the keys taken out, and those left have their totals; `BestMore` is the step of `ht_iter_move_to_seq`, the order of the keys being any. The sums are modulo the word: a fold of a finite set does not depend on the order (`SumTake`), by a least set for which it would |

### Hypotheses

A theorem with a hypothesis on the constants is about the outcomes it leaves; what
happens in the others is in section 6. Each is met by the run that checks the
property:

* `~Pressure` and `Favourable` (memory does not run out, the kernel takes what it
  has room for, an answer's head fits the empty send buffer, the file has not grown
  since `stat`) by `one_client`. Refused sends really break the properties
  (`connection.c:216`, `:253`). The buffers' sizes, the requests, their pieces and
  files that have shrunk stay arbitrary, and so does what a freed connection reads as.
* `Openable` (no request is for a file that `stat` finds and `open` may not read) by
  `one_client`; for the others see the claim `ForbiddenTold`.
* `~AcceptFails` (it fails only for want of clients) by `two_clients`, and so
  `"return" \notin Aborts` and `~MallocFails`: a second `free` that returns counts a
  termination twice (`main.c:184-187`), and a connection that finds no memory is
  counted and not there.
* `"entry" \notin AllocFails` by `hash_table`, where the tables' memory may fail.

Assumptions on the constants are named in the modules. These say something about
the constants of the code:

* `MaxSizeAssumption`: the limit of a buffer is 2 mod 3, as 5 MiB is. The sizes
  `buffer_extend` tries are `3n div 2`, which never is; so the loop cannot stop
  exactly at the limit, short of the size required.
* `Sized`, the hypothesis of `WeatherRight`, says the same of the weather report's
  buffer, whose loop is the same, and that the first size is over 1.
* `TelehackAssumption`: more bytes are kept of what was sent than the request has, so
  that one too many shows.
* `Spoken`, the hypothesis of `AnswerIsWhole`: this, that the request is not empty (`main.c:118-121`
  formats `figlet`, a font and a text), and that what the server says is made of bytes.
* `BufferAssumption`: a buffer's data does not wrap `size_t`.
* `ParseLogsAssumption`: there is a file, a thread, a place in the top and a word of
  more than one value; lines are what `parse_log_string` tells apart.
* `LoadAssumption`: the first table takes at least one entry before it is full.
* `ScenariosAssumption` (`ClibBuild`): a manifest names packages, and a command line,
  of names and options in any order, has one `--` at most. `OptionsAssumption`: the
  words that are options are among those that may be looked for as packages, since
  the code does so; `--` is not.
* `ScenariosAssumption` (`ClibInstall`): the types of what is given; that the flags
  `twins` and `leftover`, in which the properties are stated, are set where a manifest
  repeats a base name and where earlier runs left half a file; that `clib upgrade`
  upgrades one package (`clib-upgrade.c:263-271`). That one manifest of `pwd` at most
  parses is a limit of the model, which keeps one list of dependencies for both files.
* `NodesAssumption` (`JsonTree`): the memory is finite, and null is not in it.
* `NamesAssumption`, `NoThreadAssumption` (`ClibInstall`): a package, an argument that
  is a path, a missing list and a free mutex are told apart; `Pkgs # {}` in the three
  theorems, as there would be nothing to install.

### What the proofs showed about the models

* `ParseHttpHead` had two `CASE` arms that overlapped; TLC took the first, the
  prover rightly would not. They are disjoint now, in the code's order.
* An idle instance of the daemon had to be known to serve nobody, and a buffer's
  data to stay below `size_t`.
* `ClibInstall` had a bound on the number of threads as part of its type. It is not
  one: `MaxFetches` bounds only the threads whose progress `Ends` relies on, and the
  theorems hold for any number. What a scenario may be was left to the configuration;
  it is stated now, and the exit status is the low byte of a result that may be -1.
* That a thread runs on behind the joins needs no fault: one source more than there
  are slots is enough, and the proof says how many run on (`Paced`). Where slots
  suffice and every thread could be made, main waits for all of them (`Joined`); so
  the two causes `NameInUse` names are the only ones.
* `ClibBuild` did not tell the current directory from the place of a package of the
  same name: a package in a cycle back to the root looked built twice. TLC shows the
  case in the scenario `Loop`.

* `JsonTree` and `JsonForest` found what is below a value by following lists as often
  as there are nodes, and `Children` followed links with both as arguments of one
  function. They now say the same as the least set that is closed under children, and
  as a walk of one step less, which can be reasoned about. The proof
  shows that the links spell lists even when a value has just been put below itself.

### Model-checked only

Liveness (`Answered`, `Disconnects`, `Stops`, `Ends`, `ProgramsEnd`) is beyond the
prover, as is `ENABLED`. So is induction over data, which the JSON texts, the
archives and the UTF-8 of a string would need; where the data are sets or numbers a
least counterexample did instead (`SumTake`, `RoundsEnd`). Not
attempted: the machines of `programs` and `json` not named above. Before its proof
each inductive invariant of `ClibInstall` (`Contained`, `Filed`, `Claims`) was
checked by TLC on the instance of `clib_install`, with `Nat` cut to `0..30`, and
that of `JsonTree` (`Inv`) on a memory of four nodes, as in `json`.

## 6. Differences between code and text that no claim states

Met while modelling; the models contain the behaviour unless stated otherwise.

* `connection.c:253`: when `send` returns EAGAIN for the head, the unsigned
  `answer_bytes_sent` becomes the largest `size_t` and the answer counts as sent:
  the client gets the file without its head. `EndMeansAnswered` and `ServesHttp`
  hold in `one_client` because a send buffer is empty when the head is sent
  (`Pressure = FALSE`); in `failures` it happens.
* `buffer.c:103`: after `buffer_pop_back` the free space is computed with a
  `buffer_size` that is too small by the bytes popped and may wrap; an append may
  then write past the block. `Modest` says how far the sizes can be trusted.
* `maplib.c:205`: `map_insert` returns true although the entry could not be
  allocated, against `maplib.h:31`, and its null cell cuts the probes of others
  (`"entry" \in AllocFails`).
* `maplib.c:235`, `:255`: the iterator joins its two tests by `&&` and stops at
  tombstones, so that `map_destroy` releases the common tombstone several times.
  Not modelled.
* hw11 `main.c:61-62`: `errno` is not cleared before `strtol`, so that after a
  number out of range good lines are refused, against the comment at line 45.
* hw13 `connection.c:213`: the -1 of a `sendfile` that met a full send buffer is
  added to `file_bytes_sent`, which then never reaches the size of the file: the
  connection stays open although the answer says "Connection: close".
* hw13 `main.c:154-155`: a stop signal does not end a server with an idle
  connection, nor one that was about to sleep, although the handler logs
  "Terminating server" (`main.c:37`); before line 150 it is forgotten.
* hw6 `test/main.c`: a thread that cannot be created leaves the others at the
  barrier; without memory for the threads the error is reported to a stream that
  is still null. An error signal during exit meets the same null stream.
* hw12 `main.c:140`: a `recv` of 0 is not the end; the client spins. A pause of a
  second inside the answer, or an error, ends it early; `onerror` frees an answer
  that was not yet allocated (`:172`); line 124 overwrites `sent` where it should
  add to it, so that a request sent in pieces is given up as a failure or its loop
  does not end, and the -1 of an interrupted `send` makes the next read before the
  request's memory (`:124-129`).
* hw1 `main.c:40`: the matcher starts over after the byte that broke a match, and
  `:64` reads one byte more than it compares: pictures filled up with FF are
  refused. `io_error` is never set.
* hw2 `main.c:77-78`: the result of `fclose` is not looked at, so that the loss of
  what was still in the buffer ends with status 0.
* hw10 `main.c`: an empty file fails in `mmap`; `madvise` failing closes the file
  twice.
* hw4 `json.c`: the assertions of the append functions let a value be put below
  itself; a number too large for a double is read and written back as null
  (`:1225-1240`), and the largest ones are rounded up to such a number.
* hw4 `main.c`: three gotos leave before the buffer is initialised, and `Clean`
  frees it. The program returns 0 after a wrong content type, an answer that is no
  JSON, or a failure of memory, although the readme asks for errors to be handled.
* hw9 `ciniparser.c:438`: an error counted before an entry is overwritten by the
  result of storing the entry; `dictionary_new` does not look at three of its
  allocations (`dictionary.c:104-106`); `ciniparser_set` adds what `ciniparser.h:199` says it
  refuses; `getint` reads base 10 where `ciniparser.h:131-133` says 042 is 34.
* hw8, cache: the search cache never expires, against `clib-cache.h:58-60`; a
  manifest read from the cache is saved again, so that it does not expire while it
  is used; it is looked for under the slug's author and version and saved under
  its own.
* hw8, commands: `clib-build --clean` has no effect (`clib-build.c:260`); the
  result of a command is overwritten by that of `pthread_mutex_lock`
  (`clib-build.c:299`, `clib-configure.c:256`), so that a failed build counts as
  done; the exit status is the last argument's. `clib-upgrade --tag` sets the
  token (`clib-upgrade.c:212`). A failure of the argument `.` or of a file is
  forgotten (`clib-install.c:282`, `:347`). A second attempt at a package whose
  command failed finds it visited, and succeeds (`clib-package.c:1310`).
* hw8, files: a failed download or copy may leave half a file, which is never looked
  into again (`clib-package.c:946`) and is saved in the cache with the package
  (`:1547`); `clib_cache_save_package` does not look at the result of the copying
  (`clib-cache.c:157`). `WholeUnlessFault` speaks of runs without such a failure.
* hw8, memory: `pkg_dir` is freed under threads not joined (`clib-package.c:1587`,
  `:937`); `refs` is decremented without the mutex (`:1006`) and not restored when
  `pthread_create` fails (`:1046`); a retry unlocks a mutex that is not held
  (`:653`); the lists of `clib-configure` dereference a null dependency.

## 7. Not modelled, and why

* hw3: the map's iterator, and the blocks `map_destroy` frees.
* hw4: the grammar of a number, and the order in which `json_delete` frees below
  a node. libcurl is what its calls may return.
* hw5: the callbacks of a GStreamer element; their order, threads and locks are
  the framework's, which is not in the repository.
* hw7, hw14, hw15: a list of constants filtered once, a query the database
  computes, drawing.
* hw8: reading a manifest's JSON, building URLs and paths, option parsing, the
  environment commands run in; `clib.c`, `clib-init.c`, `clib-search.c`. A clib
  with `--force` on a cycle of dependencies.
* hw9: the split of a line of an ini file into words, and the conversions of its
  values.
* hw13: option parsing and the creation of the socket.

## 8. What could come next

* Proofs: whole lines for `SfLog`; `OnlyOne` under the
  conditions in which it does hold (no instance daemonized, lock files written at once).
* The iterator of the map against a set of entries.
* `accept` running out of descriptors with clients still in the backlog, once the
  repository says what the server is to do then.
