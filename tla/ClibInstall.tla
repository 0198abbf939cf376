----------------------------- MODULE ClibInstall -----------------------------
(***************************************************************************)
(* clib-install, clib-update and clib-upgrade (hw8/clib/src) over the      *)
(* package library clib-package.c and the cache of packages of             *)
(* clib-cache.c.  main installs packages depth first; a package is entered *)
(* in the hash of the visited ones, its sources are fetched by threads     *)
(* kept in an array of slots, the result is saved in the cache, its        *)
(* configure and install commands run, and its dependencies follow.        *)
(*                                                                         *)
(* `stack` holds main's calls: one frame for the command and one for each  *)
(* install_packages, with the locals of the clib_package_install inside.   *)
(* `fetch` holds the fetch threads, each a                                 *)
(* fetch_package_file_thread.  main is thread 0.                           *)
(***************************************************************************)
EXTENDS ClibPackage

CONSTANTS Paths,      \* base names of source files and makefiles
          MaxFetches, \* bound: the threads that are sure to run, all of any scenario's
          Scenarios   \* what may be installed: the manifests, the caches, the options

Main == 0
Dirs == {"deps", "tmp", "unpacked"}  \* --out, gettempdir(), the tree of an executable
NoList == <<"none">>             \* a manifest without `src`
None == 0                        \* no thread in a slot

ASSUME MainAssumption == Callers = {Main}
ASSUME NoThreadAssumption == NoThread \notin Nat

FileState == {"none", "part", "full"}

Manifest == [src : Seq(Paths) \cup {NoList}, files : Seq(Paths) \cup {NoList},
             deps : Seq(Pkgs), dev : Seq(Pkgs), makefile : Paths \cup {"none"},
             configure : BOOLEAN, install : BOOLEAN]

\* clib_package_new: `src` falls back on `files`.
SrcIn(m) == IF m.src # NoList THEN m.src ELSE m.files

Invocation == [program : {"install", "update", "upgrade"}, args : Seq(Pkgs \cup {"here", "file"}),
            dev : BOOLEAN, verbose : BOOLEAN, save : {"no", "deps", "dev"},
            manifests : [DOMAIN ManifestNames -> {"none", "bad", "good"}],
            given : [deps : Seq(Pkgs), dev : Seq(Pkgs)], twins : BOOLEAN, leftover : BOOLEAN]

Options == [skip_cache : BOOLEAN, force : BOOLEAN, global : BOOLEAN, concurrency : Int]
Copy == [age : {"none", "fresh", "old"}, copy : [Paths -> FileState]]

Scenario == [cat : [Pkgs -> Manifest], cmd : Invocation, opts : Options,
             json : [Pkgs -> {"none", "fresh", "old"}], cache : [Pkgs -> Copy],
             disk : [Dirs \X Pkgs -> [Paths -> FileState]],
             root : [deps : Seq(Pkgs), dev : Seq(Pkgs)]]

ListOf(list) == IF list = NoList THEN {} ELSE {list[i] : i \in DOMAIN list}

\* No source has the base name of another one.
NoTwins(m) ==
    SrcIn(m) # NoList => \A i, j \in DOMAIN SrcIn(m) : SrcIn(m)[i] = SrcIn(m)[j] => i = j

\* Earlier runs left no half a file, and copies with every source.
NoLeftover(s) ==
    /\ \A d \in Dirs \X Pkgs, f \in Paths : s.disk[d][f] # "part"
    /\ \A p \in Pkgs : s.cache[p].age = "fresh" =>
           /\ \A f \in Paths : s.cache[p].copy[f] # "part"
           /\ \A f \in ListOf(SrcIn(s.cat[p])) : s.cache[p].copy[f] = "full"

\* What may be given: `clib upgrade` upgrades one package, and one manifest of
\* `pwd` at most parses, the one in `root`.
ASSUME ScenariosAssumption ==
    \A s \in Scenarios :
        /\ s \in Scenario
        /\ s.root = s.cmd.given
        /\ ~s.cmd.twins => \A p \in Pkgs : NoTwins(s.cat[p])
        /\ ~s.cmd.leftover => NoLeftover(s)
        /\ s.cmd.program = "upgrade" => Len(s.cmd.args) = 1 /\ s.cmd.args[1] \in Pkgs
        /\ \A m, n \in DOMAIN ManifestNames :
               s.cmd.manifests[m] = "good" /\ s.cmd.manifests[n] = "good" => m = n

ASSUME NamesAssumption == {"here", "file", "none"} \cap Pkgs = {}

VARIABLES cat,       \* the manifests
          cmd,       \* the command: program, options, arguments, manifests of `pwd`
          stack, fetch,
          pkgs,      \* the clib_package_t objects made so far
          visited,   \* the hash visited_packages
          disk,      \* state of the files in the packages' directories
          cache,     \* the cache of packages
          root,      \* the dependencies in the manifest of `pwd`
          code,      \* <<exit status of the command>>
          failed,    \* history: <<p, rc>>, package p was not installed, with the result rc
          unmade,    \* history: pthread_create failed
          stale,     \* history: a thread used a directory's name after its free
          raced      \* history: an update of `refs` was lost

installVars == <<cat, cmd, stack, fetch, pkgs, visited, disk, cache, root, code,
                 failed, unmade, stale, raced>>
vars == <<pkgVars, installVars>>

Running == code = <<>>

Src(p) == SrcIn(cat[p])

Top == stack[Len(stack)]
Put(f) == stack' = [stack EXCEPT ![Len(stack)] = f]
Go(pc) == Put([Top EXCEPT !.pc = pc])
Pkg == pkgs[Top.obj].pkg
Place == <<Top.dir, Pkg>>

\* main is at pc in its innermost call.
MainAt(pc) == Running /\ Top.pc = pc

Frame(kind, dir, todo) ==
    [kind |-> kind, dir |-> dir, todo |-> todo, pc |-> "next", owned |-> {},
     obj |-> 0, i |-> 0, k |-> 1, slots |-> <<>>, rc |-> 0, name |-> 1, seen |-> 0]

\* clib_package_install leaves with rc.
Leave(rc) == Put([Top EXCEPT !.pc = "cleanup", !.rc = rc])

\* Frame f is called and the caller will go on at pc.
Enter(pc, f) == stack' = Append([stack EXCEPT ![Len(stack)].pc = pc], f)

InstallList(pc, dir, list) == Enter(pc, Frame("list", dir, list))

\* The innermost call returns rc.
ReturnTo(rc) == stack' = [SubSeq(stack, 1, Len(stack) - 1) EXCEPT ![Len(stack) - 1].rc = rc]

\* The low byte of rc, which is -1 or more.
ExitStatus(rc) == <<(rc + 256) % 256>>

\* An installation of package p has ended with rc.
Result(p, rc) == failed' = IF rc = 0 THEN failed ELSE failed \cup {<<p, rc>>}

\* clib_package_free: not while there are references.
Freed(objs) == [o \in DOMAIN pkgs |-> IF o \in objs /\ pkgs[o].refs = 0
                                      THEN [pkgs[o] EXCEPT !.freed = TRUE] ELSE pkgs[o]]

-----------------------------------------------------------------------------
(* What each program tells the library.                                     *)

InstallOpts(o) == o

\* `clib update` always fetches, over what there is.
UpdateOpts(o) == [o EXCEPT !.skip_cache = TRUE, !.force = TRUE, !.global = FALSE]

\* `clib upgrade` writes nothing but the executable.
UpgradeOpts(o) == [o EXCEPT !.skip_cache = TRUE, !.global = TRUE]

ProgramOpts(program, o) ==
    CASE program = "install" -> InstallOpts(o)
      [] program = "update"  -> UpdateOpts(o)
      [] program = "upgrade" -> UpgradeOpts(o)

-----------------------------------------------------------------------------
(* fetch_package_file_thread.  refs is decremented without the mutex: a     *)
(* read and a write.                                                        *)

Thread(n, pc) == Running /\ fetch[n].pc = pc
Step(n, pc) == fetch' = [fetch EXCEPT ![n].pc = pc]
Object(n) == pkgs[fetch[n].obj]
Dir(n) == <<Object(n).dir, Object(n).pkg>>
File(n) == disk[Dir(n)][fetch[n].path]
Wrote(n, st) == disk' = [disk EXCEPT ![Dir(n)][fetch[n].path] = st]

Live(n) == fetch[n].pc # "done"

FetchUnchanged == UNCHANGED <<cat, cmd, stack, visited, cache, root, code, failed, unmade>>

\* The path is joined from the directory's name, which clib_package_install owns.
FetchStart(n) ==
    /\ Thread(n, "start")
    /\ Step(n, "check")
    /\ stale' = (stale \/ Object(n).name = "freed")
    /\ FetchUnchanged /\ UNCHANGED <<pkgVars, pkgs, disk, raced>>

FetchLock(n) ==
    /\ Thread(n, "check") \/ Thread(n, "log")
    /\ lock = NoThread
    /\ lock' = n
    /\ Step(n, IF fetch[n].pc = "check" THEN "checked" ELSE "logged")
    /\ FetchUnchanged
    /\ UNCHANGED <<opts, get, json, faults, retried, torn, pkgs, disk, stale, raced>>

\* Only a file that is not there is fetched, except by force.
FetchCheck(n) ==
    /\ Thread(n, "checked")
    /\ lock' = NoThread
    /\ Step(n, IF opts.force \/ File(n) = "none" THEN "open" ELSE "drop")
    /\ FetchUnchanged
    /\ UNCHANGED <<opts, get, json, faults, retried, torn, pkgs, disk, stale, raced>>

\* http_get_file_shared truncates the file, then the answer comes in.
FetchOpen(n) ==
    /\ Thread(n, "open")
    /\ Step(n, "get")
    /\ Wrote(n, "part")
    /\ FetchUnchanged /\ UNCHANGED <<pkgVars, pkgs, stale, raced>>

\* A failure leaves what has been written, and is logged like a success.
FetchEnd(n) ==
    /\ Thread(n, "get")
    /\ Step(n, IF cmd.verbose THEN "log" ELSE "drop")
    /\ \/ Wrote(n, "full") /\ UNCHANGED faults
       \/ Fault /\ UNCHANGED disk
    /\ FetchUnchanged
    /\ UNCHANGED <<opts, lock, get, json, retried, torn, pkgs, stale, raced>>

FetchLog(n) ==
    /\ Thread(n, "logged")
    /\ lock' = NoThread
    /\ Step(n, "drop")
    /\ FetchUnchanged
    /\ UNCHANGED <<opts, get, json, faults, retried, torn, pkgs, disk, stale, raced>>

FetchRead(n) ==
    /\ Thread(n, "drop")
    /\ fetch' = [fetch EXCEPT ![n].pc = "dropping", ![n].seen = Object(n).refs]
    /\ FetchUnchanged /\ UNCHANGED <<pkgVars, pkgs, disk, stale, raced>>

FetchDrop(n) ==
    /\ Thread(n, "dropping")
    /\ Step(n, "done")
    /\ pkgs' = [pkgs EXCEPT ![fetch[n].obj].refs = fetch[n].seen - 1]
    /\ raced' = (raced \/ fetch[n].seen # Object(n).refs)
    /\ FetchUnchanged /\ UNCHANGED <<pkgVars, disk, stale>>

FetchFile(n) == \/ FetchStart(n) \/ FetchLock(n) \/ FetchCheck(n) \/ FetchOpen(n)
                \/ FetchEnd(n) \/ FetchLog(n) \/ FetchRead(n) \/ FetchDrop(n)

-----------------------------------------------------------------------------
(* install_packages of the library.                                         *)

MainUnchanged == UNCHANGED <<cat, cmd, stale, raced>>

\* The next slug of the list, or of the arguments.
NextPackage ==
    /\ MainAt("next")
    /\ Top.kind \in {"list", "command"}
    /\ Top.todo # <<>>
    /\ Head(Top.todo) \in Pkgs
    /\ NewFromSlug(Main, Head(Top.todo))
    /\ Go("slug")
    /\ MainUnchanged
    /\ UNCHANGED <<fetch, pkgs, visited, disk, cache, root, code, failed, unmade>>

GotPackage ==
    /\ MainAt("slug") /\ At(Main, "ok")
    /\ Return(Main)
    /\ pkgs' = Append(pkgs, [pkg |-> Head(Top.todo), refs |-> 0, dir |-> Top.dir,
                             name |-> "none", freed |-> FALSE, rc |-> -1])
    /\ Put([Top EXCEPT !.pc = IF opts.force THEN "prepare" ELSE "test",
                       !.obj = Len(pkgs) + 1, !.todo = Tail(@),
                       !.i = 0, !.k = 1, !.slots = <<>>, !.rc = 0])
    /\ MainUnchanged
    /\ UNCHANGED <<fetch, visited, disk, cache, root, code, failed, unmade>>

\* Without the package the library gives its list up, and the command all of them.
NoPackage ==
    /\ MainAt("slug") /\ At(Main, "null")
    /\ Return(Main)
    /\ Result(Head(Top.todo), -1)
    /\ IF Top.kind = "list"
       THEN Put([Top EXCEPT !.pc = "end", !.rc = -1]) /\ UNCHANGED code
       ELSE code' = (IF cmd.program = "upgrade" THEN ExitStatus(-1) ELSE <<1>>) /\ UNCHANGED stack
    /\ MainUnchanged
    /\ UNCHANGED <<fetch, pkgs, visited, disk, cache, root, unmade>>

\* clib_package_install is back in the library's install_packages: only -1 is a failure.
ListReturned ==
    /\ MainAt("returned") /\ Top.kind = "list"
    /\ pkgs' = [pkgs EXCEPT ![Top.obj].rc = Top.rc]
    /\ Result(Pkg, Top.rc)
    /\ IF Top.rc = -1 THEN Go("end")
       ELSE Put([Top EXCEPT !.pc = "next", !.owned = @ \cup {Top.obj}])
    /\ MainUnchanged
    /\ UNCHANGED <<pkgVars, fetch, visited, disk, cache, root, code, unmade>>

\* The list is freed and its result goes to the caller's rc.
EndOfList ==
    /\ MainAt("end") \/ (MainAt("next") /\ Top.kind = "list" /\ Top.todo = <<>>)
    /\ pkgs' = Freed(Top.owned)
    /\ ReturnTo(IF Top.pc = "end" THEN -1 ELSE 0)
    /\ MainUnchanged
    /\ UNCHANGED <<pkgVars, fetch, visited, disk, cache, root, code, failed, unmade>>

-----------------------------------------------------------------------------
(* The commands.                                                            *)

\* write_dependency: json_object_set_string adds the slug once, if a manifest
\* of `pwd` parses.
SaveTo(list) ==
    LET p == Pkg
    IN IF "good" \in {cmd.manifests[m] : m \in DOMAIN cmd.manifests}
       THEN [root EXCEPT ![list] = IF \E m \in DOMAIN @ : @[m] = p THEN @ ELSE Append(@, p)]
       ELSE root

LeavePackageSaves(rc) ==    \* mutant: saved before the result is tested
    /\ pkgs' = [Freed({Top.obj}) EXCEPT ![Top.obj].rc = rc]
    /\ Result(Pkg, rc)
    /\ root' = IF cmd.save # "no" THEN SaveTo(cmd.save) ELSE root
    /\ IF rc = -1 THEN code' = <<1>> /\ UNCHANGED stack
       ELSE Go("next") /\ UNCHANGED code

\* install_package of the command is left: -1 ends the command and anything
\* else is success.
LeavePackage(rc) ==
    /\ pkgs' = [Freed({Top.obj}) EXCEPT ![Top.obj].rc = rc]
    /\ Result(Pkg, rc)
    /\ root' = IF rc = 0 /\ cmd.save # "no" THEN SaveTo(cmd.save) ELSE root
    /\ IF rc = -1 THEN code' = <<1>> /\ UNCHANGED stack
       ELSE Go("next") /\ UNCHANGED code

PackageReturned ==
    /\ MainAt("returned") /\ Top.kind = "command" /\ cmd.program # "upgrade"
    /\ IF Top.rc = 0 /\ cmd.dev
       THEN InstallList("developed", "deps", cat[Pkg].dev) /\ UNCHANGED <<pkgs, root, code, failed>>
       ELSE LeavePackage(Top.rc)
    /\ MainUnchanged
    /\ UNCHANGED <<pkgVars, fetch, visited, disk, cache, unmade>>

Developed ==
    /\ MainAt("developed") /\ Top.kind = "command"
    /\ LeavePackage(Top.rc)
    /\ MainUnchanged
    /\ UNCHANGED <<pkgVars, fetch, visited, disk, cache, unmade>>

\* install_package of `clib upgrade` is left, and its result is the exit status.
Upgraded ==
    /\ MainAt("returned") /\ Top.kind = "command" /\ cmd.program = "upgrade"
    /\ pkgs' = [Freed({Top.obj}) EXCEPT ![Top.obj].rc = Top.rc]
    /\ Result(Pkg, Top.rc)
    /\ code' = ExitStatus(Top.rc)
    /\ MainUnchanged
    /\ UNCHANGED <<pkgVars, stack, fetch, visited, disk, cache, root, unmade>>

CommandUnchanged ==
    MainUnchanged /\ UNCHANGED <<pkgVars, fetch, pkgs, visited, disk, cache, root, failed, unmade>>

\* An argument that is `.` or a file: the packages of the manifests of `pwd`,
\* or of that one; whatever becomes of them, the next argument follows.
LocalArgument ==
    /\ MainAt("next") /\ Top.kind = "command"
    /\ Top.todo # <<>> /\ Head(Top.todo) \in {"here", "file"}
    /\ stack' = <<[Top EXCEPT !.todo = Tail(@)],
                  [Frame("local", "deps", <<>>) EXCEPT
                      !.name = IF Head(Top.todo) = "here" THEN 1 ELSE Len(ManifestNames)]>>
    /\ UNCHANGED code /\ CommandUnchanged

\* Without arguments install_local_packages gives the exit status.
Alone ==
    /\ Top.kind = "alone"
    /\ \/ MainAt("next") /\ Enter("alone", Frame("local", "deps", <<>>)) /\ UNCHANGED code
       \/ MainAt("alone") /\ code' = <<Top.rc>> /\ UNCHANGED stack
    /\ CommandUnchanged

\* install_local_packages_with_package_name is left: a failure tries the other manifest.
LeaveLocal(rc) ==
    IF rc # 0 /\ Top.name < Len(ManifestNames)
    THEN Put([Top EXCEPT !.pc = "next", !.name = @ + 1])
    ELSE ReturnTo(rc)

\* The dependencies of a manifest here, then its development.
Local ==
    /\ Top.kind = "local"
    /\ \/ MainAt("next") /\ cmd.manifests[Top.name] = "good" /\ InstallList("devs", "deps", root.deps)
       \/ MainAt("next") /\ cmd.manifests[Top.name] # "good" /\ LeaveLocal(1)
       \/ MainAt("devs") /\ Top.rc # -1 /\ cmd.dev /\ InstallList("last", "deps", root.dev)
       \/ MainAt("devs") /\ Top.rc # -1 /\ ~cmd.dev /\ LeaveLocal(0)
       \/ MainAt("last") /\ Top.rc # -1 /\ LeaveLocal(0)
       \/ (MainAt("devs") \/ MainAt("last")) /\ Top.rc = -1 /\ LeaveLocal(1)
    /\ UNCHANGED code /\ CommandUnchanged

EndOfCommand ==
    /\ MainAt("next") /\ Top.kind = "command" /\ Top.todo = <<>>
    /\ code' = <<0>>
    /\ UNCHANGED stack /\ CommandUnchanged

-----------------------------------------------------------------------------
(* clib_package_install.                                                    *)

Installing(v) == MainUnchanged /\ UNCHANGED <<root, code, failed, v>>

\* The sections of the mutex main enters, and the point inside each.
Section == [test |-> "tested", mark |-> "marked", look |-> "looked", store |-> "stored"]

EnterSection ==
    /\ Running /\ Top.pc \in DOMAIN Section
    /\ lock = NoThread
    /\ lock' = Main
    /\ Go(Section[Top.pc])
    /\ Installing(<<fetch, pkgs, visited, disk, cache, unmade>>)
    /\ UNCHANGED <<opts, get, json, faults, retried, torn>>

TestedKeepsLock ==    \* mutant: `return 0` before the unlock
    /\ MainAt("tested")
    /\ lock' = IF Pkg \in visited THEN lock ELSE NoThread
    /\ Go(IF Pkg \in visited THEN "returned" ELSE "prepare")
    /\ Installing(<<fetch, pkgs, visited, disk, cache, unmade>>)
    /\ UNCHANGED <<opts, get, json, faults, retried, torn>>

\* The package was visited: nothing to do.
Tested ==
    /\ MainAt("tested")
    /\ lock' = NoThread
    /\ Go(IF Pkg \in visited THEN "returned" ELSE "prepare")
    /\ Installing(<<fetch, pkgs, visited, disk, cache, unmade>>)
    /\ UNCHANGED <<opts, get, json, faults, retried, torn>>

\* The name of its directory is allocated, the directory and the manifest are written.
Prepare ==
    /\ MainAt("prepare")
    /\ pkgs' = [pkgs EXCEPT ![Top.obj].name = "live"]
    /\ \/ Go("mark") /\ UNCHANGED faults
       \/ ~opts.global /\ Fault /\ Leave(-1)
    /\ Installing(<<fetch, visited, disk, cache, unmade>>)
    /\ UNCHANGED <<opts, lock, get, json, retried, torn>>

\* Where the sources are dealt with, or skipped.
Sources == IF opts.global \/ Src(Pkg) = NoList THEN "configure" ELSE "look"

Marked ==
    /\ MainAt("marked")
    /\ visited' = visited \cup {Pkg}
    /\ lock' = NoThread
    /\ Go(IF ~opts.global /\ cat[Pkg].makefile # "none" THEN "make" ELSE Sources)
    /\ Installing(<<fetch, pkgs, disk, cache, unmade>>)
    /\ UNCHANGED <<opts, get, json, faults, retried, torn>>

\* fetch_package_file: a reference is taken, a read and a write again, before
\* the thread is made.
Reference ==
    /\ MainAt("make") \/ (MainAt("download") /\ Top.k <= Len(Src(Pkg)))
    /\ Put([Top EXCEPT !.pc = IF @ = "make" THEN "makefetch" ELSE "fetch",
                       !.seen = pkgs[Top.obj].refs])
    /\ Installing(<<pkgVars, fetch, pkgs, visited, disk, cache, unmade>>)

ReferencedNot == pkgs    \* mutant: no reference for the thread

Referenced == [pkgs EXCEPT ![Top.obj].refs = Top.seen + 1]

NewFetch(path) ==
    /\ fetch' = Append(fetch, [obj |-> Top.obj, path |-> path, pc |-> "start", seen |-> 0])
    /\ pkgs' = Referenced
    /\ UNCHANGED <<faults, unmade>>

NoFetch ==
    /\ Fault
    /\ pkgs' = Referenced
    /\ unmade' = TRUE
    /\ UNCHANGED fetch

\* The makefile is fetched and waited for; its failure is a warning.  The error
\* of pthread_create is positive: for the callers the package is installed.
FetchMakefile ==
    /\ MainAt("makefetch")
    /\ \/ NewFetch(cat[Pkg].makefile)
          /\ Put([Top EXCEPT !.pc = "makewait", !.slots = <<Len(fetch) + 1>>])
       \/ NoFetch /\ Leave(11)
    /\ Installing(<<visited, disk, cache>>)
    /\ UNCHANGED <<opts, lock, get, json, retried, torn>>

JoinMakefile ==
    /\ MainAt("makewait")
    /\ ~Live(Top.slots[1])
    /\ Put([Top EXCEPT !.pc = Sources, !.slots = <<>>])
    /\ Installing(<<pkgVars, fetch, pkgs, visited, disk, cache, unmade>>)

\* The cache of packages.
HasPackage(p) == cache[p].age = "fresh"

DeletePackage(p) == cache' = [cache EXCEPT ![p].age = "none"]

\* copy_dir: the files `from` go over those there are in `to`.
Over(from, to) == [f \in Paths |-> IF from[f] = "none" THEN to[f] ELSE from[f]]

\* It stops at a file it cannot read, and copy_file does not look whether the
\* file could be written: what a failed copy leaves.
Broken(from, to) ==
    {left \in [Paths -> FileState] :
        \A f \in Paths : left[f] # to[f] => from[f] # "none" /\ left[f] \in {"part", from[f]}}

\* A copy that expires since it was looked for is removed; one that cannot be
\* copied is kept, whether the copying says so or not.
LoadPackage(p, bad, ok) ==
    \/ /\ disk' = [disk EXCEPT ![Place] = Over(cache[p].copy, @)]
       /\ Go(ok)
       /\ UNCHANGED <<cache, faults>>
    \/ Fault /\ DeletePackage(p) /\ Go(bad) /\ UNCHANGED disk
    \/ \E left \in Broken(cache[p].copy, disk[Place]), pc \in {bad, ok} :
           /\ Fault
           /\ disk' = [disk EXCEPT ![Place] = left]
           /\ Go(pc)
           /\ UNCHANGED cache

\* The copy there was is removed first.  The result of the copying is dropped,
\* as is that of making the directory.
SavePackage(p) ==
    \/ cache' = [cache EXCEPT ![p] = [age |-> "fresh", copy |-> disk[Place]]] /\ UNCHANGED faults
    \/ \E left \in Broken(disk[Place], [f \in Paths |-> "none"]) :
           Fault /\ cache' = [cache EXCEPT ![p] = [age |-> "fresh", copy |-> left]]
    \/ Fault /\ DeletePackage(p)

\* A copy is used, or deleted when the cache is to be skipped; else the
\* sources are downloaded.
Looked ==
    /\ MainAt("looked")
    /\ lock' = NoThread
    /\ \/ ~HasPackage(Pkg) /\ Go("download") /\ UNCHANGED <<disk, cache, faults>>
       \/ HasPackage(Pkg) /\ opts.skip_cache /\ DeletePackage(Pkg) /\ Go("download")
          /\ UNCHANGED <<disk, faults>>
       \/ HasPackage(Pkg) /\ ~opts.skip_cache /\ LoadPackage(Pkg, "download", "configure")
    /\ Installing(<<fetch, pkgs, visited, unmade>>)
    /\ UNCHANGED <<opts, get, json, retried, torn>>

\* The next source gets a thread and a slot.  The slot at `concurrency` is
\* filled as well, but the join starts at the one before.
Download ==
    LET i == IF Top.i < 0 THEN 0 ELSE Top.i
        filled == [n \in 1..(IF i = Len(Top.slots) THEN i + 1 ELSE Len(Top.slots)) |->
                       IF n = i + 1 THEN Len(fetch) + 1 ELSE Top.slots[n]]
    IN
    /\ MainAt("fetch")
    /\ \/ /\ NewFetch(Src(Pkg)[Top.k])
          /\ Put([Top EXCEPT !.k = @ + 1, !.slots = filled,
                             !.i = IF i < opts.concurrency THEN i + 1 ELSE i,
                             !.pc = IF i < opts.concurrency THEN "download" ELSE "drain"])
       \/ NoFetch /\ Leave(-1)
    /\ Installing(<<visited, disk, cache>>)
    /\ UNCHANGED <<opts, lock, get, json, retried, torn>>

JoinAtOnce ==    \* mutant: nothing is waited for
    /\ MainAt("drain") \/ (MainAt("download") /\ Top.k > Len(Src(Pkg)))
    /\ Put([Top EXCEPT !.i = -1, !.pc = IF @ = "drain" THEN "download" ELSE "store"])
    /\ Installing(<<pkgVars, fetch, pkgs, visited, disk, cache, unmade>>)

\* `while (--i >= 0)` joins slot i; the thread's result is thrown away, for
\* pthread_join is given a null pointer.
Join ==
    /\ MainAt("drain") \/ (MainAt("download") /\ Top.k > Len(Src(Pkg)))
    /\ IF Top.i > 0
       THEN /\ ~Live(Top.slots[Top.i])
            /\ Put([Top EXCEPT !.i = @ - 1, !.slots[Top.i] = None])
       ELSE Put([Top EXCEPT !.i = -1, !.pc = IF @ = "drain" THEN "download" ELSE "store"])
    /\ Installing(<<pkgVars, fetch, pkgs, visited, disk, cache, unmade>>)

Stored ==
    /\ MainAt("stored")
    /\ lock' = NoThread
    /\ SavePackage(Pkg)
    /\ Go("configure")
    /\ Installing(<<fetch, pkgs, visited, disk, unmade>>)
    /\ UNCHANGED <<opts, get, json, retried, torn>>

\* system: a command that fails leaves its wait status, which is not -1; one
\* that cannot be started leaves -1.
Command(next) ==
    \/ Go(next) /\ UNCHANGED faults
    \/ \E rc \in {-1, 256} : Fault /\ Leave(rc)

Configure ==
    /\ MainAt("configure")
    /\ IF cat[Pkg].configure THEN Command("exec")
       ELSE Go("exec") /\ UNCHANGED faults
    /\ Installing(<<fetch, pkgs, visited, disk, cache, unmade>>)
    /\ UNCHANGED <<opts, lock, get, json, retried, torn>>

\* clib_package_install_executable: the archive is fetched and unpacked, and
\* the dependencies are installed there first.
Unpack ==
    /\ MainAt("exec") /\ cat[Pkg].install
    /\ \/ /\ InstallList("unpacked", "unpacked", cat[Pkg].deps)
          /\ UNCHANGED faults
       \/ \E rc \in {-1, 256} : Fault /\ Leave(rc)
    /\ Installing(<<fetch, pkgs, visited, disk, cache, unmade>>)
    /\ UNCHANGED <<opts, lock, get, json, retried, torn>>

RunInstall ==
    /\ MainAt("unpacked")
    /\ IF Top.rc = -1 THEN Leave(-1) /\ UNCHANGED faults ELSE Command("deps")
    /\ Installing(<<fetch, pkgs, visited, disk, cache, unmade>>)
    /\ UNCHANGED <<opts, lock, get, json, retried, torn>>

\* clib_package_install_dependencies.
Dependencies ==
    /\ MainAt("deps") \/ (MainAt("exec") /\ ~cat[Pkg].install)
    /\ InstallList("depsdone", Top.dir, cat[Pkg].deps)
    /\ Installing(<<pkgVars, fetch, pkgs, visited, disk, cache, unmade>>)

DependenciesDone ==
    /\ MainAt("depsdone")
    /\ Leave(Top.rc)
    /\ Installing(<<pkgVars, fetch, pkgs, visited, disk, cache, unmade>>)

\* The directory's name is freed, whoever still uses it.
Cleanup ==
    /\ MainAt("cleanup")
    /\ pkgs' = [pkgs EXCEPT ![Top.obj].name = "freed"]
    /\ Go("returned")
    /\ Installing(<<pkgVars, fetch, visited, disk, cache, unmade>>)

Library ==
    /\ Running
    /\ MakePackage(Main)
    /\ UNCHANGED installVars

MainStep ==
    \/ NextPackage \/ GotPackage \/ NoPackage \/ ListReturned \/ EndOfList
    \/ PackageReturned \/ Upgraded \/ Developed \/ LocalArgument \/ Alone \/ Local \/ EndOfCommand
    \/ EnterSection \/ Tested \/ Prepare \/ Marked \/ Reference \/ FetchMakefile \/ JoinMakefile
    \/ Looked \/ Download \/ Join \/ Stored \/ Configure \/ Unpack \/ RunInstall
    \/ Dependencies \/ DependenciesDone \/ Cleanup \/ Library

Init ==
    /\ PackageInit
    /\ \E s \in Scenarios :
        /\ cat = s.cat
        /\ cmd = s.cmd
        /\ opts = SetOpts(DefaultOpts, ProgramOpts(s.cmd.program, s.opts))
        /\ root = s.root
        /\ json = s.json
        /\ cache = s.cache
        /\ disk = s.disk
    /\ stack = <<Frame(IF cmd.args = <<>> THEN "alone" ELSE "command",
                       IF cmd.program = "upgrade" THEN "tmp" ELSE "deps", cmd.args)>>
    /\ fetch = <<>>
    /\ pkgs = <<>>
    /\ visited = {}
    /\ code = <<>>
    /\ failed = {}
    /\ unmade = FALSE
    /\ stale = FALSE
    /\ raced = FALSE

Next == MainStep \/ \E n \in DOMAIN fetch : FetchFile(n)

\* Every thread runs, and every download and command ends.
Spec == Init /\ [][Next]_vars /\ WF_vars(MainStep)
             /\ \A n \in 1..MaxFetches : WF_vars(n \in DOMAIN fetch /\ FetchFile(n))

-----------------------------------------------------------------------------
TypeOK ==
    /\ get \in [Callers -> Call]
    /\ json \in [Pkgs -> Entry]
    /\ lock \in {NoThread, Main} \cup DOMAIN fetch
    /\ visited \subseteq Pkgs
    /\ disk \in [Dirs \X Pkgs -> [Paths -> FileState]]
    /\ cache \in [Pkgs -> Copy]
    /\ code \in {<<>>, <<0>>, <<1>>, <<11>>, <<255>>}
    /\ \A n \in DOMAIN fetch : fetch[n].obj \in DOMAIN pkgs /\ fetch[n].path \in Paths
    /\ \A d \in DOMAIN stack : stack[d].rc \in {-1, 0, 1, 11, 256}

LiveOf(o) == {n \in DOMAIN fetch : fetch[n].obj = o /\ Live(n)}
SrcOf(p) == ListOf(Src(p))
Many == \E p \in Pkgs : Src(p) # NoList /\ Len(Src(p)) > opts.concurrency

(* main and the fetch threads are never in two sections of the mutex at     *)
(* once, until a manifest's download was retried: only that retry unlocks   *)
(* what it does not hold (clib-package.c:653, :943-987, :1306-1457).        *)
OneInside ==
    LET fetching == {n \in DOMAIN fetch : fetch[n].pc \in {"checked", "logged"}}
        mainToo == InSection(Main) \/ \E pc \in DOMAIN Section : Top.pc = Section[pc]
    IN Running /\ ~retried =>
        Cardinality(fetching) <= 1 /\ (mainToo => fetching = {})

(* When a package is saved in the cache, every whole group of               *)
(* concurrency + 1 sources has left one thread that was never joined, and   *)
(* no other thread is running (clib-package.c:1481-1541).                   *)
LeftRunning ==
    Running /\ Top.pc \in {"store", "stored"} =>
        Cardinality(LiveOf(Top.obj)) <= Len(Src(Pkg)) \div (opts.concurrency + 1)

(* A fetch thread uses the name of the directory after                      *)
(* clib_package_install has freed it only if it was not joined: more        *)
(* sources than slots, or a thread that could not be made                   *)
(* (clib-package.c:937, :1587).                                             *)
NameInUse == stale => Many \/ unmade

(* A package with fetch threads is not freed, as long as no update of refs  *)
(* was lost between two of them (clib-package.c:1006, :1046, :1644).        *)
PackageInUse == \A o \in DOMAIN pkgs : pkgs[o].freed /\ LiveOf(o) # {} => raced

(* Two threads write one file only when the manifest gives two sources the  *)
(* same base name, or by force: the test for the file and its creation are  *)
(* in no section together (clib-package.c:946, :956).                       *)
OneWriter ==
    ~opts.force /\ ~cmd.twins =>
        \A m, n \in DOMAIN fetch :
            fetch[m].pc = "get" /\ fetch[n].pc = "get" /\ Dir(m) = Dir(n)
            /\ fetch[m].path = fetch[n].path => m = n

(* What this run saves in the cache is whole if nothing failed, no source   *)
(* went without a slot and no half a file was found: a file that exists is  *)
(* never looked into (clib-package.c:946, :1547).                           *)
WholeUnlessFault ==
    faults = 0 /\ ~Many /\ ~cmd.leftover =>
        \A p \in Pkgs : cache[p].age = "fresh" => \A f \in SrcOf(p) : cache[p].copy[f] = "full"

\* Not the call that found the package visited.
InstalledBy(o) == pkgs[o].rc = 0 /\ pkgs[o].name # "none"

\* An installation of package p ended with 0, or with another result.
Installed(p) == \E o \in DOMAIN pkgs : pkgs[o].pkg = p /\ InstalledBy(o)
Failed(p) == \E f \in failed : f[1] = p

\* What was asked for, and the dependencies of what is installed.
Needed ==
    (ListOf(cmd.args) \cap Pkgs)
    \cup (IF cmd.args = <<>> THEN ListOf(root.deps) ELSE {})
    \cup UNION {ListOf(cat[pkgs[o].pkg].deps) : o \in {q \in DOMAIN pkgs : InstalledBy(q)}}

(* Exit status 0: all that is needed is installed - through cycles, and     *)
(* through the executables' own trees - but for the packages that failed,   *)
(* and none failed with -1, the one result that is looked at, but for an    *)
(* argument that is a directory or a file, whose failure is forgotten.      *)
(* Nothing fails of itself (clib-package.c:366-405, :1291-1320, :1582,      *)
(* clib-install.c:282, :347).                                               *)
Complete ==
    /\ code = <<0>> =>
           /\ \A p \in Needed : Installed(p) \/ Failed(p)
           /\ ListOf(cmd.args) \subseteq Pkgs => \A f \in failed : f[2] # -1
    /\ faults = 0 => failed = {}

(* A package saved among the dependencies of the project had an             *)
(* installation that ended with 0; and it is installed, its dependencies    *)
(* visited, if none of it failed: a second attempt at one whose command     *)
(* failed finds it visited, and saves it (clib-install.c:314-333,           *)
(* clib-package.c:1310).                                                    *)
SavedInstalled ==
    \A list \in DOMAIN root : \A p \in ListOf(root[list]) \ ListOf(cmd.given[list]) :
        /\ \E o \in DOMAIN pkgs : pkgs[o].pkg = p /\ pkgs[o].rc = 0
        /\ Failed(p) \/ (Installed(p) /\ ListOf(cat[p].deps) \subseteq visited)

(* The fetch threads keep out of main's sections, and what runs on after    *)
(* the join is known: which threads, and what they may still find freed     *)
(* (clib-package.c:937-1008, :1492-1605).                                   *)
FetchContained == TypeOK /\ OneInside /\ LeftRunning /\ NameInUse /\ PackageInUse

(* The files of a package are written by one thread each, and whole when    *)
(* they are cached (clib-package.c:946-957, :1544-1550).                    *)
FilesWhole == OneWriter /\ WholeUnlessFault

(* What a command claims at its end, by its exit status and in the          *)
(* project's manifest, is so, but for the failures nobody looks at          *)
(* (clib-install.c:309-351).                                                *)
InstalledAsTold == Complete /\ SavedInstalled

(* The repository's claim, which does not hold: "Failed installations       *)
(* should exit with a non-zero exit code" (test/gh-35-exit-codes.sh:6).     *)
(* Only -1 is a failure to install_packages, and a command that ends with   *)
(* another status leaves that (clib-install.c:347, clib-package.c:1572).    *)
FailureTold == code = <<0>> /\ ListOf(cmd.args) \subseteq Pkgs => failed = {}

(* A command ends, whatever circles the dependencies make: without force a  *)
(* package is entered once.                                                 *)
Ends == <>~Running
==============================================================================
