------------------------------ MODULE ClibBuild ------------------------------
(***************************************************************************)
(* clib-build.c and clib-configure.c (hw8/clib/src): a tree of threads.    *)
(* The thread of a package runs the package's command (make, or its        *)
(* `configure`), then starts one thread for each dependency, at most       *)
(* `concurrency` at a time, and joins them.  The threads share the hash of *)
(* the packages done, the C library's `lock` and cache (ClibPackage), and  *)
(* each child reads its directory from its parent's stack.                 *)
(*                                                                         *)
(* Every section of the commands' own `mutex` is left on every path and    *)
(* calls nothing that waits: it is one step here.                          *)
(***************************************************************************)
EXTENDS ClibPackage

CONSTANTS Scenarios,   \* what may be built: the manifests, the cache, the program, its options
          Options      \* words of a command line that are options or their arguments; where the
                       \* code takes one for a name, it is looked for as a package is

ASSUME ThreadsAssumption == Callers \subseteq Nat \ {0} /\ 1 \in Callers
ASSUME OptionsAssumption == Options \subseteq Pkgs /\ "--" \notin Pkgs

VARIABLES cat,       \* the manifests of this run
          command,   \* which of the two programs
          set,       \* its `opts`
          thr,       \* the threads; 1 is main
          done,      \* the hash `built` (`configured`)
          todo,      \* the arguments main has not looked at
          status,    \* of the process
          ran,       \* history: how often a package's command was started in a place
          lost,      \* history: a manifest could not be had
          dangling   \* history: a thread read a stack frame that was gone

buildVars == <<cat, command, set, thr, done, todo, status, ran, lost, dangling>>
vars == <<pkgVars, buildVars>>

Main == 1
Words == Pkgs \cup {"--"}    \* of the command line
Places == {"here", "dir", "slug"}    \* where a package is looked for: in the current directory,
                                     \* below --out, or where its slug says
Keys == Pkgs \X Places \X DOMAIN ManifestNames
NoChild == 0                 \* a slot pthread_create did not fill

\* What the manifests in a package's directory are, and what they say.
Manifest == [local : [DOMAIN ManifestNames -> {"good", "bad", "none"}],
             command : BOOLEAN, flags : BOOLEAN, deps : Seq(Pkgs), dev : Seq(Pkgs)]

Thread == [pc : {"none", "new", "enter", "read", "own", "work", "run", "dep",
                 "slug", "join", "out", "arg"},
           pkg : Pkgs, place : Places, name : DOMAIN ManifestNames, list : {"deps", "dev"},
           k : Nat, slots : Seq(Callers \cup {NoChild}), parent : Callers, born : Nat,
           call : Nat, rc : {0, 1}]

Nobody == [pc |-> "none", pkg |-> CHOOSE p \in Pkgs : TRUE, place |-> "dir", name |-> 1,
           list |-> "deps", k |-> 1, slots |-> <<>>, parent |-> Main, born |-> 0,
           call |-> 0, rc |-> 0]

Alive(t) == thr[t].pc \notin {"none", "out"}
Key(t) == <<thr[t].pkg, thr[t].place, thr[t].name>>
List(t) == cat[thr[t].pkg][thr[t].list]
Unused == {u \in Callers : thr[u].pc = "none"}

-----------------------------------------------------------------------------
(* Frame conditions. *)

Running(t, pc) == status = "running" /\ thr[t].pc = pc

Become(t, f) == thr' = [thr EXCEPT ![t] = f]

Only(v) == /\ UNCHANGED <<cat, command, set, v>>
           /\ UNCHANGED pkgVars

\* build_package_with_manifest_name returns rc to build_package, which tries
\* the other manifest, then to the thread's function or to main.
Leave(t, rc) ==
    LET f == thr[t] IN
    Become(t, IF rc # 0 /\ f.name < Len(ManifestNames)
              THEN [f EXCEPT !.pc = "enter", !.name = @ + 1, !.call = @ + 1, !.slots = <<>>,
                             !.list = "deps", !.k = 1]
              ELSE [f EXCEPT !.pc = IF t = Main THEN "arg" ELSE "out", !.rc = rc,
                             !.call = @ + 1, !.slots = <<>>])

-----------------------------------------------------------------------------
(* One package. *)

FindAgain(t) == Become(t, [thr[t] EXCEPT !.pc = "read"])    \* mutant: the hash is not asked

Find(t) == IF done[Key(t)] # "none" THEN Leave(t, 0)
           ELSE Become(t, [thr[t] EXCEPT !.pc = "read"])

\* The thread's function copies the directory from the wrap in its parent's frame.
Start(t) ==
    /\ Running(t, "new")
    /\ Find(t)
    /\ dangling' = (dangling \/ thr[thr[t].parent].call # thr[t].born)
    /\ Only(<<done, todo, status, ran, lost>>)

Enter(t) ==
    /\ Running(t, "enter")
    /\ Find(t)
    /\ Only(<<done, todo, status, ran, lost, dangling>>)

\* The manifest in the package's directory, if there is one.
Read(t) ==
    LET found == IF thr[t].place = "slug" THEN "none" ELSE cat[thr[t].pkg].local[thr[t].name] IN
    /\ Running(t, "read")
    /\ CASE found = "good" -> Become(t, [thr[t] EXCEPT !.pc = "work"]) /\ UNCHANGED <<lost, pkgVars>>
         [] found = "bad"  -> Leave(t, 1) /\ lost' = TRUE /\ UNCHANGED pkgVars
         [] found = "none" -> /\ NewFromSlug(t, thr[t].pkg)
                              /\ Become(t, [thr[t] EXCEPT !.pc = "own"])
                              /\ UNCHANGED lost
    /\ UNCHANGED <<cat, command, set, done, todo, status, ran, dangling>>

\* Without one the directory is taken for a slug.
Own(t) ==
    /\ Running(t, "own")
    /\ Return(t)
    /\ IF At(t, "ok") THEN Become(t, [thr[t] EXCEPT !.pc = "work"]) /\ UNCHANGED lost
       ELSE Leave(t, 1) /\ lost' = TRUE
    /\ UNCHANGED <<cat, command, set, done, todo, status, ran, dangling>>

\* clib-build: system() starts make.
Make(t) ==
    /\ Running(t, "work")
    /\ command = "build"
    /\ cat[thr[t].pkg].command
    /\ Become(t, [thr[t] EXCEPT !.pc = "run"])
    /\ ran' = [ran EXCEPT ![<<thr[t].pkg, thr[t].place>>] = @ + 1]
    /\ Only(<<done, todo, status, lost, dangling>>)

\* clib-configure --flags: the package's flags are printed instead, and it is done.
Printed(t) == command = "configure" /\ set.flags /\ cat[thr[t].pkg].flags

PrintFlags(t) ==
    /\ Running(t, "work")
    /\ Printed(t)
    /\ done' = [done EXCEPT ![Key(t)] = "t"]
    /\ Become(t, [thr[t] EXCEPT !.pc = "dep"])
    /\ Only(<<todo, status, ran, lost, dangling>>)

\* clib-configure: system() starts the package's script.
Configure(t) ==
    /\ Running(t, "work")
    /\ command = "configure"
    /\ ~Printed(t)
    /\ cat[thr[t].pkg].command
    /\ Become(t, [thr[t] EXCEPT !.pc = "run"])
    /\ ran' = [ran EXCEPT ![<<thr[t].pkg, thr[t].place>>] = @ + 1]
    /\ Only(<<done, todo, status, lost, dangling>>)

\* What it returned is overwritten by pthread_mutex_lock's 0: the package is
\* done, "t" with a command and "f" without, whatever the command said.
Mark(t) ==
    /\ Running(t, "run") \/ (Running(t, "work") /\ ~cat[thr[t].pkg].command /\ ~Printed(t))
    /\ done' = [done EXCEPT ![Key(t)] = IF cat[thr[t].pkg].command THEN "t" ELSE "f"]
    /\ Become(t, [thr[t] EXCEPT !.pc = "dep"])
    /\ Only(<<todo, status, ran, lost, dangling>>)

-----------------------------------------------------------------------------
(* Its dependencies, then with --dev those of its development. *)

Dep(t) ==
    /\ Running(t, "dep")
    /\ thr[t].k <= Len(List(t))
    /\ NewFromSlug(t, List(t)[thr[t].k])
    /\ Become(t, [thr[t] EXCEPT !.pc = "slug"])
    /\ UNCHANGED <<cat, command, set, done, todo, status, ran, lost, dangling>>

Lost(t) ==
    /\ Running(t, "slug")
    /\ At(t, "null")
    /\ Return(t)
    /\ lost' = TRUE

\* clib-build misses a dependency and returns, its children still running.
LoseDependency(t) ==
    /\ Lost(t)
    /\ command = "build" /\ thr[t].list = "deps"
    /\ Leave(t, 1)
    /\ UNCHANGED <<cat, command, set, done, todo, status, ran, dangling>>

\* clib-configure, and both of them in the other list, follow the null pointer.
LoseAll(t) ==
    /\ Lost(t)
    /\ command = "configure" \/ thr[t].list = "dev"
    /\ status' = "crashed"
    /\ UNCHANGED <<cat, command, set, thr, done, todo, ran, dangling>>

\* The next slot is filled; when the slots or the list are full, all are joined.
StartedOnly(t, u) ==    \* mutant: the last, partly filled round is not joined
    LET slots == Append(thr[t].slots, u)
    IN [thr[t] EXCEPT !.slots = slots, !.k = @ + 1,
                      !.pc = IF Len(slots) >= set.concurrency THEN "join" ELSE "dep"]

Started(t, u) ==
    LET slots == Append(thr[t].slots, u)
        full == Len(slots) >= set.concurrency \/ thr[t].k = Len(List(t))
    IN [thr[t] EXCEPT !.slots = slots, !.k = @ + 1, !.pc = IF full THEN "join" ELSE "dep"]

\* Its name gives the directory, and a thread builds it there.
Create(t) ==
    /\ Running(t, "slug")
    /\ At(t, "ok")
    /\ Return(t)
    /\ Unused # {}
    /\ LET u == CHOOSE u \in Unused : \A v \in Unused : u <= v IN
       thr' = [thr EXCEPT ![t] = Started(t, u),
                          ![u] = [Nobody EXCEPT !.pc = "new", !.pkg = List(t)[thr[t].k],
                                                !.parent = t, !.born = thr[t].call,
                                                !.call = thr[u].call]]
    /\ UNCHANGED <<cat, command, set, done, todo, status, ran, lost, dangling>>

\* pthread_create fails: its result is dropped and the slot stays garbage.
CreateFails(t) ==
    /\ Running(t, "slug")
    /\ At(t, "ok")
    /\ set.nothread
    /\ Return(t)
    /\ Become(t, Started(t, NoChild))
    /\ UNCHANGED <<cat, command, set, done, todo, status, ran, lost, dangling>>

Join(t) ==
    LET u == Head(thr[t].slots) IN
    /\ Running(t, "join")
    /\ IF u = NoChild THEN status' = "crashed" /\ UNCHANGED thr
       ELSE /\ thr[u].pc = "out"
            /\ thr' = [thr EXCEPT ![u] = [Nobody EXCEPT !.call = thr[u].call],
                                  ![t].slots = Tail(@),
                                  ![t].pc = IF Len(thr[t].slots) = 1 THEN "dep" ELSE "join"]
            /\ UNCHANGED status
    /\ Only(<<done, todo, ran, lost, dangling>>)

EndOfList(t) ==
    /\ Running(t, "dep")
    /\ thr[t].k > Len(List(t))
    /\ IF set.dev /\ thr[t].list = "deps"
       THEN Become(t, [thr[t] EXCEPT !.list = "dev", !.k = 1])
       ELSE Leave(t, 0)
    /\ Only(<<done, todo, status, ran, lost, dangling>>)

-----------------------------------------------------------------------------
(* main: the current directory, or the arguments one after the other, each  *)
(* tried as a slug when it fails as a directory.  The exit status is that   *)
(* of the last.                                                             *)

\* `rest_offset` and the loop over nargv: as many words as there are names, from
\* the first one on, names or not; with a `--` no name is looked at.
Named(line) == {i \in DOMAIN line : line[i] \in Pkgs \ Options}

Nameless(line) == Named(line) = {} \/ \E i \in DOMAIN line : line[i] = "--"

Arguments(line, here) == IF Nameless(line) THEN <<here>>
                         ELSE SubSeq(line, 1, Cardinality(Named(line)))

\* A command line has one `--` at most.
ASSUME ScenariosAssumption ==
    \A s \in Scenarios :
        /\ s.cat \in [Pkgs -> Manifest]
        /\ s.json \in [Pkgs -> {"none", "fresh", "old"}]
        /\ s.set.line \in Seq(Words) /\ s.set.here \in Pkgs
        /\ \A i, j \in DOMAIN s.set.line : s.set.line[i] = "--" /\ s.set.line[j] = "--" => i = j

BuildPackage(p, place, name) ==
    Become(Main, [Nobody EXCEPT !.pc = "enter", !.pkg = p, !.place = place, !.name = name,
                                !.call = thr[Main].call + 1])

\* An argument that is a file is the manifest, and the only one; of its path
\* only the last part is kept.
First == IF set.files THEN Len(ManifestNames) ELSE 1
Where == IF set.files \/ Nameless(set.line) THEN "here" ELSE "dir"

Argument ==
    LET f == thr[Main]
        failed == f.rc # 0 /\ f.place = "dir"
    IN
    /\ Running(Main, "arg")
    /\ \/ /\ failed
          /\ BuildPackage(f.pkg, "slug", 1)
          /\ UNCHANGED <<todo, status>>
       \/ /\ ~failed /\ todo # <<>>
          /\ BuildPackage(Head(todo), Where, First)
          /\ todo' = Tail(todo)
          /\ UNCHANGED status
       \/ /\ ~failed /\ todo = <<>>
          /\ status' = "exited"
          /\ UNCHANGED <<thr, todo>>
    /\ Only(<<done, ran, lost, dangling>>)

Library(t) ==
    /\ status = "running"
    /\ MakePackage(t)
    /\ UNCHANGED buildVars

Step(t) == \/ Start(t) \/ Enter(t) \/ Read(t) \/ Own(t)
           \/ Make(t) \/ PrintFlags(t) \/ Configure(t) \/ Mark(t)
           \/ Dep(t) \/ LoseDependency(t) \/ LoseAll(t) \/ Create(t) \/ CreateFails(t) \/ Join(t) \/ EndOfList(t)
           \/ Library(t)

\* What a program tells the library: nothing of the concurrency.
ProgramOpts == [DefaultOpts EXCEPT !.skip_cache = set.skip_cache, !.concurrency = 0]

\* The two mains up to their loops over the arguments.
BuildMain == /\ command = "build"
             /\ opts = SetOpts(DefaultOpts, ProgramOpts)
             /\ todo = Arguments(set.line, set.here)

ConfigureMain == /\ command = "configure"
                 /\ opts = SetOpts(DefaultOpts, ProgramOpts)
                 /\ todo = Arguments(set.line, set.here)

Init ==
    /\ PackageInit
    /\ \E s \in Scenarios : /\ cat = s.cat
                           /\ command = s.command
                           /\ set = s.set
                           /\ json = s.json
    /\ BuildMain \/ ConfigureMain
    /\ thr = [t \in Callers |-> IF t = Main THEN [Nobody EXCEPT !.pc = "arg"] ELSE Nobody]
    /\ done = [key \in Keys |-> "none"]
    /\ status = "running"
    /\ ran = [at \in Pkgs \X Places |-> 0]
    /\ lost = FALSE
    /\ dangling = FALSE

Next == Argument \/ \E t \in Callers : Step(t)

\* Every thread runs, every command and every download ends.
Spec == Init /\ [][Next]_vars /\ WF_vars(Argument) /\ \A t \in Callers : WF_vars(Step(t))

-----------------------------------------------------------------------------
TypeOK ==
    /\ lock \in Callers \cup {NoThread}
    /\ get \in [Callers -> Call]
    /\ json \in [Pkgs -> Entry]
    /\ thr \in [Callers -> Thread]
    /\ done \in [Keys -> {"none", "t", "f"}]
    /\ status \in {"running", "exited", "crashed"}
    /\ ran \in [Pkgs \X Places -> Nat]

Lists == IF set.dev THEN {"deps", "dev"} ELSE {"deps"}

Wanted(p) == UNION {{cat[p][l][i] : i \in DOMAIN cat[p][l]} : l \in Lists}

\* Roots and all they lead to, and nothing else.
LedTo(roots) == {p \in Pkgs : \A s \in SUBSET Pkgs :
                     roots \subseteq s /\ (\A q \in s : Wanted(q) \subseteq s) => p \in s}

Args == Arguments(set.line, set.here)

\* What main goes through.
Reached == LedTo({Args[i] : i \in DOMAIN Args})

\* What the user names, by the usage "[options] [name ...]": the words before a `--`
\* that are no options, and without any the current directory.
Spoken(line) == {i \in Named(line) : \A j \in 1..i : line[j] # "--"}

Meant(line, here) == IF Spoken(line) = {} THEN {here} ELSE {line[i] : i \in Spoken(line)}

\* What a run is asked for.
Asked == LedTo(Meant(set.line, set.here))

\* The lines the programs read as their users mean them: names come first, and no `--`
\* comes after them.
Plain(line) ==
    Spoken(line) # {} => /\ Spoken(line) = 1..Cardinality(Named(line))
                         /\ \A i \in DOMAIN line : line[i] # "--"

\* The places a package is wanted in: an argument or a dependency of somebody's.
Askers(p) ==
    {<<"main", "args", i>> : i \in {j \in DOMAIN Args : Args[j] = p}}
    \cup UNION {{q} \X {l} \X {i \in DOMAIN cat[q][l] : cat[q][l][i] = p} : q \in Reached, l \in Lists}

Shared == \E p \in Reached : \E a, b \in Askers(p) : a # b

(* In one place a package's command runs at most once when threads cannot   *)
(* meet at a package: one child at a time, or no package wanted twice.      *)
(* Else two threads can both find it not done, since it is entered in the   *)
(* hash only after its command (clib-build.c:182, :302).  A lost manifest   *)
(* makes the run start a package again under its other name.                *)
Once == ~lost /\ (set.concurrency = 1 \/ ~Shared) => \A at \in DOMAIN ran : ran[at] <= 1

(* The program exits with an entry for every package its command line       *)
(* names and all that these lead to, dependency cycles included, unless a   *)
(* manifest was lost on the way (clib-build.c:321-391, :583, :697-739).     *)
NamesBuilt ==
    status = "exited" /\ ~lost => \A p \in Asked : \E key \in Keys : key[1] = p /\ done[key] # "none"

(* It does so for the command lines it reads as they are meant: for others  *)
(* see the run that shows NamesBuilt violated.                              *)
Complete == Plain(set.line) => NamesBuilt

(* The tree of threads does its work: every command once, and all of them.  *)
TreeBuilt == TypeOK /\ Once /\ Complete

(* A child reads its directory from the frame of a parent still in that     *)
(* call, and the program exits with every other thread ended, until a       *)
(* dependency's manifest is lost: then clib-build returns without joining   *)
(* the children it has started (clib-build.c:347-350).                      *)
ParentsWait ==
    ~lost => /\ ~dangling
             /\ status = "exited" => \A t \in Callers \ {Main} : ~Alive(t)

(* Every run ends, on a cycle of dependencies too: the threads waiting in   *)
(* pthread_join never wait on one another in a circle.                      *)
Ends == <>(status # "running")
==============================================================================
