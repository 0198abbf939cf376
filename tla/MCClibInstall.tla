---------------------------- MODULE MCClibInstall ----------------------------
(* clib-install, clib-update and clib-upgrade over three packages.          *)
EXTENDS ClibInstall

P(src, deps) ==
    [src |-> src, files |-> NoList, deps |-> deps, dev |-> <<>>,
     makefile |-> "none", configure |-> FALSE, install |-> FALSE]

Leaf(src) == P(src, <<>>)
Bare == [Leaf(NoList) EXCEPT !.files = <<"x">>]
Makes(p) == [p EXCEPT !.makefile = "z", !.configure = TRUE]
Installs(p) == [p EXCEPT !.install = TRUE]
Dev(p, list) == [p EXCEPT !.dev = list]

Cat(a, b, c) == [p \in Pkgs |-> CASE p = "a" -> a [] p = "b" -> b [] p = "c" -> c]

All(v) == [f \in Paths |-> v]
NoDisk == [d \in Dirs \X Pkgs |-> All("none")]
NoCache == [p \in Pkgs |-> [age |-> "none", copy |-> All("none")]]
NoJson == [p \in Pkgs |-> "none"]
Empty == [deps |-> <<>>, dev |-> <<>>]

Cmd(program, args) ==
    [program |-> program, args |-> args, dev |-> FALSE, verbose |-> FALSE, save |-> "no",
     manifests |-> <<"none", "none">>, given |-> Empty, twins |-> FALSE, leftover |-> FALSE]

Opts(n) == [DefaultOpts EXCEPT !.skip_cache = FALSE, !.concurrency = n]

Sc(c, cm, o) == [cat |-> c, cmd |-> cm, opts |-> o, json |-> NoJson, cache |-> NoCache,
                 disk |-> NoDisk, root |-> cm.given]

Cached(s, p, age, x) == [s EXCEPT !.cache[p] = [age |-> age, copy |-> [All("none") EXCEPT !["x"] = x]]]

\* More sources than slots, and as many; no slot at all.
Slots == {Sc(Cat(Leaf(<<"x", "y", "z">>), Bare, Bare), Cmd("install", <<"a">>), Opts(1))}
         \cup {Sc(Cat(Leaf(<<"x", "y">>), Bare, Bare), Cmd("install", <<"a">>), Opts(n)) : n \in {-1, 2}}

\* A package with a makefile and a script, and its dependencies in a circle.
Circle == {Sc(Cat(Makes(P(<<"x">>, <<"b">>)), P(<<"y">>, <<"a", "c">>), Bare),
              Cmd("install", <<"a", "c">>), Opts(1)),
           Sc(Cat(Makes(P(<<"x">>, <<"b">>)), P(<<"x", "y">>, <<"a", "c">>), Leaf(NoList)),
              Cmd("install", <<"a", "c">>), Opts(2))}

\* An executable, unpacked with its dependencies; the messages of the threads.
Executable == {Sc(Cat(Installs(P(<<"x">>, <<"b">>)), Bare, Bare),
                  [Cmd("install", <<"a">>) EXCEPT !.verbose = TRUE], Opts(1))}

\* Copies in the cache: whole, in part, too old, and to be skipped.
Copies == {[Cached(Sc(Cat(P(<<"x">>, <<"b">>), Leaf(<<"x">>), Bare), Cmd("install", <<"a">>),
                      [Opts(1) EXCEPT !.skip_cache = skip]), "b", age, "full")
               EXCEPT !.json["b"] = "fresh"] :
              skip \in BOOLEAN, age \in {"fresh", "old"}}

\* A manifest that names a file twice; half a file from an earlier run.
Files == {Sc(Cat(Leaf(<<"x", "x">>), Bare, Bare), [Cmd("install", <<"a">>) EXCEPT !.twins = TRUE], Opts(2)),
          [Sc(Cat(Leaf(<<"x", "y">>), Bare, Bare), [Cmd("install", <<"a">>) EXCEPT !.leftover = TRUE], Opts(2))
              EXCEPT !.disk[<<"deps", "a">>]["x"] = "part"]}

\* The project's own manifest, alone and among the arguments, with and without --save.
Project == {Sc(Cat(Dev(Leaf(<<"x">>), <<"b">>), P(NoList, <<"c">>), [Leaf(NoList) EXCEPT !.configure = TRUE]),
               [Cmd("install", args) EXCEPT !.dev = dev, !.save = save, !.manifests = m,
                    !.given = [deps |-> <<"b">>, dev |-> <<"a">>]], Opts(1)) :
               args \in {<<>>, <<"c", "here", "c">>, <<"file", "a">>},
               dev \in BOOLEAN, save \in {"no", "deps"},
               m \in {<<"good", "none">>, <<"bad", "good">>}}

Nowhere == {Sc(Cat(Bare, Bare, Bare), Cmd("install", <<>>), Opts(1))}

\* The other two programs: everything again, and nothing but the executable.
Others == {Sc(Cat(P(<<"x">>, <<"b">>), Leaf(<<"x", "y">>), Bare), Cmd("update", <<"a">>), Opts(1)),
           Sc(Cat(Installs(P(<<"x">>, <<"b">>)), Makes(Bare), Bare), Cmd("upgrade", <<"a">>), Opts(1))}

TheScenarios == Slots \cup Circle \cup Executable \cup Copies \cup Files \cup Project \cup Nowhere \cup Others
==============================================================================
