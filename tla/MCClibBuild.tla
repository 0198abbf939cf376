----------------------------- MODULE MCClibBuild -----------------------------
(* clib-build and clib-configure over three packages and an option.         *)
EXTENDS ClibBuild

P(local, cmd, deps, dev) ==
    [local |-> local, command |-> cmd, flags |-> cmd, deps |-> deps, dev |-> dev]

Here == <<"good", "none">>
There == <<"none", "good">>
Nowhere == <<"none", "none">>
NoSuch == P(Nowhere, FALSE, <<>>, <<>>)

\* "b" is wanted by the root and by "a".
Diamond == [p \in Pkgs |-> CASE p = "r" -> P(Here, FALSE, <<"a", "b">>, <<>>)
                             [] p = "a" -> P(Here, TRUE, <<"b">>, <<>>)
                             [] p = "b" -> P(Here, TRUE, <<>>, <<>>)
                             [] OTHER -> NoSuch]
\* Two children that share nothing, and "a" wanted again.
Fan == [p \in Pkgs |-> CASE p = "r" -> P(Here, FALSE, <<"a", "b", "a">>, <<>>)
                         [] p \in {"a", "b"} -> P(Here, TRUE, <<>>, <<>>)
                         [] OTHER -> NoSuch]
\* "a" leads back to the root.
Cycle == [p \in Pkgs |-> CASE p = "r" -> P(Here, TRUE, <<"a">>, <<"b">>)
                           [] p = "a" -> P(Here, FALSE, <<"r">>, <<>>)
                           [] p = "b" -> P(<<"bad", "good">>, TRUE, <<>>, <<>>)
                           [] OTHER -> NoSuch]
\* The root is wanted by itself, by way of "a", and has two manifests.
Loop == [p \in Pkgs |-> CASE p = "r" -> P(<<"good", "good">>, TRUE, <<"a">>, <<>>)
                          [] p = "a" -> P(Here, TRUE, <<"r">>, <<>>)
                          [] p = "b" -> P(Here, FALSE, <<>>, <<>>)
                          [] OTHER -> NoSuch]
\* The root's two lists; "b" has no manifest in its directory.
Tree == [p \in Pkgs |-> CASE p = "r" -> P(There, TRUE, <<"a">>, <<"b">>)
                          [] p = "a" -> P(Here, TRUE, <<>>, <<>>)
                          [] OTHER -> NoSuch]

\* Neither of the root's manifests can be read.
Broken == [p \in Pkgs |-> CASE p = "r" -> P(<<"bad", "bad">>, TRUE, <<"a">>, <<>>)
                            [] p \in {"a", "b"} -> P(Here, TRUE, <<>>, <<>>)
                            [] OTHER -> NoSuch]

S(dev, n, skip, nothread, line) ==
    [dev |-> dev, concurrency |-> n, skip_cache |-> skip, nothread |-> nothread, line |-> line,
     here |-> "r", files |-> FALSE, flags |-> FALSE]

J(r, a, b) == [p \in Pkgs |-> CASE p = "r" -> r [] p = "a" -> a [] p = "b" -> b [] OTHER -> "none"]

Sc(c, cmd, s, j) == [cat |-> c, command |-> cmd, set |-> s, json |-> j]


None == J("none", "none", "none")
Some == J("none", "fresh", "old")

Both == {"build", "configure"}

TheScenarios ==
    {Sc(Diamond, c, S(FALSE, n, skip, FALSE, <<>>), Some) : c \in Both, n \in 1..2, skip \in BOOLEAN}
    \cup {Sc(Cycle, c, S(TRUE, n, FALSE, FALSE, <<"-d">>), None) : c \in Both, n \in 1..2}
    \cup {Sc(Tree, c, S(dev, n, FALSE, nothread, <<"r", "b">>), Some) :
         c \in Both, n \in 1..2, dev \in BOOLEAN, nothread \in BOOLEAN}
    \cup {Sc(Fan, "build", S(FALSE, n, FALSE, FALSE, <<"a", "--", "b">>), None) : n \in 1..3}
    \cup {Sc(Broken, c, S(FALSE, 1, FALSE, FALSE, line), Some) : c \in Both, line \in {<<"r", "b">>, <<>>}}
    \cup {Sc(Loop, "build", [S(FALSE, n, FALSE, FALSE, line) EXCEPT !.files = f], None) :
         n \in 1..2, f \in BOOLEAN, line \in {<<>>, <<"r">>}}
    \cup {Sc(Tree, "configure", [S(TRUE, 1, FALSE, FALSE, <<"r">>) EXCEPT !.flags = TRUE, !.files = f], Some) :
         f \in BOOLEAN}
    \cup {Sc(Tree, c, S(TRUE, n, FALSE, FALSE, <<"-d", "a">>), None) : c \in Both, n \in 1..2}

\* "a" is behind the dashes, and so an argument of make.
Misread == {Sc(Tree, "build", S(FALSE, 1, FALSE, FALSE, <<"b", "--", "a">>), Some)}
==============================================================================
