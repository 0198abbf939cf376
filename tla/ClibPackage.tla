----------------------------- MODULE ClibPackage -----------------------------
(***************************************************************************)
(* clib (hw8/clib): how clib-package.c makes a package from a slug.  The   *)
(* manifest is taken from the cache of manifests (clib-cache.c) or fetched *)
(* over HTTP, under two names and with three tries each, and written back  *)
(* to the cache.  The cache is guarded by the library's mutex `lock`, which*)
(* the commands' other threads take as well.                               *)
(*                                                                         *)
(* A caller is a thread inside clib_package_new_from_slug_with_package_name*)
(* and get[t] is that call's frame.  The mutex is a default pthread mutex: *)
(* unlocking it releases it whoever holds it, and does nothing to a free   *)
(* one (what glibc does with the misuse POSIX leaves undefined).           *)
(***************************************************************************)
EXTENDS Integers, Sequences, FiniteSets

CONSTANTS Callers,    \* the threads that make packages
          Pkgs,       \* the packages, a slug each
          Retries,    \* `retries`, 3 in the code
          MaxFaults,  \* bound: how often the network or the clock misbehaves in a run
          NoThread    \* the mutex is free

ASSUME CallersAssumption == NoThread \notin Callers
ASSUME RetriesAssumption == Retries \in Nat \ {0}

VARIABLES opts,      \* the static `opts` of clib-package.c
          lock,      \* holder of the static `lock.mutex`
          get,       \* the calls
          json,      \* the cache of manifests
          faults,    \* how often they have
          retried,   \* history: the mutex was unlocked by a caller that did not hold it
          torn       \* history: a half-written manifest was read from the cache

pkgVars == <<opts, lock, get, json, faults, retried, torn>>

ManifestNames == <<"clib.json", "package.json">>

Call == [pc : {"idle", "ask", "held", "get", "save", "saving", "ok", "null"},
         pkg : Pkgs, name : DOMAIN ManifestNames, left : 1..Retries]

Idle == [pc |-> "idle", pkg |-> CHOOSE p \in Pkgs : TRUE, name |-> 1, left |-> Retries]

\* Nothing, an entry being written, one younger than the expiration, an expired one.
Entry == {"none", "part", "fresh", "old"}

-----------------------------------------------------------------------------
(* The options. *)

\* `opts` before a command sets its own.
DefaultOpts == [skip_cache |-> TRUE, force |-> FALSE, global |-> FALSE, concurrency |-> 4]

\* clib_package_set_opts: flags are copied; a concurrency of 0 leaves the one
\* there is, and a negative one becomes 0.
SetOpts(old, o) ==
    [o EXCEPT !.concurrency = IF o.concurrency = 0 THEN old.concurrency
                              ELSE IF o.concurrency < 0 THEN 0 ELSE o.concurrency]

-----------------------------------------------------------------------------
(* clib_package_new_from_slug, one action per step other threads can see. *)

InSection(t) == get[t].pc \in {"held", "saving"}

At(t, pc) == get[t].pc = pc

Goto(t, pc) == get' = [get EXCEPT ![t].pc = pc]

Fault == faults < MaxFaults /\ faults' = faults + 1

\* The next name of the manifest, or no package.
NextName(t) ==
    LET c == get[t] IN
    get' = [get EXCEPT ![t] = IF c.name < Len(ManifestNames)
                              THEN [c EXCEPT !.pc = "ask", !.name = c.name + 1, !.left = Retries]
                              ELSE [c EXCEPT !.pc = "null"]]

NewFromSlug(t, p) ==
    /\ At(t, "idle")
    /\ get' = [get EXCEPT ![t] = [pc |-> "ask", pkg |-> p, name |-> 1, left |-> Retries]]
    /\ UNCHANGED <<opts, lock, json, faults, retried, torn>>

LockAnyway(t) ==    \* mutant: the mutex is not waited for
    /\ At(t, "ask")
    /\ lock' = t
    /\ Goto(t, "held")
    /\ UNCHANGED <<opts, json, faults, retried, torn>>

Lock(t) ==
    /\ At(t, "ask")
    /\ lock = NoThread
    /\ lock' = t
    /\ Goto(t, "held")
    /\ UNCHANGED <<opts, json, faults, retried, torn>>

\* clib_cache_has_json and clib_cache_read_json succeed.  What is read is
\* parsed; half a manifest is none.
Hit(t) ==
    LET e == json[get[t].pkg] IN
    /\ At(t, "held")
    /\ e \in {"part", "fresh"}
    /\ ~opts.skip_cache
    /\ lock' = NoThread
    /\ torn' = (torn \/ e = "part")
    /\ IF e = "part" THEN NextName(t) ELSE Goto(t, "save")
    /\ UNCHANGED <<opts, json, faults, retried>>

\* The entry expires between clib_cache_has_json and clib_cache_read_json.
Expire(t) ==
    /\ At(t, "held")
    /\ json[get[t].pkg] = "fresh"
    /\ ~opts.skip_cache
    /\ json' = [json EXCEPT ![get[t].pkg] = "old"]
    /\ lock' = NoThread
    /\ Goto(t, "get")
    /\ Fault
    /\ UNCHANGED <<opts, retried, torn>>

MissKeepsLock(t) ==    \* mutant: a path without the unlock
    LET e == json[get[t].pkg] IN
    /\ At(t, "held")
    /\ e \in {"none", "old"} \/ opts.skip_cache
    /\ json' = [json EXCEPT ![get[t].pkg] = IF @ \in {"part", "fresh"} THEN "none" ELSE @]
    /\ Goto(t, "get")
    /\ UNCHANGED <<opts, lock, faults, retried, torn>>

\* No entry, an expired one, or one the options say to delete.
Miss(t) ==
    LET e == json[get[t].pkg] IN
    /\ At(t, "held")
    /\ e \in {"none", "old"} \/ opts.skip_cache
    /\ json' = [json EXCEPT ![get[t].pkg] = IF @ \in {"part", "fresh"} THEN "none" ELSE @]
    /\ lock' = NoThread
    /\ Goto(t, "get")
    /\ UNCHANGED <<opts, faults, retried, torn>>

\* The answer is a manifest.
Receive(t) ==
    /\ At(t, "get")
    /\ Goto(t, "save")
    /\ UNCHANGED <<opts, lock, json, faults, retried, torn>>

\* The answer does not parse, or has an entry that is not a string.
Garbage(t) ==
    /\ At(t, "get")
    /\ NextName(t)
    /\ Fault
    /\ UNCHANGED <<opts, lock, json, retried, torn>>

\* No answer: `goto download` unlocks the mutex once more.
Refused(t) ==
    /\ At(t, "get")
    /\ lock' = NoThread
    /\ retried' = TRUE
    /\ IF get[t].left = 1 THEN NextName(t)
       ELSE get' = [get EXCEPT ![t].left = get[t].left - 1]
    /\ Fault
    /\ UNCHANGED <<opts, json, torn>>

\* clib_cache_save_json: fs_write truncates the entry and then writes it.
Save(t) ==
    /\ At(t, "save")
    /\ lock = NoThread
    /\ lock' = t
    /\ json' = [json EXCEPT ![get[t].pkg] = "part"]
    /\ Goto(t, "saving")
    /\ UNCHANGED <<opts, faults, retried, torn>>

Saved(t) ==
    /\ At(t, "saving")
    /\ json' = [json EXCEPT ![get[t].pkg] = "fresh"]
    /\ lock' = NoThread
    /\ Goto(t, "ok")
    /\ UNCHANGED <<opts, faults, retried, torn>>

MakePackage(t) == \/ Lock(t) \/ Hit(t) \/ Expire(t) \/ Miss(t)
                  \/ Receive(t) \/ Garbage(t) \/ Refused(t)
                  \/ Save(t) \/ Saved(t)

\* The caller goes on with the package, or without.
Return(t) ==
    /\ get[t].pc \in {"ok", "null"}
    /\ get' = [get EXCEPT ![t] = Idle]
    /\ UNCHANGED <<opts, lock, json, faults, retried, torn>>

PackageInit ==
    /\ lock = NoThread
    /\ get = [t \in Callers |-> Idle]
    /\ faults = 0
    /\ retried = FALSE
    /\ torn = FALSE

PackageNext == \E t \in Callers : MakePackage(t) \/ Return(t) \/ \E p \in Pkgs : NewFromSlug(t, p)

PackageSpec == PackageInit /\ json \in [Pkgs -> {"none", "fresh", "old"}] /\ [][PackageNext]_pkgVars

-----------------------------------------------------------------------------
(* Two threads are in the sections of the mutex together only after a      *)
(* download was retried: the retry's unlock is the only one that can       *)
(* release the mutex under another thread (clib-package.c:630-753).        *)
Exclusive == ~retried => \A t, u \in Callers : InSection(t) /\ InSection(u) => t = u

(* Until then nobody reads a manifest from the cache while another thread  *)
(* is writing it (clib-package.c:639, :744).                               *)
WholeManifest == torn => retried

(* The mutex keeps the cache of manifests until a download is retried.     *)
CacheGuarded == Exclusive /\ WholeManifest
==============================================================================
