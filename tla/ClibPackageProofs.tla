-------------------------- MODULE ClibPackageProofs --------------------------
(***************************************************************************)
(* Proofs about ClibPackage, for any threads, packages, retries and faults,*)
(* and about ClibBuild, whose threads run it, for anything that is built.  *)
(***************************************************************************)
EXTENDS ClibBuild, FiniteSetTheorems, SequenceTheorems, WellFoundedInduction, TLAPS

Types ==
    /\ lock \in Callers \cup {NoThread}
    /\ get \in [Callers -> Call]
    /\ json \in [Pkgs -> Entry]
    /\ faults \in Nat
    /\ retried \in BOOLEAN
    /\ torn \in BOOLEAN

\* While no unlock has been one too many: who is in a section has the mutex, a
\* manifest is half-written only by a thread in the middle of writing it, and no
\* half of one has been read.
Guarded ==
    ~retried =>
        /\ \A t \in Callers : InSection(t) => lock = t
        /\ \A p \in Pkgs : json[p] = "part" =>
               \E t \in Callers : get[t].pc = "saving" /\ get[t].pkg = p
        /\ ~torn

Inv == Types /\ Guarded

-----------------------------------------------------------------------------
\* What a call becomes is a call.
LEMMA CallStep ==
  ASSUME NEW c \in Call, NEW pc \in {"idle", "ask", "held", "get", "save", "saving", "ok", "null"}
  PROVE  [c EXCEPT !.pc = pc] \in Call
  BY DEF Call

\* Trying the next name of the manifest leaves a call a call (clib-package.c:797-803).
LEMMA NextNameType ==
  ASSUME Types, NEW t \in Callers, NextName(t)
  PROVE  /\ get' \in [Callers -> Call]
         /\ get'[t].pc \in {"ask", "null"}
         /\ \A u \in Callers \ {t} : get'[u] = get[u]
<1> DEFINE c == IF get[t].name < Len(ManifestNames)
                THEN [get[t] EXCEPT !.pc = "ask", !.name = get[t].name + 1, !.left = Retries]
                ELSE [get[t] EXCEPT !.pc = "null"]
<1>1. get' = [get EXCEPT ![t] = c]
  BY DEF NextName
<1>2. get[t] \in Call
  BY DEF Types
<1>3. Len(ManifestNames) = 2 /\ DOMAIN ManifestNames = 1..2
  BY DEF ManifestNames
<1>4. c \in Call /\ c.pc \in {"ask", "null"}
  <2>1. get[t].name \in 1..2 /\ Retries \in 1..Retries
    BY <1>2, <1>3, RetriesAssumption DEF Call
  <2>2. CASE get[t].name < 2
    <3>1. c = [get[t] EXCEPT !.pc = "ask", !.name = get[t].name + 1, !.left = Retries]
      BY <1>3, <2>2
    <3>2. get[t].name + 1 \in DOMAIN ManifestNames
      BY <1>3, <2>1, <2>2
    <3> QED
      BY <1>2, <2>1, <3>1, <3>2 DEF Call
  <2>3. CASE ~(get[t].name < 2)
    <3>1. c = [get[t] EXCEPT !.pc = "null"]
      BY <1>3, <2>3
    <3> QED
      BY <1>2, <3>1, CallStep DEF Call
  <2> QED
    BY <2>2, <2>3
<1> HIDE DEF c
<1> QED
  BY <1>1, <1>4 DEF Types

\* A call that a step leaves outside the sections, with the mutex where it was
\* or free, keeps the rest of the calls guarded.
LEMMA OutsideStep ==
  ASSUME Inv, NEW t \in Callers,
         get' \in [Callers -> Call], \A u \in Callers \ {t} : get'[u] = get[u],
         get'[t].pc \notin {"held", "saving"}, get[t].pc # "saving",
         UNCHANGED <<json, retried, torn>>,
         lock' = lock \/ InSection(t)
  PROVE  Guarded'
<1> SUFFICES ASSUME ~retried
             PROVE  /\ \A u \in Callers : InSection(u)' => lock' = u
                    /\ \A p \in Pkgs : json'[p] = "part" =>
                           \E u \in Callers : get'[u].pc = "saving" /\ get'[u].pkg = p
                    /\ ~torn'
  BY DEF Guarded
<1>1. ASSUME NEW u \in Callers, InSection(u)'
      PROVE  lock' = u
  <2>1. u # t /\ InSection(u)
    BY <1>1 DEF InSection
  <2>2. lock = u
    BY <2>1 DEF Inv, Guarded
  <2>3. ~InSection(t)
    BY <2>1, <2>2 DEF Inv, Guarded
  <2> QED
    BY <2>2, <2>3
<1>2. ASSUME NEW p \in Pkgs, json'[p] = "part"
      PROVE  \E u \in Callers : get'[u].pc = "saving" /\ get'[u].pkg = p
  <2>1. PICK u \in Callers : get[u].pc = "saving" /\ get[u].pkg = p
    BY <1>2 DEF Inv, Guarded
  <2> QED
    BY <2>1
<1> QED
  BY <1>1, <1>2 DEF Inv, Guarded

-----------------------------------------------------------------------------
\* Before any call nobody is in the section and no manifest is half-written.
LEMMA InitInv ==
  ASSUME Pkgs # {}, PackageInit, json \in [Pkgs -> {"none", "fresh", "old"}]
  PROVE  Inv
<1>1. Idle \in Call
  BY RetriesAssumption DEF Idle, Call, ManifestNames
<1>2. Types
  BY <1>1 DEF PackageInit, Types, Entry
<1>3. Guarded
  BY DEF PackageInit, Guarded, InSection, Idle
<1> QED
  BY <1>2, <1>3 DEF Inv

\* A step keeps the types.
LEMMA StepTypes ==
  ASSUME Types, PackageNext
  PROVE  Types'
<1>1. PICK t \in Callers : MakePackage(t) \/ Return(t) \/ \E p \in Pkgs : NewFromSlug(t, p)
  BY DEF PackageNext
<1>2. get[t] \in Call /\ get[t].pkg \in Pkgs
  BY DEF Types, Call
<1>3. ASSUME NEW pc \in {"idle", "ask", "held", "get", "save", "saving", "ok", "null"}, Goto(t, pc)
      PROVE  get' \in [Callers -> Call]
  <2>1. [get[t] EXCEPT !.pc = pc] \in Call
    BY <1>2, CallStep
  <2> QED
    BY <1>3, <2>1 DEF Goto, Types
<1>4. Fault => faults' \in Nat
  BY DEF Fault, Types
<1>5. CASE Lock(t)
  BY <1>3, <1>5 DEF Lock, Types
<1>6. CASE Hit(t)
  <2>1. get' \in [Callers -> Call]
    BY <1>3, <1>6, NextNameType DEF Hit
  <2> QED
    BY <1>6, <2>1 DEF Hit, Types
<1>7. CASE Expire(t)
  <2>1. get' \in [Callers -> Call] /\ faults' \in Nat
    BY <1>3, <1>4, <1>7 DEF Expire
  <2>2. json' \in [Pkgs -> Entry]
    BY <1>7 DEF Expire, Types, Entry
  <2> QED
    BY <1>7, <2>1, <2>2 DEF Expire, Types
<1>8. CASE Miss(t)
  <2>1. get' \in [Callers -> Call]
    BY <1>3, <1>8 DEF Miss
  <2>2. json' \in [Pkgs -> Entry]
    BY <1>8 DEF Miss, Types, Entry
  <2> QED
    BY <1>8, <2>1, <2>2 DEF Miss, Types
<1>9. CASE Receive(t)
  BY <1>3, <1>9 DEF Receive, Types
<1>10. CASE Garbage(t)
  <2>1. get' \in [Callers -> Call] /\ faults' \in Nat
    BY <1>4, <1>10, NextNameType DEF Garbage
  <2> QED
    BY <1>10, <2>1 DEF Garbage, Types
<1>11. CASE Refused(t)
  <2>1. get[t].left # 1 => [get[t] EXCEPT !.left = get[t].left - 1] \in Call
    BY <1>2, <1>11, RetriesAssumption DEF Refused, Call
  <2>2. get' \in [Callers -> Call] /\ faults' \in Nat
    BY <1>4, <1>11, <2>1, NextNameType DEF Refused, Types
  <2> QED
    BY <1>11, <2>2 DEF Refused, Types
<1>12. CASE Save(t)
  <2>1. get' \in [Callers -> Call]
    BY <1>3, <1>12 DEF Save
  <2>2. json' \in [Pkgs -> Entry]
    BY <1>12 DEF Save, Types, Entry
  <2> QED
    BY <1>12, <2>1, <2>2 DEF Save, Types
<1>13. CASE Saved(t)
  <2>1. get' \in [Callers -> Call]
    BY <1>3, <1>13 DEF Saved
  <2>2. json' \in [Pkgs -> Entry]
    BY <1>13 DEF Saved, Types, Entry
  <2> QED
    BY <1>13, <2>1, <2>2 DEF Saved, Types
<1>14. CASE Return(t)
  <2>1. Idle \in Call
    BY <1>2, RetriesAssumption DEF Idle, Call, ManifestNames
  <2> QED
    BY <1>14, <2>1 DEF Return, Types
<1>15. ASSUME NEW p \in Pkgs, NewFromSlug(t, p)
       PROVE  Types'
  <2>1. [pc |-> "ask", pkg |-> p, name |-> 1, left |-> Retries] \in Call
    BY RetriesAssumption DEF Call, ManifestNames
  <2> QED
    BY <1>15, <2>1 DEF NewFromSlug, Types
<1> QED
  BY <1>1, <1>5, <1>6, <1>7, <1>8, <1>9, <1>10, <1>11, <1>12, <1>13, <1>14, <1>15
     DEF MakePackage

\* A step keeps the mutex's promise.
LEMMA StepGuarded ==
  ASSUME Inv, PackageNext, Types'
  PROVE  Guarded'
<1>1. PICK t \in Callers : MakePackage(t) \/ Return(t) \/ \E p \in Pkgs : NewFromSlug(t, p)
  BY DEF PackageNext
<1>2. get' \in [Callers -> Call] /\ get \in [Callers -> Call] /\ get[t] \in Call /\ json \in [Pkgs -> Entry]
  BY DEF Inv, Types
<1>3. ASSUME NEW pc \in {"idle", "ask", "held", "get", "save", "saving", "ok", "null"}, Goto(t, pc)
      PROVE  /\ get'[t].pc = pc /\ get'[t].pkg = get[t].pkg
             /\ \A u \in Callers \ {t} : get'[u] = get[u]
  BY <1>2, <1>3 DEF Goto, Call
<1>4. CASE Lock(t)
  <2>1. \A u \in Callers \ {t} : get'[u] = get[u]
    BY <1>3, <1>4 DEF Lock
  <2>2. ~retried => \A u \in Callers : ~InSection(u)
    BY <1>4, CallersAssumption DEF Lock, Inv, Guarded
  <2>3. ASSUME ~retried', NEW u \in Callers, InSection(u)' PROVE lock' = u
    BY <1>4, <2>1, <2>2, <2>3 DEF Lock, InSection
  <2>4. ASSUME ~retried', NEW p \in Pkgs, json'[p] = "part" PROVE FALSE
    BY <1>4, <2>2, <2>4 DEF Lock, InSection, Inv, Guarded
  <2> QED
    BY <1>4, <2>3, <2>4 DEF Lock, Inv, Guarded
<1>5. CASE Hit(t)
  <2>1. ~retried => json[get[t].pkg] # "part"
    BY <1>2, <1>5 DEF Hit, At, Inv, Guarded, InSection, Call
  <2>2. \A u \in Callers \ {t} : get'[u] = get[u]
    BY <1>3, <1>5, NextNameType DEF Hit, Inv
  <2>3. get'[t].pc \notin {"held", "saving"} /\ get[t].pc = "held"
    BY <1>3, <1>5, NextNameType DEF Hit, At, Inv
  <2>4. CASE retried
    BY <1>5, <2>4 DEF Hit, Guarded
  <2>5. CASE ~retried
    <3>1. torn' = torn
      <4>1. torn' = (torn \/ json[get[t].pkg] = "part")
        BY <1>5 DEF Hit
      <4>2. ~torn /\ torn \in BOOLEAN
        BY <2>5 DEF Inv, Types, Guarded
      <4> QED
        BY <2>1, <2>5, <4>1, <4>2, Zenon
    <3> QED
      BY <1>2, <1>5, <2>2, <2>3, <3>1, OutsideStep DEF Hit, InSection
  <2> QED
    BY <2>4, <2>5
<1>6. CASE Expire(t) \/ Miss(t)
  <2>1. /\ get[t].pc = "held" /\ get'[t].pc = "get"
        /\ \A u \in Callers \ {t} : get'[u] = get[u]
    BY <1>3, <1>6 DEF Expire, Miss, At
  <2>2. UNCHANGED <<retried, torn>> /\ \A p \in Pkgs : json'[p] = "part" => json[p] = "part"
    BY <1>2, <1>6 DEF Expire, Miss
  <2>3. ~retried => \A u \in Callers : InSection(u) => u = t
    BY <2>1 DEF Inv, Guarded, InSection
  <2>4. ASSUME ~retried', NEW u \in Callers, InSection(u)' PROVE FALSE
    BY <2>1, <2>2, <2>3, <2>4 DEF InSection
  <2>5. ASSUME ~retried', NEW p \in Pkgs, json'[p] = "part" PROVE FALSE
    BY <2>1, <2>2, <2>3, <2>5 DEF Inv, Guarded, InSection
  <2> QED
    BY <2>2, <2>4, <2>5 DEF Inv, Guarded
<1>7. CASE Receive(t)
  <2>1. get[t].pc = "get" /\ get'[t].pc = "save" /\ \A u \in Callers \ {t} : get'[u] = get[u]
    BY <1>3, <1>7 DEF Receive, At
  <2> QED
    BY <1>2, <1>7, <2>1, OutsideStep DEF Receive
<1>8. CASE Garbage(t)
  <2>1. /\ get[t].pc = "get" /\ get'[t].pc \in {"ask", "null"}
        /\ \A u \in Callers \ {t} : get'[u] = get[u]
    BY <1>8, NextNameType DEF Garbage, At, Inv
  <2> QED
    BY <1>2, <1>8, <2>1, OutsideStep DEF Garbage
<1>9. CASE Refused(t)
  BY <1>9 DEF Refused, Guarded
<1>10. CASE Save(t)
  <2>1. /\ get'[t].pc = "saving" /\ get'[t].pkg = get[t].pkg
        /\ \A u \in Callers \ {t} : get'[u] = get[u]
    BY <1>3, <1>10 DEF Save
  <2>2. ~retried => \A u \in Callers : ~InSection(u)
    BY <1>10, CallersAssumption DEF Save, Inv, Guarded
  <2>3. ASSUME ~retried', NEW u \in Callers, InSection(u)' PROVE lock' = u
    BY <1>10, <2>1, <2>2, <2>3 DEF Save, InSection
  <2>4. ASSUME ~retried', NEW p \in Pkgs, json'[p] = "part"
        PROVE  get'[t].pc = "saving" /\ get'[t].pkg = p
    <3>1. retried' = retried /\ json[p] # "part"
      BY <1>10, <2>2, <2>4 DEF Save, Inv, Guarded, InSection
    <3> QED
      BY <1>2, <1>10, <2>1, <2>4, <3>1 DEF Save
  <2> QED
    BY <1>10, <2>3, <2>4 DEF Save, Inv, Guarded
<1>11. CASE Saved(t)
  <2>1. /\ get[t].pc = "saving" /\ get'[t].pc = "ok"
        /\ \A u \in Callers \ {t} : get'[u] = get[u]
    BY <1>3, <1>11 DEF Saved, At
  <2>2. ~retried => \A u \in Callers : InSection(u) => u = t
    BY <2>1 DEF Inv, Guarded, InSection
  <2>3. ASSUME ~retried', NEW u \in Callers, InSection(u)' PROVE FALSE
    BY <1>11, <2>1, <2>2, <2>3 DEF Saved, InSection
  <2>4. ASSUME ~retried', NEW p \in Pkgs, json'[p] = "part" PROVE FALSE
    BY <1>2, <1>11, <2>1, <2>2, <2>4 DEF Saved, Inv, Guarded, InSection
  <2> QED
    BY <1>11, <2>3, <2>4 DEF Saved, Inv, Guarded
<1>12. CASE Return(t)
  <2>1. /\ get[t].pc \in {"ok", "null"} /\ get'[t].pc = "idle"
        /\ \A u \in Callers \ {t} : get'[u] = get[u]
    BY <1>2, <1>12 DEF Return, Idle
  <2> QED
    BY <1>2, <1>12, <2>1, OutsideStep DEF Return
<1>13. ASSUME NEW p \in Pkgs, NewFromSlug(t, p)
       PROVE  Guarded'
  <2>1. /\ get[t].pc = "idle" /\ get'[t].pc = "ask"
        /\ \A u \in Callers \ {t} : get'[u] = get[u]
    BY <1>2, <1>13 DEF NewFromSlug, At
  <2> QED
    BY <1>2, <1>13, <2>1, OutsideStep DEF NewFromSlug
<1> QED
  BY <1>1, <1>4, <1>5, <1>6, <1>7, <1>8, <1>9, <1>10, <1>11, <1>12, <1>13 DEF MakePackage

\* A step keeps both.
LEMMA StepInv == Inv /\ [PackageNext]_pkgVars => Inv'
<1> SUFFICES ASSUME Inv, [PackageNext]_pkgVars PROVE Inv'
  OBVIOUS
<1>1. CASE PackageNext
  BY <1>1, StepTypes, StepGuarded DEF Inv
<1>2. CASE UNCHANGED pkgVars
  BY <1>2 DEF pkgVars, Inv, Types, Guarded, InSection
<1> QED
  BY <1>1, <1>2

-----------------------------------------------------------------------------
\* The calls, the mutex and the cache keep their types, the mutex is with the
\* thread in its section, and only a writer leaves a manifest half-written, until
\* a retry unlocks it once too often (clib-package.c:629-764).
THEOREM PackageInvariant ==
  ASSUME Pkgs # {}
  PROVE  PackageSpec => []Inv
<1>1. PackageInit /\ json \in [Pkgs -> {"none", "fresh", "old"}] => Inv
  BY InitInv
<1> QED
  BY <1>1, StepInv, PTL DEF PackageSpec

\* No two threads are in the sections of the mutex, and no half of a manifest is
\* read from the cache, until then.
THEOREM ManifestsGuarded ==
  ASSUME Pkgs # {}
  PROVE  PackageSpec => []CacheGuarded
<1>1. Inv => CacheGuarded
  BY DEF Inv, Types, Guarded, CacheGuarded, Exclusive, WholeManifest
<1> QED
  BY <1>1, PackageInvariant, PTL

-----------------------------------------------------------------------------
(* The tree of threads of clib-build and clib-configure.                   *)

\* A thread's children: the threads in its slots.
Kids(f) == {u \in Callers : \E i \in DOMAIN f.slots : f.slots[i] = u}

\* Slots are filled between the first of a round and its joins; a round is joined
\* when the list is through.
Paced(f) ==
    /\ f.k \in Nat \ {0}
    /\ f.slots # <<>> => f.pc \in {"dep", "slug", "join"}
    /\ f.pc = "join" => f.slots # <<>>
    /\ f.pc = "dep" /\ f.slots # <<>> => f.k <= Len(cat[f.pkg][f.list])
    /\ f.pc = "slug" => f.k <= Len(cat[f.pkg][f.list])

\* A child is in the slots of its parent, which is still in the call that made it.
Hung ==
    \A u \in Callers \ {Main} : thr[u].pc # "none" =>
        /\ u \in Kids(thr[thr[u].parent])
        /\ thr[thr[u].parent].call = thr[u].born

\* A child is in one slot.
Apart(f) == \A i, j \in DOMAIN f.slots : f.slots[i] = f.slots[j] /\ f.slots[i] # NoChild => i = j

\* Slots hold children, each once.
Held ==
    \A t \in Callers :
        /\ \A u \in Kids(thr[t]) : u # Main /\ thr[u].pc # "none" /\ thr[u].parent = t
        /\ Apart(thr[t])

\* The threads are a tree: no set of them without main has all its parents in it.
Rooted ==
    \A G \in SUBSET (Callers \ {Main}) :
        G = {} \/ \E u \in G : thr[u].pc = "none" \/ thr[u].parent \notin G

Family == Hung /\ Held /\ Rooted

\* What a run was given, and how far main is.
Given ==
    /\ cat \in [Pkgs -> Manifest]
    /\ todo \in Seq(Pkgs)
    /\ lost \in BOOLEAN /\ dangling \in BOOLEAN
    /\ thr[Main].pc \notin {"none", "new", "out"}
    /\ status = "exited" => thr[Main].pc = "arg"

\* Until a manifest is lost the threads are a family; their pace they always keep.
Orderly ==
    /\ TypeOK /\ Given
    /\ \A t \in Callers : Paced(thr[t])
    /\ ~lost => Family /\ ~dangling

\* A list of dependencies is one of packages.
LEMMA ListType ==
  ASSUME TypeOK, Given, NEW t \in Callers
  PROVE  List(t) \in Seq(Pkgs) /\ List(t) = cat[thr[t].pkg][thr[t].list]
<1>1. thr[t].pkg \in Pkgs /\ thr[t].list \in {"deps", "dev"}
  BY DEF TypeOK, Thread
<1>2. cat[thr[t].pkg] \in Manifest
  BY <1>1 DEF Given
<1>3. cat[thr[t].pkg].deps \in Seq(Pkgs) /\ cat[thr[t].pkg].dev \in Seq(Pkgs)
  BY <1>2 DEF Manifest
<1> QED
  BY <1>1, <1>3 DEF List

\* What thread t does to the library is a step of ClibPackage, or nothing.
LEMMA LibraryStep ==
  ASSUME Orderly, NEW t \in Callers, Step(t)
  PROVE  PackageNext \/ UNCHANGED pkgVars
<1> USE DEF Only, Orderly
<1>1. CASE Start(t) \/ Enter(t) \/ Make(t) \/ PrintFlags(t) \/ Configure(t) \/ Mark(t)
           \/ Join(t) \/ EndOfList(t)
  BY <1>1 DEF Start, Enter, Make, PrintFlags, Configure, Mark, Join, EndOfList
<1>2. CASE Read(t)
  <2>1. thr[t].pkg \in Pkgs
    BY DEF TypeOK, Thread
  <2> DEFINE found == IF thr[t].place = "slug" THEN "none" ELSE cat[thr[t].pkg].local[thr[t].name]
  <2>2. found \in {"good", "bad", "none"}
    <3>1. thr[t].name \in DOMAIN ManifestNames
      BY DEF TypeOK, Thread
    <3>2. cat[thr[t].pkg] \in Manifest
      BY <2>1 DEF Given
    <3> QED
      BY <3>1, <3>2 DEF Manifest
  <2>3. UNCHANGED pkgVars \/ NewFromSlug(t, thr[t].pkg)
    BY <1>2, <2>2 DEF Read
  <2> QED
    BY <2>1, <2>3 DEF PackageNext
<1>3. CASE Own(t) \/ LoseDependency(t) \/ LoseAll(t) \/ Create(t) \/ CreateFails(t)
  BY <1>3 DEF Own, LoseDependency, LoseAll, Lost, Create, CreateFails, PackageNext
<1>4. CASE Dep(t)
  <2>1. List(t)[thr[t].k] \in Pkgs
    <3>1. thr[t].k \in 1..Len(List(t))
      BY <1>4, ListType DEF Dep, Paced
    <3> QED
      BY <3>1, ListType
  <2> QED
    BY <1>4, <2>1 DEF Dep, PackageNext
<1>5. CASE Library(t)
  BY <1>5 DEF Library, PackageNext
<1> QED
  BY <1>1, <1>2, <1>3, <1>4, <1>5 DEF Step

\* Without slots there are no children, and nothing to pace but the count.
LEMMA NoSlots ==
  ASSUME NEW f \in Thread, f.slots = <<>>
  PROVE  Kids(f) = {} /\ Apart(f)
  BY DEF Kids, Apart

\* A thread may change, in place, what its family does not look at: it stays a thread
\* with the same children, and is in another call only when it has none.
LEMMA Quiet ==
  ASSUME Orderly, NEW t \in Callers, NEW g \in Thread,
         thr' = [thr EXCEPT ![t] = g], cat' = cat,
         thr[t].pc # "none", g.pc # "none", t = Main => g.pc \notin {"new", "out"}, Paced(g)
  PROVE  /\ thr' \in [Callers -> Thread]
         /\ \A u \in Callers : Paced(thr[u])'
         /\ thr'[Main].pc \notin {"none", "new", "out"}
         /\ Family /\ (t # Main => g.parent = thr[t].parent /\ g.born = thr[t].born)
            /\ (g.call = thr[t].call \/ Kids(thr[t]) = {})
            /\ Kids(g) = Kids(thr[t]) /\ Apart(g) => Family'
<1>1. thr \in [Callers -> Thread] /\ Main \in Callers
  BY ThreadsAssumption DEF Orderly, TypeOK, Main
<1>2. thr' \in [Callers -> Thread] /\ thr'[t] = g /\ \A u \in Callers \ {t} : thr'[u] = thr[u]
  BY <1>1
<1>3. \A u \in Callers : Paced(thr[u])'
  BY <1>2 DEF Orderly, Paced
<1>4. thr'[Main].pc \notin {"none", "new", "out"}
  BY <1>1, <1>2 DEF Orderly, Given
<1>5. \A u \in Callers : (thr'[u].pc = "none") <=> (thr[u].pc = "none")
  BY <1>2
<1>6. ASSUME Family, t # Main => g.parent = thr[t].parent /\ g.born = thr[t].born,
             g.call = thr[t].call \/ Kids(thr[t]) = {},
             Kids(g) = Kids(thr[t]), Apart(g)
      PROVE  Family'
  <2>1. \A u \in Callers : Kids(thr[u])' = Kids(thr'[u]) /\ Kids(thr'[u]) = Kids(thr[u])
    BY <1>2, <1>6 DEF Kids
  <2>2. \A u \in Callers \ {Main} : thr'[u].parent = thr[u].parent /\ thr'[u].born = thr[u].born
    BY <1>2, <1>6
  <2>3. \A u \in Callers : thr[u].parent \in Callers
    BY <1>1 DEF Thread
  <2>4. Hung'
    <3> SUFFICES ASSUME NEW u \in Callers \ {Main}, thr'[u].pc # "none"
                 PROVE  /\ u \in Kids(thr'[thr'[u].parent])
                        /\ thr'[thr'[u].parent].call = thr'[u].born
      BY DEF Hung, Kids
    <3>1. /\ u \in Kids(thr[thr[u].parent])
          /\ thr[thr[u].parent].call = thr[u].born
      BY <1>5, <1>6 DEF Family, Hung
    <3>2. thr'[thr[u].parent].call = thr[thr[u].parent].call
      BY <1>2, <1>6, <2>3, <3>1
    <3> QED
      BY <2>1, <2>2, <2>3, <3>1, <3>2
  <2>5. Held'
    <3> SUFFICES ASSUME NEW v \in Callers
                 PROVE  /\ \A u \in Kids(thr'[v]) : u # Main /\ thr'[u].pc # "none" /\ thr'[u].parent = v
                        /\ Apart(thr'[v])
      BY DEF Held, Kids, Apart
    <3>1. Apart(thr'[v])
      BY <1>2, <1>6 DEF Family, Held
    <3>2. \A u \in Kids(thr[v]) : u \in Callers
      BY DEF Kids
    <3> QED
      BY <1>5, <1>6, <2>1, <2>2, <3>1, <3>2 DEF Family, Held
  <2>6. Rooted'
    <3> SUFFICES ASSUME NEW G \in SUBSET (Callers \ {Main}), G # {}
                 PROVE  \E u \in G : thr'[u].pc = "none" \/ thr'[u].parent \notin G
      BY DEF Rooted
    <3>1. PICK u \in G : thr[u].pc = "none" \/ thr[u].parent \notin G
      BY <1>6 DEF Family, Rooted
    <3> QED
      BY <1>5, <2>2, <3>1
  <2> QED
    BY <2>4, <2>5, <2>6 DEF Family
<1> QED
  BY <1>2, <1>3, <1>4, <1>6

\* What a step of the threads has to leave behind, and does unless a manifest is lost.
Threads == /\ thr \in [Callers -> Thread]
           /\ \A u \in Callers : Paced(thr[u])
           /\ thr[Main].pc \notin {"none", "new", "out"}

\* Only the place in the function changes.
LEMMA PlaceStep ==
  ASSUME Orderly, NEW t \in Callers, thr[t].pc # "none", cat' = cat,
         NEW x \in {"read", "own", "work", "run", "dep", "slug"},
         Become(t, [thr[t] EXCEPT !.pc = x]),
         thr[t].slots = <<>> \/ (thr[t].pc = "dep" /\ x = "slug"),
         x = "slug" => thr[t].k <= Len(List(t))
  PROVE  Threads' /\ (Family => Family')
<1> DEFINE g == [thr[t] EXCEPT !.pc = x]
<1>1. thr[t] \in Thread
  BY DEF Orderly, TypeOK
<1>2. g \in Thread
  BY <1>1 DEF Thread
<1>3. /\ g.pc = x /\ g.pkg = thr[t].pkg /\ g.list = thr[t].list /\ g.k = thr[t].k
      /\ g.slots = thr[t].slots /\ g.parent = thr[t].parent /\ g.born = thr[t].born
      /\ g.call = thr[t].call
  BY <1>1 DEF Thread
<1> HIDE DEF g
<1>4. List(t) = cat[thr[t].pkg][thr[t].list] /\ Paced(thr[t])
  BY ListType DEF Orderly
<1>5. Paced(g)
  BY <1>3, <1>4 DEF Paced
<1>6. Kids(g) = Kids(thr[t])
  BY <1>3 DEF Kids
<1>7. Family => Apart(g)
  BY <1>3 DEF Family, Held, Apart
<1>8. thr' = [thr EXCEPT ![t] = g] /\ x \notin {"none", "new", "out"}
  BY DEF Become, g
<1> QED
  BY <1>2, <1>3, <1>5, <1>6, <1>7, <1>8, Quiet DEF Threads

\* A call that returns, and one that tries the other manifest.
LEMMA CallOver ==
  ASSUME NEW f \in Thread, NEW x \in {"arg", "out"}, NEW rc \in {0, 1}, NEW c \in Nat
  PROVE  [f EXCEPT !.pc = x, !.rc = rc, !.call = c, !.slots = <<>>] \in Thread
<1>1. <<>> \in Seq(Callers \cup {NoChild})
  OBVIOUS
<1> QED
  BY <1>1 DEF Thread

LEMMA CallAgain ==
  ASSUME NEW f \in Thread, NEW n \in DOMAIN ManifestNames, NEW c \in Nat
  PROVE  [f EXCEPT !.pc = "enter", !.name = n, !.call = c, !.slots = <<>>, !.list = "deps", !.k = 1]
           \in Thread
<1>1. <<>> \in Seq(Callers \cup {NoChild})
  OBVIOUS
<1> QED
  BY <1>1 DEF Thread

\* A call is left with everything joined, or with its children lost.
LEMMA LeaveStep ==
  ASSUME Orderly, NEW t \in Callers, thr[t].pc # "none", cat' = cat,
         NEW rc \in {0, 1}, Leave(t, rc)
  PROVE  Threads' /\ (Family /\ thr[t].slots = <<>> => Family')
<1> DEFINE again == [thr[t] EXCEPT !.pc = "enter", !.name = @ + 1, !.call = @ + 1, !.slots = <<>>,
                                   !.list = "deps", !.k = 1]
           gone == [thr[t] EXCEPT !.pc = IF t = Main THEN "arg" ELSE "out", !.rc = rc,
                                  !.call = @ + 1, !.slots = <<>>]
<1>1. thr[t] \in Thread
  BY DEF Orderly, TypeOK
<1>2. Len(ManifestNames) = 2 /\ DOMAIN ManifestNames = 1..2
  BY DEF ManifestNames
<1>3. PICK g : /\ thr' = [thr EXCEPT ![t] = g]
               /\ (thr[t].name < 2 /\ g = again) \/ g = gone
  <2>1. thr' = [thr EXCEPT ![t] = IF rc # 0 /\ thr[t].name < Len(ManifestNames) THEN again ELSE gone]
    BY DEF Leave, Become
  <2> HIDE DEF again, gone
  <2> QED
    BY <1>2, <2>1
<1>4. CASE thr[t].name < 2 /\ g = again
  <2>1. g \in Thread
    <3>1. thr[t].call + 1 \in Nat /\ thr[t].name + 1 \in DOMAIN ManifestNames
      BY <1>1, <1>2, <1>4 DEF Thread
    <3> QED
      BY <1>1, <1>4, <3>1, CallAgain
  <2>2. /\ g.pc = "enter" /\ g.k = 1 /\ g.slots = <<>> /\ g.parent = thr[t].parent /\ g.born = thr[t].born
    BY <1>1, <1>4 DEF Thread
  <2> HIDE DEF again, gone
  <2>3. Paced(g) /\ Kids(g) = {} /\ Apart(g)
    BY <2>1, <2>2, NoSlots DEF Paced
  <2>4. thr[t].slots = <<>> => Kids(thr[t]) = {}
    BY <1>1, NoSlots
  <2> QED
    BY <1>3, <2>1, <2>2, <2>3, <2>4, Quiet DEF Threads
<1>5. CASE g = gone
  <2>1. g \in Thread
    <3>1. thr[t].call + 1 \in Nat /\ (IF t = Main THEN "arg" ELSE "out") \in {"arg", "out"}
      BY <1>1 DEF Thread
    <3> QED
      BY <1>1, <1>5, <3>1, CallOver
  <2>2. /\ g.pc \in {"arg", "out"} /\ (t = Main => g.pc = "arg") /\ g.k = thr[t].k /\ g.slots = <<>> /\ g.parent = thr[t].parent
        /\ g.born = thr[t].born
    BY <1>1, <1>5 DEF Thread
  <2> HIDE DEF again, gone
  <2>3. Paced(thr[t])
    BY DEF Orderly
  <2>4. Paced(g) /\ Kids(g) = {} /\ Apart(g)
    BY <2>1, <2>2, <2>3, NoSlots DEF Paced
  <2>5. thr[t].slots = <<>> => Kids(thr[t]) = {}
    BY <1>1, NoSlots
  <2> QED
    BY <1>3, <2>1, <2>2, <2>4, <2>5, Quiet DEF Threads
<1> QED
  BY <1>3, <1>4, <1>5

\* A package is looked up: found done, it is left; else its manifest is read.
LEMMA FindStep ==
  ASSUME Orderly, NEW t \in Callers, thr[t].pc \in {"new", "enter"}, cat' = cat, Find(t)
  PROVE  Threads' /\ (Family => Family')
<1>1. thr[t].slots = <<>> /\ thr[t].pc # "none"
  BY DEF Orderly, Paced
<1>2. CASE done[Key(t)] # "none"
  <2>1. Leave(t, 0)
    BY <1>2 DEF Find
  <2> QED
    BY <1>1, <2>1, LeaveStep
<1>3. CASE done[Key(t)] = "none"
  <2>1. Become(t, [thr[t] EXCEPT !.pc = "read"])
    BY <1>3 DEF Find
  <2> QED
    BY <1>1, <2>1, PlaceStep
<1> QED
  BY <1>2, <1>3

\* The thread made is one that is not used.
LEMMA UnusedThread ==
  ASSUME Unused # {}
  PROVE  (CHOOSE u \in Unused : \A v \in Unused : u <= v) \in Unused
<1>1. Unused \subseteq Nat
  BY ThreadsAssumption DEF Unused
<1>2. PICK u \in Unused : \A v \in Unused : ~(<<v, u>> \in OpToRel(<, Nat))
  BY <1>1, NatLessThanWellFounded, WFMin
<1>3. ASSUME NEW v \in Unused PROVE u <= v
  <2>1. <<v, u>> \in Nat \X Nat
    BY <1>1
  <2>2. ~(v < u)
    BY <1>2, <2>1 DEF OpToRel
  <2> QED
    BY <1>1, <2>2
<1> QED
  BY <1>3

LEMMA SlotsChange ==
  ASSUME NEW f \in Thread, NEW x \in {"dep", "join"}, NEW k \in Nat,
         NEW s \in Seq(Callers \cup {NoChild})
  PROVE  [f EXCEPT !.slots = s, !.k = k, !.pc = x] \in Thread
  BY DEF Thread

\* A filled slot: the thread goes on to the next dependency or to the joins.
LEMMA SlotFilled ==
  ASSUME Orderly, NEW t \in Callers, thr[t].pc = "slug", NEW u \in Callers \cup {NoChild}
  PROVE  /\ Started(t, u) \in Thread
         /\ Started(t, u).pc \in {"dep", "join"}
         /\ Started(t, u).slots = Append(thr[t].slots, u)
         /\ Started(t, u).parent = thr[t].parent /\ Started(t, u).born = thr[t].born
         /\ Started(t, u).call = thr[t].call
         /\ Paced(Started(t, u))
<1>1. thr[t] \in Thread /\ thr[t].slots \in Seq(Callers \cup {NoChild}) /\ thr[t].k \in Nat
  BY DEF Orderly, TypeOK, Thread
<1>2. /\ Append(thr[t].slots, u) \in Seq(Callers \cup {NoChild})
      /\ Append(thr[t].slots, u) # <<>>
  BY <1>1, AppendProperties
<1>3. List(t) = cat[thr[t].pkg][thr[t].list] /\ Len(List(t)) \in Nat /\ thr[t].k <= Len(List(t))
  BY ListType, LenProperties DEF Orderly, Paced
<1>4. PICK x \in {"dep", "join"} :
        /\ Started(t, u) = [thr[t] EXCEPT !.slots = Append(thr[t].slots, u), !.k = thr[t].k + 1, !.pc = x]
        /\ x = "dep" => thr[t].k # Len(List(t))
  <2> DEFINE x == IF Len(Append(thr[t].slots, u)) >= set.concurrency \/ thr[t].k = Len(List(t))
                  THEN "join" ELSE "dep"
  <2>1. /\ Started(t, u) = [thr[t] EXCEPT !.slots = Append(thr[t].slots, u), !.k = thr[t].k + 1, !.pc = x]
        /\ x \in {"dep", "join"} /\ (x = "dep" => thr[t].k # Len(List(t)))
    BY DEF Started
  <2> HIDE DEF x
  <2> QED
    BY <2>1
<1>5. Started(t, u) \in Thread
  <2>1. thr[t].k + 1 \in Nat
    BY <1>1
  <2>2. [thr[t] EXCEPT !.slots = Append(thr[t].slots, u), !.k = thr[t].k + 1, !.pc = x] \in Thread
    BY <1>1, <1>2, <2>1, SlotsChange
  <2> QED
    BY <1>4, <2>2
<1>6. /\ Started(t, u).pc = x /\ Started(t, u).slots = Append(thr[t].slots, u)
      /\ Started(t, u).k = thr[t].k + 1
      /\ Started(t, u).pkg = thr[t].pkg /\ Started(t, u).list = thr[t].list
      /\ Started(t, u).parent = thr[t].parent /\ Started(t, u).born = thr[t].born
      /\ Started(t, u).call = thr[t].call
  BY <1>1, <1>4 DEF Thread
<1>7. Paced(Started(t, u))
  BY <1>1, <1>2, <1>3, <1>4, <1>6 DEF Paced
<1> QED
  BY <1>5, <1>6, <1>7

\* Who is in the slots with one more filled.
LEMMA KidsOfFilled ==
  ASSUME NEW f, NEW g, f.slots \in Seq(Callers \cup {NoChild}),
         NEW u \in Callers \cup {NoChild}, g.slots = Append(f.slots, u)
  PROVE  /\ Kids(g) = Kids(f) \cup ({u} \cap Callers)
         /\ Apart(f) /\ u \notin Kids(f) => Apart(g)
<1> DEFINE s == f.slots
<1>1. /\ Append(s, u) \in Seq(Callers \cup {NoChild}) /\ Len(Append(s, u)) = Len(s) + 1
      /\ \A i \in 1..Len(s) : Append(s, u)[i] = s[i]
      /\ Append(s, u)[Len(s) + 1] = u
  BY AppendProperties
<1>2. /\ Len(s) \in Nat /\ DOMAIN s = 1..Len(s) /\ DOMAIN Append(s, u) = 1..(Len(s) + 1)
      /\ \A i \in 1..Len(s) : s[i] \in Callers \cup {NoChild}
  BY <1>1, LenProperties, ElementOfSeq
<1>3. PICK n \in Nat : n = Len(s)
  BY <1>2
<1>4. PICK a : a = Append(s, u)
  OBVIOUS
<1>5. /\ DOMAIN s = 1..n /\ DOMAIN a = 1..(n + 1) /\ a[n + 1] = u
      /\ \A i \in 1..n : a[i] = s[i] /\ s[i] \in Callers \cup {NoChild}
  BY <1>1, <1>2, <1>3, <1>4
<1>6. DOMAIN g.slots = 1..(n + 1) /\ g.slots = a
  BY <1>4, <1>5
<1> HIDE DEF s
<1>7. \A v \in Callers : (\E i \in 1..(n + 1) : a[i] = v) <=> (v = u \/ \E i \in 1..n : s[i] = v)
  <2> SUFFICES ASSUME NEW v \in Callers
               PROVE  (\E i \in 1..(n + 1) : a[i] = v) <=> (v = u \/ \E i \in 1..n : s[i] = v)
    OBVIOUS
  <2>1. ASSUME NEW i \in 1..(n + 1), a[i] = v PROVE v = u \/ \E j \in 1..n : s[j] = v
    BY <1>3, <1>5, <2>1
  <2>2. ASSUME v = u PROVE \E i \in 1..(n + 1) : a[i] = v
    BY <1>3, <1>5, <2>2
  <2>3. ASSUME NEW j \in 1..n, s[j] = v PROVE \E i \in 1..(n + 1) : a[i] = v
    BY <1>3, <1>5, <2>3
  <2> QED
    BY <2>1, <2>2, <2>3
<1>8. Kids(g) = Kids(f) \cup ({u} \cap Callers)
  BY <1>5, <1>6, <1>7 DEF Kids, s
<1>9. ASSUME Apart(f), u \notin Kids(f) PROVE Apart(g)
  <2> SUFFICES ASSUME NEW i \in 1..(n + 1), NEW j \in 1..(n + 1), a[i] = a[j], a[i] # NoChild
               PROVE  i = j
    BY <1>6 DEF Apart
  <2>1. ASSUME NEW m \in 1..n, u # NoChild PROVE s[m] # u
    BY <1>5, <1>9, <2>1 DEF Kids, s
  <2>2. CASE i \in 1..n /\ j \in 1..n
    BY <1>5, <1>9, <2>2 DEF Apart, s
  <2>3. CASE i = n + 1 \/ j = n + 1
    BY <1>3, <1>5, <2>1, <2>3
  <2>4. (i \in 1..n \/ i = n + 1) /\ (j \in 1..n \/ j = n + 1)
    OBVIOUS
  <2> QED
    BY <2>2, <2>3, <2>4
<1> QED
  BY <1>8, <1>9

\* Nobody is a thread that has not begun.
LEMMA NobodyType ==
  ASSUME NEW p \in Pkgs
  PROVE  /\ Nobody \in Thread
         /\ Nobody.pc = "none" /\ Nobody.slots = <<>> /\ Nobody.k = 1
<1>1. (CHOOSE q \in Pkgs : TRUE) \in Pkgs
  OBVIOUS
<1>2. PICK q \in Pkgs : q = CHOOSE r \in Pkgs : TRUE
  BY <1>1
<1>3. /\ <<>> \in Seq(Callers \cup {NoChild}) /\ 1 \in DOMAIN ManifestNames
      /\ Main \in Callers /\ "dir" \in Places
  BY ThreadsAssumption DEF ManifestNames, Main, Places
<1>4. Nobody = [pc |-> "none", pkg |-> q, place |-> "dir", name |-> 1, list |-> "deps", k |-> 1,
                slots |-> <<>>, parent |-> Main, born |-> 0, call |-> 0, rc |-> 0]
  BY <1>2 DEF Nobody
<1> QED
  BY <1>3, <1>4 DEF Thread

\* A child is made: it hangs below t, whose call is the one it was born in.
LEMMA CreateStep ==
  ASSUME Orderly, NEW t \in Callers, Create(t)
  PROVE  Threads' /\ (Family => Family')
<1>1. PICK u \in Unused :
        thr' = [thr EXCEPT ![t] = Started(t, u),
                           ![u] = [Nobody EXCEPT !.pc = "new", !.pkg = List(t)[thr[t].k],
                                                 !.parent = t, !.born = thr[t].call,
                                                 !.call = thr[u].call]]
  BY UnusedThread DEF Create
<1>2. /\ thr \in [Callers -> Thread] /\ thr[t].pc = "slug" /\ cat' = cat
      /\ u \in Callers /\ thr[u].pc = "none" /\ u # t /\ u # Main /\ u \in Nat \ {0}
      /\ Main \in Callers
  BY <1>1, ThreadsAssumption DEF Orderly, TypeOK, Create, Running, Unused, Given, Main
<1> DEFINE g == Started(t, u)
           h == [Nobody EXCEPT !.pc = "new", !.pkg = List(t)[thr[t].k], !.parent = t,
                               !.born = thr[t].call, !.call = thr[u].call]
<1>3. /\ g \in Thread /\ g.pc \in {"dep", "join"} /\ g.slots = Append(thr[t].slots, u)
      /\ g.parent = thr[t].parent /\ g.born = thr[t].born /\ g.call = thr[t].call /\ Paced(g)
  BY <1>2, SlotFilled
<1>4. /\ h \in Thread /\ h.pc = "new" /\ h.slots = <<>> /\ h.parent = t /\ h.born = thr[t].call
      /\ h.k = 1
  <2>1. thr[t].k \in 1..Len(List(t)) /\ List(t) \in Seq(Pkgs)
    <3>1. List(t) \in Seq(Pkgs) /\ List(t) = cat[thr[t].pkg][thr[t].list] /\ Len(List(t)) \in Nat
      BY ListType, LenProperties DEF Orderly
    <3>2. Paced(thr[t])
      BY DEF Orderly
    <3>3. thr[t].k \in Nat \ {0} /\ thr[t].k <= Len(List(t))
      BY <1>2, <3>1, <3>2 DEF Paced
    <3> QED
      BY <3>1, <3>3
  <2>2. List(t)[thr[t].k] \in Pkgs
    BY <2>1
  <2>3. thr[t].call \in Nat /\ thr[u].call \in Nat
    BY <1>2 DEF Thread
  <2>4. Nobody \in Thread /\ Nobody.slots = <<>> /\ Nobody.k = 1
    BY <2>2, NobodyType
  <2>5. h = [Nobody EXCEPT !.pc = "new", !.pkg = List(t)[thr[t].k], !.parent = t,
                           !.born = thr[t].call, !.call = thr[u].call]
    OBVIOUS
  <2> HIDE DEF h
  <2>6. PICK p \in Pkgs, b \in Nat, c \in Nat :
          p = List(t)[thr[t].k] /\ b = thr[t].call /\ c = thr[u].call
    BY <2>2, <2>3
  <2>7. h = [Nobody EXCEPT !.pc = "new", !.pkg = p, !.parent = t, !.born = b, !.call = c]
    BY <2>5, <2>6
  <2>8. /\ h \in Thread /\ h.pc = "new" /\ h.parent = t /\ h.born = b /\ h.call = c
        /\ h.slots = Nobody.slots /\ h.k = Nobody.k
    BY <2>4, <2>6, <2>7 DEF Thread
  <2> QED
    BY <2>4, <2>6, <2>8
<1> HIDE DEF g, h
<1>5. /\ thr' \in [Callers -> Thread] /\ thr'[t] = g /\ thr'[u] = h
      /\ \A v \in Callers \ {t, u} : thr'[v] = thr[v]
  BY <1>1, <1>2, <1>3, <1>4 DEF g, h
<1>6. Paced(h) /\ Kids(h) = {} /\ Apart(h)
  BY <1>4, NoSlots DEF Paced
<1>7. Threads'
  <2>1. \A v \in Callers : Paced(thr[v])'
    BY <1>2, <1>3, <1>5, <1>6 DEF Orderly, Paced
  <2>2. thr'[Main].pc \notin {"none", "new", "out"}
    BY <1>2, <1>3, <1>5 DEF Orderly, Given
  <2> QED
    BY <1>5, <2>1, <2>2 DEF Threads
<1>8. ASSUME Family PROVE Family'
  <2>1. Kids(thr[u]) = {}
    <3>1. thr[u].slots = <<>> /\ thr[u] \in Thread
      BY <1>2 DEF Orderly, Paced
    <3> QED
      BY <3>1, NoSlots
  <2>2. \A v \in Callers : u \notin Kids(thr[v])
    BY <1>2, <1>8 DEF Family, Held
  <2>3. Kids(g) = Kids(thr[t]) \cup {u} /\ Apart(g)
    <3>1. thr[t].slots \in Seq(Callers \cup {NoChild})
      BY <1>2 DEF Thread
    <3>2. Apart(thr[t])
      BY <1>8 DEF Family, Held
    <3> QED
      BY <1>2, <1>3, <2>2, <3>1, <3>2, KidsOfFilled
  <2>4. \A v \in Callers \ {u} : /\ (thr'[v].pc = "none") <=> (thr[v].pc = "none")
                                 /\ thr'[v].parent = thr[v].parent /\ thr'[v].born = thr[v].born
                                 /\ thr'[v].call = thr[v].call
    BY <1>2, <1>3, <1>5
  <2>5. Hung'
    <3> SUFFICES ASSUME NEW v \in Callers \ {Main}, thr'[v].pc # "none"
                 PROVE  /\ v \in Kids(thr'[thr'[v].parent])
                        /\ thr'[thr'[v].parent].call = thr'[v].born
      BY DEF Hung, Kids
    <3>1. CASE v = u
      BY <1>2, <1>3, <1>4, <1>5, <2>3, <3>1
    <3>2. CASE v # u
      <4>1. v \in Kids(thr[thr[v].parent]) /\ thr[thr[v].parent].call = thr[v].born
        BY <1>8, <2>4, <3>2 DEF Family, Hung
      <4>2. thr[v].parent \in Callers /\ thr[v].parent # u
        BY <1>2, <2>1, <4>1 DEF Thread
      <4>3. v \in Kids(thr'[thr[v].parent])
        BY <1>5, <2>3, <4>1, <4>2
      <4> QED
        BY <2>4, <3>2, <4>1, <4>2, <4>3
    <3> QED
      BY <3>1, <3>2
  <2>6. Held'
    <3> SUFFICES ASSUME NEW w \in Callers
                 PROVE  /\ \A v \in Kids(thr'[w]) : v # Main /\ thr'[v].pc # "none" /\ thr'[v].parent = w
                        /\ Apart(thr'[w])
      BY DEF Held, Kids, Apart
    <3>1. Apart(thr'[w])
      BY <1>5, <1>6, <1>8, <2>3 DEF Family, Held
    <3>2. ASSUME NEW v \in Kids(thr'[w])
          PROVE  v # Main /\ thr'[v].pc # "none" /\ thr'[v].parent = w
      <4>1. v \in Callers
        BY DEF Kids
      <4>2. CASE v = u
        <5>1. w = t
          BY <1>5, <1>6, <2>2, <3>2, <4>2
        <5> QED
          BY <1>2, <1>4, <1>5, <4>2, <5>1
      <4>3. CASE v # u
        <5>1. v \in Kids(thr[w])
          BY <1>5, <1>6, <2>3, <3>2, <4>3
        <5> QED
          BY <1>8, <2>4, <4>1, <4>3, <5>1 DEF Family, Held
      <4> QED
        BY <4>2, <4>3
    <3> QED
      BY <3>1, <3>2
  <2>7. Rooted'
    <3> SUFFICES ASSUME NEW G \in SUBSET (Callers \ {Main}), G # {},
                        \A v \in G : thr'[v].pc # "none" /\ thr'[v].parent \in G
                 PROVE  FALSE
      BY DEF Rooted
    <3>1. ASSUME NEW v \in G \ {u} PROVE thr[v].pc # "none" /\ thr[v].parent \in G \ {u}
      <4>1. thr[v].pc # "none" /\ thr[v].parent \in G /\ v \in Callers \ {Main}
        BY <2>4, <3>1
      <4>2. v \in Kids(thr[thr[v].parent])
        BY <1>8, <4>1 DEF Family, Hung
      <4> QED
        BY <2>1, <4>1, <4>2
    <3>2. G \ {u} # {}
      <4>1. CASE u \in G
        BY <1>2, <1>4, <1>5, <4>1
      <4>2. CASE u \notin G
        BY <4>2
      <4> QED
        BY <4>1, <4>2
    <3> QED
      BY <1>8, <3>1, <3>2 DEF Family, Rooted
  <2> QED
    BY <2>5, <2>6, <2>7 DEF Family
<1> QED
  BY <1>7, <1>8

\* A thread that cannot be made leaves the slot to chance.
LEMMA CreateFailsStep ==
  ASSUME Orderly, NEW t \in Callers, CreateFails(t)
  PROVE  Threads' /\ (Family => Family')
<1>1. /\ thr[t].pc = "slug" /\ cat' = cat /\ thr[t] \in Thread
      /\ thr' = [thr EXCEPT ![t] = Started(t, NoChild)]
  BY DEF CreateFails, Running, Become, Orderly, TypeOK
<1> DEFINE g == Started(t, NoChild)
<1>2. /\ g \in Thread /\ g.pc \in {"dep", "join"} /\ g.slots = Append(thr[t].slots, NoChild)
      /\ g.parent = thr[t].parent /\ g.born = thr[t].born /\ g.call = thr[t].call /\ Paced(g)
  BY <1>1, SlotFilled
<1> HIDE DEF g
<1>3. NoChild \notin Callers /\ thr[t].slots \in Seq(Callers \cup {NoChild})
  BY <1>1, ThreadsAssumption DEF NoChild, Thread
<1>4. Kids(g) = Kids(thr[t]) /\ (Apart(thr[t]) => Apart(g))
  <2>1. NoChild \notin Kids(thr[t])
    BY <1>3 DEF Kids
  <2>2. {NoChild} \cap Callers = {} /\ NoChild \in Callers \cup {NoChild}
    BY <1>3
  <2>3. Kids(g) = Kids(thr[t]) \cup ({NoChild} \cap Callers) /\ (Apart(thr[t]) => Apart(g))
    <3>1. PICK u \in Callers \cup {NoChild} : u = NoChild
      BY <2>2
    <3>2. g.slots = Append(thr[t].slots, u) /\ u \notin Kids(thr[t])
      BY <1>2, <2>1, <3>1
    <3>3. Kids(g) = Kids(thr[t]) \cup ({u} \cap Callers) /\ (Apart(thr[t]) => Apart(g))
      BY <1>3, <3>2, KidsOfFilled
    <3> QED
      BY <3>1, <3>3
  <2> QED
    BY <2>2, <2>3
<1>5. Family => Apart(g)
  BY <1>4 DEF Family, Held
<1>6. thr' = [thr EXCEPT ![t] = g]
  BY <1>1 DEF g
<1> QED
  BY <1>1, <1>2, <1>4, <1>5, <1>6, Quiet DEF Threads

\* Who is in the slots without the first.
LEMMA KidsOfRest ==
  ASSUME NEW f, NEW g, f.slots \in Seq(Callers \cup {NoChild}), f.slots # <<>>,
         NEW u \in Callers, u = Head(f.slots), g.slots = Tail(f.slots), NoChild \notin Callers
  PROVE  /\ u \in Kids(f)
         /\ Apart(f) => Kids(g) = Kids(f) \ {u} /\ Apart(g)
<1>1. PICK s \in Seq(Callers \cup {NoChild}) : s = f.slots /\ s # <<>>
  OBVIOUS
<1>2. PICK r \in Seq(Callers \cup {NoChild}) : r = g.slots /\ r = Tail(s)
  BY <1>1, HeadTailProperties
<1>3. PICK n \in Nat \ {0} : n = Len(s)
  BY <1>1, EmptySeq
<1>4. /\ DOMAIN s = 1..n /\ DOMAIN r = 1..(n - 1) /\ s[1] = u
      /\ \A i \in 1..(n - 1) : r[i] = s[i + 1]
  <2>1. Len(r) = n - 1 /\ \A i \in 1..Len(r) : r[i] = s[i + 1]
    BY <1>1, <1>2, <1>3, HeadTailProperties
  <2>2. DOMAIN s = 1..n /\ DOMAIN r = 1..Len(r) /\ s[1] = u
    BY <1>1, <1>2, <1>3, LenProperties
  <2> QED
    BY <2>1, <2>2
<1>5. DOMAIN f.slots = 1..n /\ DOMAIN g.slots = 1..(n - 1)
  BY <1>1, <1>2, <1>4
<1>6. u \in Kids(f)
  <2>1. 1 \in DOMAIN f.slots /\ f.slots[1] = u
    BY <1>1, <1>4, <1>5
  <2> QED
    BY <1>1, <2>1 DEF Kids
<1>7. ASSUME Apart(f) PROVE Kids(g) = Kids(f) \ {u} /\ Apart(g)
  <2>1. \A i, j \in 1..n : s[i] = s[j] /\ s[i] # NoChild => i = j
    BY <1>1, <1>5, <1>7 DEF Apart
  <2>2. ASSUME NEW v \in Callers
        PROVE  (\E i \in 1..(n - 1) : r[i] = v) <=> (v # u /\ \E i \in 1..n : s[i] = v)
    <3>1. ASSUME NEW i \in 1..(n - 1), r[i] = v PROVE v # u /\ \E j \in 1..n : s[j] = v
      <4>1. i + 1 \in 1..n /\ s[i + 1] = v /\ 1 \in 1..n /\ i + 1 # 1
        BY <1>4, <3>1
      <4>2. v # NoChild
        BY <2>2
      <4> QED
        BY <1>4, <2>1, <4>1, <4>2
    <3>2. ASSUME v # u, NEW j \in 1..n, s[j] = v PROVE \E i \in 1..(n - 1) : r[i] = v
      <4>1. j # 1
        BY <1>4, <3>2
      <4>2. j - 1 \in 1..(n - 1) /\ (j - 1) + 1 = j
        BY <4>1
      <4> QED
        BY <1>4, <3>2, <4>2
    <3> QED
      BY <3>1, <3>2
  <2>3. Kids(g) = Kids(f) \ {u}
    <3>1. Kids(f) = {v \in Callers : \E i \in 1..n : s[i] = v}
      BY <1>1, <1>5 DEF Kids
    <3>2. Kids(g) = {v \in Callers : \E i \in 1..(n - 1) : r[i] = v}
      BY <1>2, <1>5 DEF Kids
    <3> QED
      BY <2>2, <3>1, <3>2
  <2>4. ASSUME NEW i \in 1..(n - 1), NEW j \in 1..(n - 1), r[i] = r[j], r[i] # NoChild PROVE i = j
    <3>1. i + 1 \in 1..n /\ j + 1 \in 1..n /\ r[i] = s[i + 1] /\ r[j] = s[j + 1]
      BY <1>4
    <3>2. i + 1 = j + 1
      BY <2>1, <2>4, <3>1
    <3> QED
      BY <3>2
  <2>5. Apart(g)
    BY <1>2, <1>5, <2>4 DEF Apart
  <2> QED
    BY <2>3, <2>5
<1> QED
  BY <1>6, <1>7

\* The frame of a thread that has joined its first child.
Rest(f, x) == [f EXCEPT !.slots = Tail(@), !.pc = x]

\* A joined child's place is free again, and the parent goes on to the next slot, or
\* to the next dependency when that was the last.
LEMMA Joined ==
  ASSUME Orderly, NEW t \in Callers, thr[t].pc = "join", NEW u \in Callers, u = Head(thr[t].slots),
         NEW x, x = IF Len(thr[t].slots) = 1 THEN "dep" ELSE "join",
         NEW g, g = Rest(thr[t], x)
  PROVE  /\ g \in Thread /\ g.slots = Tail(thr[t].slots) /\ g.pc = x /\ g.parent = thr[t].parent
         /\ g.born = thr[t].born /\ g.call = thr[t].call /\ Paced(g)
         /\ u \in Kids(thr[t])
         /\ Apart(thr[t]) => Kids(g) = Kids(thr[t]) \ {u} /\ Apart(g)
<1>1. PICK f \in Thread : f = thr[t]
  BY DEF Orderly, TypeOK
<1>2. PICK s \in Seq(Callers \cup {NoChild}) : s = f.slots
  BY DEF Thread
<1>3. s # <<>> /\ f.k \in Nat \ {0} /\ NoChild \notin Callers
  BY <1>1, <1>2, ThreadsAssumption DEF Orderly, Paced, NoChild
<1>4. PICK r \in Seq(Callers \cup {NoChild}) : r = Tail(s)
  BY <1>3, HeadTailProperties
<1>5. Len(r) = Len(s) - 1 /\ Len(s) \in Nat
  BY <1>3, <1>4, HeadTailProperties, LenProperties
<1>6. r = <<>> <=> Len(s) = 1
  <2>1. r = <<>> <=> Len(r) = 0
    BY <1>4, EmptySeq
  <2> QED
    BY <1>5, <2>1
<1>7. x = (IF Len(s) = 1 THEN "dep" ELSE "join") /\ x \in {"dep", "join"}
  BY <1>1, <1>2
<1>8. g = [f EXCEPT !.slots = r, !.pc = x]
  BY <1>1, <1>2, <1>4 DEF Rest
<1>9. /\ g \in Thread /\ g.slots = r /\ g.pc = x /\ g.parent = f.parent
      /\ g.born = f.born /\ g.call = f.call /\ g.k = f.k
  BY <1>7, <1>8 DEF Thread
<1>10. Paced(g)
  BY <1>3, <1>6, <1>7, <1>9 DEF Paced
<1>11. u \in Kids(f) /\ (Apart(f) => Kids(g) = Kids(f) \ {u} /\ Apart(g))
  <2>1. /\ f.slots \in Seq(Callers \cup {NoChild}) /\ f.slots # <<>> /\ u = Head(f.slots)
        /\ g.slots = Tail(f.slots)
    BY <1>1, <1>2, <1>3, <1>4, <1>9
  <2> QED
    BY <1>3, <2>1, KidsOfRest
<1> QED
  BY <1>1, <1>2, <1>4, <1>9, <1>10, <1>11

\* A child that has ended is joined: it is nobody again, and out of its slot.
LEMMA JoinStep ==
  ASSUME Orderly, NEW t \in Callers, Join(t)
  PROVE  Threads' /\ (Family => Family')
<1>1. /\ thr \in [Callers -> Thread] /\ thr[t].pc = "join" /\ cat' = cat
      /\ thr[t].slots \in Seq(Callers \cup {NoChild}) /\ thr[t].slots # <<>>
      /\ NoChild \notin Callers /\ Main \in Callers
  BY ThreadsAssumption DEF Orderly, TypeOK, Join, Running, Only, Thread, Paced, NoChild, Main
<1>2. CASE Head(thr[t].slots) = NoChild
  <2>1. thr' = thr
    BY <1>2 DEF Join
  <2>2. Threads'
    BY <1>1, <2>1 DEF Orderly, Given, Threads, Paced
  <2>3. Family => Family'
    BY <2>1 DEF Family, Hung, Held, Rooted, Kids, Apart
  <2> QED
    BY <2>2, <2>3
<1>3. CASE Head(thr[t].slots) # NoChild
  <2>1. PICK u \in Callers : u = Head(thr[t].slots)
    BY <1>1, <1>3, HeadTailProperties
  <2>2. PICK x : x = IF Len(thr[t].slots) = 1 THEN "dep" ELSE "join"
    OBVIOUS
  <2>3. PICK g : g = Rest(thr[t], x)
    OBVIOUS
  <2>4. PICK h : h = [Nobody EXCEPT !.call = thr[u].call]
    OBVIOUS
  <2>5. /\ thr[u].pc = "out" /\ u # t
        /\ thr' = [thr EXCEPT ![u] = h, ![t] = g]
    <3>1. /\ thr[u].pc = "out" /\ u # t
          /\ thr' = [thr EXCEPT ![u] = [Nobody EXCEPT !.call = thr[u].call],
                                ![t].slots = Tail(@),
                                ![t].pc = IF Len(thr[t].slots) = 1 THEN "dep" ELSE "join"]
      BY <1>1, <1>3, <2>1 DEF Join
    <3> QED
      BY <1>1, <2>2, <2>3, <2>4, <3>1 DEF Rest
  <2>6. /\ g \in Thread /\ g.slots = Tail(thr[t].slots) /\ g.pc \in {"dep", "join"}
        /\ g.parent = thr[t].parent /\ g.born = thr[t].born /\ g.call = thr[t].call /\ Paced(g)
        /\ u \in Kids(thr[t])
        /\ Apart(thr[t]) => Kids(g) = Kids(thr[t]) \ {u} /\ Apart(g)
    <3>1. x \in {"dep", "join"}
      BY <2>2
    <3>2. /\ g \in Thread /\ g.slots = Tail(thr[t].slots) /\ g.pc = x /\ g.parent = thr[t].parent
          /\ g.born = thr[t].born /\ g.call = thr[t].call /\ Paced(g)
          /\ u \in Kids(thr[t])
          /\ Apart(thr[t]) => Kids(g) = Kids(thr[t]) \ {u} /\ Apart(g)
      BY <1>1, <2>1, <2>2, <2>3, Joined
    <3> QED
      BY <3>1, <3>2
  <2>7. h \in Thread /\ h.pc = "none" /\ h.slots = <<>> /\ h.k = 1
    <3>1. thr[t].pkg \in Pkgs /\ thr[u].call \in Nat
      BY <1>1 DEF Thread
    <3>2. Nobody \in Thread /\ Nobody.pc = "none" /\ Nobody.slots = <<>> /\ Nobody.k = 1
      BY <3>1, NobodyType
    <3> QED
      BY <2>4, <3>1, <3>2 DEF Thread
  <2>8. /\ thr' \in [Callers -> Thread] /\ thr'[t] = g /\ thr'[u] = h
        /\ \A v \in Callers \ {t, u} : thr'[v] = thr[v]
    BY <1>1, <2>5, <2>6, <2>7
  <2>9. Paced(h) /\ Kids(h) = {} /\ Apart(h)
    BY <2>7, NoSlots DEF Paced
  <2>10. \A v \in Callers : Paced(thr[v])'
    BY <1>1, <2>6, <2>8, <2>9 DEF Orderly, Paced
  <2>11. ASSUME Family PROVE Family'
    <3>1. u # Main /\ thr[u].pc # "none" /\ thr[u].parent = t
      BY <2>6, <2>11 DEF Family, Held
    <3>2. Kids(thr[u]) = {}
      <4>1. thr[u].slots = <<>> /\ thr[u] \in Thread
        BY <1>1, <2>5 DEF Orderly, Paced
      <4> QED
        BY <4>1, NoSlots
    <3>3. Kids(g) = Kids(thr[t]) \ {u} /\ Apart(g)
      BY <2>6, <2>11 DEF Family, Held
    <3>4. \A v \in Callers \ {u} : /\ (thr'[v].pc = "none") <=> (thr[v].pc = "none")
                                   /\ thr'[v].parent = thr[v].parent /\ thr'[v].born = thr[v].born
                                   /\ thr'[v].call = thr[v].call
      BY <1>1, <2>6, <2>8
    <3>5. Hung'
      <4> SUFFICES ASSUME NEW v \in Callers \ {Main}, thr'[v].pc # "none"
                   PROVE  /\ v \in Kids(thr'[thr'[v].parent])
                          /\ thr'[thr'[v].parent].call = thr'[v].born
        BY DEF Hung, Kids
      <4>1. v # u
        BY <2>7, <2>8
      <4>2. v \in Kids(thr[thr[v].parent]) /\ thr[thr[v].parent].call = thr[v].born
        BY <2>11, <3>4, <4>1 DEF Family, Hung
      <4>3. thr[v].parent \in Callers \ {u}
        BY <1>1, <3>2, <4>2 DEF Thread
      <4>4. v \in Kids(thr'[thr[v].parent])
        BY <2>8, <3>3, <4>1, <4>2, <4>3
      <4> QED
        BY <3>4, <4>1, <4>2, <4>3, <4>4
    <3>6. Held'
      <4> SUFFICES ASSUME NEW w \in Callers
                   PROVE  /\ \A v \in Kids(thr'[w]) : v # Main /\ thr'[v].pc # "none" /\ thr'[v].parent = w
                          /\ Apart(thr'[w])
        BY DEF Held, Kids, Apart
      <4>1. Apart(thr'[w])
        BY <2>8, <2>9, <2>11, <3>3 DEF Family, Held
      <4>2. ASSUME NEW v \in Kids(thr'[w])
            PROVE  v # Main /\ thr'[v].pc # "none" /\ thr'[v].parent = w
        <5>1. v \in Callers
          BY DEF Kids
        <5>2. v \in Kids(thr[w])
          BY <2>8, <2>9, <3>3, <4>2
        <5>3. v # Main /\ thr[v].pc # "none" /\ thr[v].parent = w
          BY <2>11, <5>2 DEF Family, Held
        <5>4. v # u
          BY <2>8, <3>1, <3>3, <4>2, <5>3
        <5> QED
          BY <3>4, <5>1, <5>3, <5>4
      <4> QED
        BY <4>1, <4>2
    <3>7. Rooted'
      <4> SUFFICES ASSUME NEW G \in SUBSET (Callers \ {Main}), G # {}
                   PROVE  \E v \in G : thr'[v].pc = "none" \/ thr'[v].parent \notin G
        BY DEF Rooted
      <4>1. PICK v \in G : thr[v].pc = "none" \/ thr[v].parent \notin G
        BY <2>11 DEF Family, Rooted
      <4>2. CASE u \in G
        BY <2>7, <2>8, <4>2
      <4>3. CASE u \notin G
        BY <3>4, <4>1, <4>3
      <4> QED
        BY <4>2, <4>3
    <3> QED
      BY <3>5, <3>6, <3>7 DEF Family
  <2>12. thr'[Main].pc \notin {"none", "new", "out"}
    BY <1>1, <2>5, <2>6, <2>8 DEF Orderly, Given
  <2> QED
    BY <2>8, <2>10, <2>11, <2>12 DEF Threads
<1> QED
  BY <1>2, <1>3

\* Nothing happens to the threads.
LEMMA StillStep ==
  ASSUME Orderly, cat' = cat, thr' = thr
  PROVE  Threads' /\ (Family => Family')
<1>1. Threads'
  BY DEF Orderly, TypeOK, Given, Threads, Paced
<1>2. Family => Family'
  BY DEF Family, Hung, Held, Rooted, Kids, Apart
<1> QED
  BY <1>1, <1>2

\* main begins with an argument, or takes the one that failed for a slug.
LEMMA BuildStep ==
  ASSUME Orderly, thr[Main].pc = "arg", cat' = cat,
         NEW p \in Pkgs, NEW place \in Places, NEW name \in DOMAIN ManifestNames,
         BuildPackage(p, place, name)
  PROVE  Threads' /\ (Family => Family')
<1>1. PICK c \in Nat : c = thr[Main].call + 1
  <2>1. thr[Main] \in Thread
    BY ThreadsAssumption DEF Orderly, TypeOK, Main
  <2> QED
    BY <2>1 DEF Thread
<1>2. PICK g : g = [Nobody EXCEPT !.pc = "enter", !.pkg = p, !.place = place, !.name = name, !.call = c]
  OBVIOUS
<1>3. thr' = [thr EXCEPT ![Main] = g]
  BY <1>1, <1>2 DEF BuildPackage, Become
<1>4. g \in Thread /\ g.pc = "enter" /\ g.slots = <<>> /\ g.k = 1
  <2>1. Nobody \in Thread /\ Nobody.slots = <<>> /\ Nobody.k = 1
    BY NobodyType
  <2>2. PICK f \in Thread : f = Nobody
    BY <2>1
  <2>3. g \in Thread /\ g.pc = "enter" /\ g.slots = f.slots /\ g.k = f.k
    BY <1>2, <2>2 DEF Thread
  <2> QED
    BY <2>1, <2>2, <2>3
<1>5. Paced(g) /\ Kids(g) = {} /\ Apart(g)
  BY <1>4, NoSlots DEF Paced
<1>6. Kids(thr[Main]) = {} /\ Main \in Callers
  <2>1. thr[Main].slots = <<>> /\ thr[Main] \in Thread /\ Main \in Callers
    BY ThreadsAssumption DEF Orderly, TypeOK, Paced, Main
  <2> QED
    BY <2>1, NoSlots
<1> QED
  BY <1>3, <1>4, <1>5, <1>6, Quiet DEF Threads

\* What a step of a thread does to the threads, and to the notes the model keeps.
LEMMA ThreadStep ==
  ASSUME Orderly, NEW t \in Callers, Step(t)
  PROVE  /\ Threads'
         /\ ~lost' => ~lost /\ (Family => Family') /\ (Family /\ ~dangling => ~dangling')
         /\ lost' \in BOOLEAN /\ dangling' \in BOOLEAN
         /\ cat' = cat /\ set' = set /\ todo' = todo /\ ran' \in [Pkgs \X Places -> Nat]
         /\ done' \in [Keys -> {"none", "t", "f"}]
         /\ status = "running" /\ status' \in {"running", "crashed"}
<1> USE DEF Only
<1>1. /\ lost \in BOOLEAN /\ dangling \in BOOLEAN /\ ran \in [Pkgs \X Places -> Nat]
      /\ done \in [Keys -> {"none", "t", "f"}]
  BY DEF Orderly, TypeOK, Given
<1>2. Paced(thr[t]) /\ thr[t] \in Thread
  BY DEF Orderly, TypeOK
<1>3. CASE Start(t)
  <2>1. Threads' /\ (Family => Family')
    BY <1>3, FindStep DEF Start, Running
  <2>2. ASSUME Family, ~dangling PROVE ~dangling'
    <3>1. thr[t].pc = "new" /\ t # Main
      BY <1>3 DEF Start, Running, Orderly, Given
    <3>2. thr[thr[t].parent].call = thr[t].born
      BY <2>2, <3>1 DEF Family, Hung
    <3>3. dangling' = (dangling \/ thr[thr[t].parent].call # thr[t].born)
      BY <1>3 DEF Start
    <3> QED
      BY <2>2, <3>2, <3>3
  <2>3. dangling' \in BOOLEAN
    BY <1>3 DEF Start
  <2> QED
    BY <1>1, <1>3, <2>1, <2>2, <2>3 DEF Start, Running
<1>4. CASE Enter(t)
  <2>1. Threads' /\ (Family => Family')
    BY <1>4, FindStep DEF Enter, Running
  <2> QED
    BY <1>1, <1>4, <2>1 DEF Enter, Running
<1>5. CASE Read(t)
  <2>1. thr[t].pc = "read" /\ thr[t].slots = <<>> /\ cat' = cat
    BY <1>2, <1>5 DEF Read, Running, Paced
  <2> DEFINE found == IF thr[t].place = "slug" THEN "none" ELSE cat[thr[t].pkg].local[thr[t].name]
  <2>2. found \in {"good", "bad", "none"}
    <3>1. thr[t].pkg \in Pkgs /\ thr[t].name \in DOMAIN ManifestNames
      BY <1>2 DEF Thread
    <3>2. cat[thr[t].pkg] \in Manifest
      BY <3>1 DEF Orderly, Given
    <3> QED
      BY <3>1, <3>2 DEF Manifest
  <2>3. \/ lost' = lost /\ \E x \in {"work", "own"} : Become(t, [thr[t] EXCEPT !.pc = x])
        \/ lost' = TRUE /\ Leave(t, 1)
    BY <1>5, <2>2 DEF Read
  <2>4. Threads' /\ (lost' = lost \/ lost' = TRUE) /\ (Family => Family')
    BY <2>1, <2>3, PlaceStep, LeaveStep
  <2>5. /\ status = "running" /\ status' = status /\ cat' = cat /\ set' = set /\ todo' = todo
        /\ ran' = ran /\ done' = done /\ dangling' = dangling
    BY <1>5 DEF Read, Running
  <2> QED
    <3>1. CASE lost' = lost
      BY <1>1, <2>4, <2>5, <3>1
    <3>2. CASE lost' = TRUE
      BY <1>1, <2>4, <2>5, <3>2
    <3> QED
      BY <2>4, <3>1, <3>2
<1>6. CASE Own(t)
  <2>1. thr[t].pc = "own" /\ thr[t].slots = <<>> /\ cat' = cat
    BY <1>2, <1>6 DEF Own, Running, Paced
  <2>2. \/ lost' = lost /\ Become(t, [thr[t] EXCEPT !.pc = "work"])
        \/ lost' = TRUE /\ Leave(t, 1)
    BY <1>6 DEF Own
  <2>3. Threads' /\ (lost' = lost \/ lost' = TRUE) /\ (Family => Family')
    BY <2>1, <2>2, PlaceStep, LeaveStep
  <2>4. /\ status = "running" /\ status' = status /\ cat' = cat /\ set' = set /\ todo' = todo
        /\ ran' = ran /\ done' = done /\ dangling' = dangling
    BY <1>6 DEF Own, Running
  <2> QED
    <3>1. CASE lost' = lost
      BY <1>1, <2>3, <2>4, <3>1
    <3>2. CASE lost' = TRUE
      BY <1>1, <2>3, <2>4, <3>2
    <3> QED
      BY <2>3, <3>1, <3>2
<1>7. CASE Make(t) \/ Configure(t)
  <2>1. /\ thr[t].pc = "work" /\ thr[t].slots = <<>> /\ cat' = cat
        /\ Become(t, [thr[t] EXCEPT !.pc = "run"])
    BY <1>2, <1>7 DEF Make, Configure, Running, Paced
  <2>2. Threads' /\ (Family => Family')
    BY <2>1, PlaceStep
  <2>3. ran' \in [Pkgs \X Places -> Nat]
    <3>1. <<thr[t].pkg, thr[t].place>> \in Pkgs \X Places
      BY <1>2 DEF Thread
    <3>2. ran' = [ran EXCEPT ![<<thr[t].pkg, thr[t].place>>] = @ + 1]
      BY <1>7 DEF Make, Configure
    <3> QED
      BY <1>1, <3>1, <3>2
  <2> QED
    BY <1>1, <1>7, <2>2, <2>3 DEF Make, Configure, Running
<1>8. CASE PrintFlags(t) \/ Mark(t)
  <2>1. /\ thr[t].pc \in {"work", "run"} /\ thr[t].slots = <<>> /\ cat' = cat
        /\ Become(t, [thr[t] EXCEPT !.pc = "dep"])
    BY <1>2, <1>8 DEF PrintFlags, Mark, Running, Paced
  <2>2. Threads' /\ (Family => Family')
    BY <2>1, PlaceStep
  <2>3. done' \in [Keys -> {"none", "t", "f"}]
    <3>1. \E x \in {"t", "f"} : done' = [done EXCEPT ![Key(t)] = x]
      BY <1>8 DEF PrintFlags, Mark
    <3> QED
      BY <1>1, <3>1
  <2> QED
    BY <1>1, <1>8, <2>2, <2>3 DEF PrintFlags, Mark, Running
<1>9. CASE Dep(t)
  <2>1. /\ thr[t].pc = "dep" /\ cat' = cat /\ thr[t].k <= Len(List(t))
        /\ Become(t, [thr[t] EXCEPT !.pc = "slug"])
    BY <1>9 DEF Dep, Running
  <2>2. Threads' /\ (Family => Family')
    BY <2>1, PlaceStep
  <2> QED
    BY <1>1, <1>9, <2>2 DEF Dep, Running
<1>10. CASE LoseDependency(t)
  <2>1. thr[t].pc = "slug" /\ cat' = cat /\ Leave(t, 1)
    BY <1>10 DEF LoseDependency, Lost, Running
  <2>2. Threads'
    BY <2>1, LeaveStep
  <2> QED
    BY <1>1, <1>10, <2>2 DEF LoseDependency, Lost, Running
<1>11. CASE LoseAll(t)
  <2>1. Threads'
    BY <1>11, StillStep DEF LoseAll
  <2> QED
    BY <1>1, <1>11, <2>1 DEF LoseAll, Lost, Running
<1>12. CASE Create(t)
  <2>1. Threads' /\ (Family => Family')
    BY <1>12, CreateStep
  <2> QED
    BY <1>1, <1>12, <2>1 DEF Create, Running
<1>13. CASE CreateFails(t)
  <2>1. Threads' /\ (Family => Family')
    BY <1>13, CreateFailsStep
  <2> QED
    BY <1>1, <1>13, <2>1 DEF CreateFails, Running
<1>14. CASE Join(t)
  <2>1. Threads' /\ (Family => Family')
    BY <1>14, JoinStep
  <2>2. status = "running" /\ status' \in {status, "crashed"}
    BY <1>14 DEF Join, Running
  <2> QED
    BY <1>1, <1>14, <2>1, <2>2 DEF Join
<1>15. CASE EndOfList(t)
  <2>1. thr[t].pc = "dep" /\ thr[t].k > Len(List(t)) /\ cat' = cat
    BY <1>15 DEF EndOfList, Running
  <2>2. thr[t].slots = <<>>
    <3>1. List(t) = cat[thr[t].pkg][thr[t].list] /\ Len(List(t)) \in Nat /\ thr[t].k \in Nat
      BY <1>2, ListType, LenProperties DEF Orderly, Thread
    <3> QED
      BY <1>2, <2>1, <3>1 DEF Paced
  <2>3. CASE Leave(t, 0)
    BY <1>1, <1>15, <2>1, <2>2, <2>3, LeaveStep DEF EndOfList, Running
  <2>4. CASE Become(t, [thr[t] EXCEPT !.list = "dev", !.k = 1])
    <3>1. PICK g : g = [thr[t] EXCEPT !.list = "dev", !.k = 1]
      OBVIOUS
    <3>2. PICK f \in Thread : f = thr[t]
      BY <1>2
    <3>3. /\ g \in Thread /\ g.pc = f.pc /\ g.slots = f.slots /\ g.k = 1
          /\ g.parent = f.parent /\ g.born = f.born
      BY <3>1, <3>2 DEF Thread
    <3>4. Paced(g) /\ Kids(g) = {} /\ Apart(g) /\ Kids(thr[t]) = {}
      BY <1>2, <2>1, <2>2, <3>2, <3>3, NoSlots DEF Paced
    <3>5. thr' = [thr EXCEPT ![t] = g]
      BY <2>4, <3>1 DEF Become
    <3>6. Threads' /\ (Family => Family')
      BY <2>1, <3>2, <3>3, <3>4, <3>5, Quiet DEF Threads
    <3> QED
      BY <1>1, <1>15, <3>6 DEF EndOfList, Running
  <2> QED
    BY <1>15, <2>3, <2>4 DEF EndOfList
<1>16. CASE Library(t)
  <2>1. Threads' /\ (Family => Family')
    BY <1>16, StillStep DEF Library, buildVars
  <2> QED
    BY <1>1, <1>16, <2>1 DEF Library, buildVars
<1> QED
  BY <1>3, <1>4, <1>5, <1>6, <1>7, <1>8, <1>9, <1>10, <1>11, <1>12, <1>13, <1>14, <1>15, <1>16 DEF Step

\* main goes on to the next argument, or exits.
LEMMA ArgumentStep ==
  ASSUME Orderly, Argument
  PROVE  /\ Threads' /\ (Family => Family')
         /\ todo' \in Seq(Pkgs)
         /\ status' = "exited" => thr'[Main].pc = "arg"
         /\ status' \in {"running", "exited"}
         /\ UNCHANGED <<pkgVars, cat, set, done, ran, lost, dangling>>
<1> DEFINE f == thr[Main]
           failed == f.rc # 0 /\ f.place = "dir"
<1>1. /\ f \in Thread /\ f.pc = "arg" /\ status = "running" /\ todo \in Seq(Pkgs) /\ cat' = cat
      /\ UNCHANGED <<pkgVars, cat, set, done, ran, lost, dangling>>
  BY ThreadsAssumption DEF Orderly, TypeOK, Given, Argument, Running, Only, Main
<1>2. f.pkg \in Pkgs /\ "slug" \in Places /\ Where \in Places /\ First \in DOMAIN ManifestNames
      /\ 1 \in DOMAIN ManifestNames
  BY <1>1 DEF Thread, Where, First, Places, ManifestNames
<1>3. CASE failed /\ BuildPackage(f.pkg, "slug", 1) /\ UNCHANGED <<todo, status>>
  BY <1>1, <1>2, <1>3, BuildStep
<1>4. CASE todo # <<>> /\ BuildPackage(Head(todo), Where, First) /\ todo' = Tail(todo) /\ UNCHANGED status
  <2>1. Head(todo) \in Pkgs /\ Tail(todo) \in Seq(Pkgs)
    BY <1>1, <1>4, HeadTailProperties
  <2> QED
    BY <1>1, <1>2, <1>4, <2>1, BuildStep
<1>5. CASE status' = "exited" /\ UNCHANGED <<thr, todo>>
  BY <1>1, <1>5, StillStep
<1> QED
  BY <1>3, <1>4, <1>5 DEF Argument

\* The threads' order is kept, with the library's.
LEMMA OrderlyStep == Inv /\ Orderly /\ [Next]_vars => Inv' /\ Orderly'
<1> SUFFICES ASSUME Inv, Orderly, [Next]_vars PROVE Inv' /\ Orderly'
  OBVIOUS
<1>1. CASE UNCHANGED vars
  <2>1. UNCHANGED pkgVars /\ cat' = cat /\ thr' = thr
    BY <1>1 DEF vars, buildVars
  <2>2. Inv' /\ Threads' /\ (Family => Family')
    BY <2>1, StepInv, StillStep
  <2> QED
    BY <1>1, <2>2 DEF vars, buildVars, pkgVars, Orderly, TypeOK, Given, Threads
<1>2. CASE Argument
  <2>1. Inv'
    BY <1>2, ArgumentStep, StepInv
  <2> QED
    BY <1>2, <2>1, ArgumentStep DEF Orderly, TypeOK, Given, Threads, pkgVars
<1>3. ASSUME NEW t \in Callers, Step(t) PROVE Inv' /\ Orderly'
  <2>1. Inv'
    BY <1>3, LibraryStep, StepInv
  <2>2. lock' \in Callers \cup {NoThread} /\ get' \in [Callers -> Call] /\ json' \in [Pkgs -> Entry]
    BY <2>1 DEF Inv, Types
  <2>3. TypeOK'
    BY <1>3, <2>2, ThreadStep DEF TypeOK, Threads
  <2>4. Given'
    BY <1>3, ThreadStep DEF Orderly, Given, Threads
  <2>5. \A u \in Callers : Paced(thr[u])'
    BY <1>3, ThreadStep DEF Threads
  <2>6. ~lost' => Family' /\ ~dangling'
    BY <1>3, ThreadStep DEF Orderly
  <2> QED
    BY <2>1, <2>3, <2>4, <2>5, <2>6 DEF Orderly
<1> QED
  BY <1>1, <1>2, <1>3 DEF Next

\* The names of a command line are counted.
LEMMA NamedFinite ==
  ASSUME NEW line \in Seq(Words)
  PROVE  Cardinality(Named(line)) \in 0..Len(line) /\ Named(line) \subseteq 1..Len(line)
<1>1. Len(line) \in Nat /\ DOMAIN line = 1..Len(line)
  BY LenProperties
<1>2. IsFiniteSet(1..Len(line)) /\ Cardinality(1..Len(line)) = Len(line)
  BY <1>1, FS_Interval
<1>3. Named(line) \subseteq 1..Len(line)
  BY <1>1 DEF Named
<1>4. IsFiniteSet(Named(line)) /\ Cardinality(Named(line)) <= Len(line)
  BY <1>2, <1>3, FS_Subset
<1> QED
  BY <1>1, <1>3, <1>4, FS_CardinalityType

\* The first n of a sequence, element by element.
LEMMA FirstOf ==
  ASSUME NEW S, NEW s \in Seq(S), NEW n \in 0..Len(s)
  PROVE  /\ DOMAIN SubSeq(s, 1, n) = 1..n /\ Len(SubSeq(s, 1, n)) = n
         /\ \A i \in 1..n : SubSeq(s, 1, n)[i] = s[i]
<1>1. Len(s) \in Nat /\ n \in Nat /\ 1 \in 1..(Len(s) + 1) /\ n - 1 + 1 = n
  BY LenProperties
<1> DEFINE T == {s[i] : i \in 1..n}
<1>2. /\ SubSeq(s, 1, n) \in Seq(T)
      /\ Len(SubSeq(s, 1, n)) = IF 1 <= n THEN n - 1 + 1 ELSE 0
      /\ \A i \in 1..(n - 1 + 1) : SubSeq(s, 1, n)[i] = s[1 + i - 1]
  <2>1. 1 \in Int /\ n \in Int /\ \A i \in 1..n : s[i] \in T
    BY <1>1
  <2> HIDE DEF T
  <2> QED
    BY <2>1, SubSeqProperties
<1>3. Len(SubSeq(s, 1, n)) = n
  BY <1>1, <1>2
<1>4. \A i \in 1..n : SubSeq(s, 1, n)[i] = s[i]
  <2> SUFFICES ASSUME NEW i \in 1..n PROVE SubSeq(s, 1, n)[i] = s[i]
    OBVIOUS
  <2>1. i \in 1..(n - 1 + 1) /\ 1 + i - 1 = i
    BY <1>1
  <2> QED
    BY <1>2, <2>1
<1>5. DOMAIN SubSeq(s, 1, n) = 1..n
  BY <1>2, <1>3, LenProperties
<1> QED
  BY <1>3, <1>4, <1>5

\* What main takes for names are words other than `--`.
LEMMA ArgumentsType ==
  ASSUME NEW line \in Seq(Words), NEW here \in Pkgs
  PROVE  Arguments(line, here) \in Seq(Pkgs)
<1>1. CASE Nameless(line)
  BY <1>1 DEF Arguments
<1>2. CASE ~Nameless(line)
  <2> DEFINE n == Cardinality(Named(line))
  <2>1. n \in 0..Len(line) /\ Len(line) \in Nat /\ DOMAIN line = 1..Len(line)
    BY NamedFinite, LenProperties
  <2>2. \A i \in 1..Len(line) : line[i] \in Pkgs
    <3>1. \A i \in 1..Len(line) : line[i] \in Words
      BY ElementOfSeq
    <3> QED
      BY <1>2, <2>1, <3>1 DEF Nameless, Words
  <2> HIDE DEF n
  <2>3. 1 \in Int /\ n \in Int /\ \A i \in 1..n : line[i] \in Pkgs
    BY <2>1, <2>2
  <2>4. SubSeq(line, 1, n) \in Seq(Pkgs)
    BY <2>3, SubSeqProperties
  <2> QED
    BY <1>2, <2>4 DEF Arguments, n
<1> QED
  BY <1>1, <1>2

\* A command line without names stands for the current directory.
LEMMA InitOrderly == Init => Inv /\ Orderly
<1> SUFFICES ASSUME Init PROVE Inv /\ Orderly
  OBVIOUS
<1>1. PICK s \in Scenarios : cat = s.cat /\ command = s.command /\ set = s.set /\ json = s.json
  BY DEF Init
<1>2. /\ cat \in [Pkgs -> Manifest] /\ json \in [Pkgs -> {"none", "fresh", "old"}]
      /\ Arguments(set.line, set.here) \in Seq(Pkgs)
  BY <1>1, ArgumentsType, ScenariosAssumption
<1>3. todo \in Seq(Pkgs)
  BY <1>2 DEF Init, BuildMain, ConfigureMain
<1>4. Pkgs # {}
  <2>1. CASE Nameless(set.line)
    <3>1. <<set.here>> \in Seq(Pkgs)
      BY <1>2, <2>1 DEF Arguments
    <3>2. <<set.here>>[1] \in Pkgs
      BY <3>1
    <3> QED
      BY <3>2
  <2>2. CASE ~Nameless(set.line)
    BY <2>2 DEF Nameless, Named
  <2> QED
    BY <2>1, <2>2
<1>5. Inv
  BY <1>2, <1>4, InitInv DEF Init
<1>6. PICK p : p \in Pkgs
  BY <1>4
<1>7. PICK n \in Thread : n = Nobody /\ n.pc = "none" /\ n.slots = <<>> /\ n.k = 1
  BY <1>6, NobodyType
<1>8. PICK m : m = [n EXCEPT !.pc = "arg"]
  OBVIOUS
<1>9. m \in Thread /\ m.pc = "arg" /\ m.slots = <<>> /\ m.k = 1
  BY <1>7, <1>8 DEF Thread
<1>10. thr = [t \in Callers |-> IF t = Main THEN m ELSE n] /\ Main \in Callers
  BY <1>7, <1>8, ThreadsAssumption DEF Init, Main
<1>11. \A t \in Callers : /\ thr[t] \in Thread /\ thr[t].slots = <<>> /\ thr[t].k = 1
                          /\ thr[t].pc = IF t = Main THEN "arg" ELSE "none"
  BY <1>7, <1>9, <1>10
<1>12. TypeOK
  <2>1. thr \in [Callers -> Thread]
    BY <1>10, <1>11
  <2>2. lock \in Callers \cup {NoThread} /\ get \in [Callers -> Call] /\ json \in [Pkgs -> Entry]
    BY <1>5 DEF Inv, Types
  <2> QED
    BY <2>1, <2>2 DEF TypeOK, Init
<1>13. Given
  BY <1>2, <1>3, <1>10, <1>11 DEF Given, Init
<1>14. \A t \in Callers : Paced(thr[t])
  BY <1>11 DEF Paced
<1>15. \A t \in Callers : Kids(thr[t]) = {} /\ Apart(thr[t])
  BY <1>11, NoSlots
<1>16. Family
  BY <1>11, <1>15 DEF Family, Hung, Held, Rooted
<1> QED
  BY <1>5, <1>12, <1>13, <1>14, <1>16 DEF Orderly, Init

\* clib-build and clib-configure, whatever is built and with whatever threads: the
\* library's invariant and the order of the threads (clib-build.c:68-739).
THEOREM BuildInvariant == Spec => [](Inv /\ Orderly)
  BY InitOrderly, OrderlyStep, PTL DEF Spec

\* The types of both.
THEOREM BuildTypes == Spec => []TypeOK
<1>1. Inv /\ Orderly => TypeOK
  BY DEF Orderly
<1> QED
  BY <1>1, BuildInvariant, PTL

\* The threads of a build are never two in the sections of the library's mutex, and
\* read no half of a manifest, until a retry (clib-package.c:629-764).
THEOREM BuildGuarded == Spec => []CacheGuarded
<1>1. Inv /\ Orderly => CacheGuarded
  BY DEF Inv, Types, Guarded, CacheGuarded, Exclusive, WholeManifest
<1> QED
  BY <1>1, BuildInvariant, PTL

\* When main is between arguments, the family is main alone.
LEMMA NobodyLeft ==
  ASSUME Orderly, Family, thr[Main].pc = "arg", NEW t \in Callers \ {Main}
  PROVE  thr[t].pc = "none"
<1>1. \A u \in Callers : thr[u] \in Thread /\ thr[u].parent \in Callers
  BY DEF Orderly, TypeOK, Thread
<1>2. \A u \in Callers : thr[u].pc \in {"arg", "none"} => Kids(thr[u]) = {}
  BY <1>1, NoSlots DEF Orderly, Paced
<1> DEFINE G == {u \in Callers \ {Main} : thr[u].pc # "none"}
<1>3. ASSUME G # {} PROVE FALSE
  <2>1. PICK u \in G : thr[u].parent \notin G
    BY <1>3 DEF Family, Rooted
  <2>2. u \in Kids(thr[thr[u].parent])
    BY DEF Family, Hung
  <2>3. thr[u].parent = Main \/ thr[thr[u].parent].pc = "none"
    BY <1>1, <2>1
  <2> QED
    BY <1>1, <1>2, <2>2, <2>3
<1> QED
  BY <1>3

\* No child reads a frame that is gone and none outlives the program, until a manifest
\* is lost (clib-build.c:321-391, :68-83).
THEOREM NobodyOrphaned == Spec => []ParentsWait
<1>1. Inv /\ Orderly => ParentsWait
  <2> SUFFICES ASSUME Orderly, ~lost
               PROVE  ~dangling /\ (status = "exited" => \A t \in Callers \ {Main} : ~Alive(t))
    BY DEF ParentsWait
  <2>1. Family /\ ~dangling
    BY DEF Orderly
  <2>2. ASSUME status = "exited", NEW t \in Callers \ {Main} PROVE ~Alive(t)
    <3>1. thr[Main].pc = "arg"
      BY <2>2 DEF Orderly, Given
    <3>2. thr[t].pc = "none"
      BY <2>1, <3>1, NobodyLeft
    <3> QED
      BY <3>2 DEF Alive
  <2> QED
    BY <2>1, <2>2
<1> QED
  BY <1>1, BuildInvariant, PTL

-----------------------------------------------------------------------------
(* What is built, while no manifest is lost.                               *)

\* The pace of a thread: at its package's own work, or at the dependencies of it.
Early == {"new", "enter", "read", "own", "work", "run"}
Late == {"dep", "slug", "join"}
Busy(f) == f.pc \notin {"none", "arg"}

\* A place has its first manifest's name; work begins at the beginning of the lists;
\* a package is done before its dependencies are begun.
NameAt(place) == IF place = "here" THEN First ELSE 1
SteadyOf(u, f) ==
    /\ u = Main => f.rc = 0 /\ (Busy(f) => f.place = Where)
    /\ u # Main => f.place = "dir"
    /\ Busy(f) => f.name = NameAt(f.place)
    /\ f.pc \in Early => f.list = "deps" /\ f.k = 1
    /\ f.pc \in Late => f.list \in Lists
    /\ f.pc \in Late \cup {"out"} => done[<<f.pkg, f.place, f.name>>] # "none"
Steady == \A u \in Callers : SteadyOf(u, thr[u])

\* What of its lists a thread has before it.
Ahead(f, l, i) == (f.list = l /\ i >= f.k) \/ (f.list = "deps" /\ l = "dev")

\* Main has taken its arguments from the first on.
Taken == Len(Args) - Len(todo)

\* A set with the arguments and all that its members lead to.
Closed(s) == /\ \A i \in DOMAIN Args : Args[i] \in s
             /\ \A p \in s : Wanted(p) \subseteq s

\* What is reached is in every such set.
LEMMA ReachedIs == Reached = {p \in Pkgs : \A s \in SUBSET Pkgs : Closed(s) => p \in s}
<1>1. \A s : {Args[i] : i \in DOMAIN Args} \subseteq s <=> \A i \in DOMAIN Args : Args[i] \in s
  OBVIOUS
<1> QED
  BY <1>1 DEF Reached, LedTo, Closed

Lined == /\ Args \in Seq(Pkgs)
         /\ Len(todo) <= Len(Args)
         /\ \A m \in 1..Len(todo) : todo[m] = Args[Taken + m]

\* A dependency of a package that is done is done as well, or a thread is at it, or
\* the thread of the package has it before it; so is an argument, or main has.
Covered(p) == done[<<p, "dir", 1>>] # "none"
              \/ \E u \in Callers \ {Main} : thr[u].pc \in Early /\ thr[u].pkg = p
Gap(f) == \E i \in DOMAIN f.slots : f.slots[i] = NoChild
Garbled == \E t \in Callers : Gap(thr[t])
Behind(key, l, i) == \E t \in Callers : thr[t].pc \in Late /\ Key(t) = key /\ Ahead(thr[t], l, i)
Followed == \A key \in Keys, l \in Lists : \A i \in DOMAIN cat[key[1]][l] :
                done[key] # "none" => Covered(cat[key[1]][l][i]) \/ Behind(key, l, i) \/ Garbled
Heeded == \A j \in 1..Taken : \/ done[<<Args[j], Where, First>>] # "none"
                              \/ thr[Main].pc \in Early /\ thr[Main].pkg = Args[j]
Pending == Followed /\ Heeded /\ (status = "exited" => todo = <<>>)

\* One child at a time: one thread is at work, and the rest wait for one another.
InTurn ==
    /\ \A t, u \in Callers : thr[t].pc \notin {"none", "join"} /\ thr[u].pc \notin {"none", "join"} => t = u
    /\ \A t \in Callers : thr[t].pc \in {"read", "own", "work"} => done[Key(t)] = "none"
    /\ \A p \in Pkgs, at \in Places :
         /\ ran[<<p, at>>] <= 1
         /\ ran[<<p, at>>] = 1 => \/ done[<<p, at, NameAt(at)>>] # "none"
                                  \/ \E t \in Callers : thr[t].pc = "run" /\ thr[t].pkg = p /\ thr[t].place = at

\* No package asked for twice: what has been begun has been asked for, once.
Begun(p) == \/ \E t \in Callers : Busy(thr[t]) /\ thr[t].pkg = p
            \/ \E at \in Places : ran[<<p, at>>] > 0
            \/ \E key \in Keys : key[1] = p /\ done[key] # "none"
Passed(q, l, i) == Begun(q) /\ \A t \in Callers : Busy(thr[t]) /\ thr[t].pc # "out" /\ thr[t].pkg = q => ~Ahead(thr[t], l, i)
Sought(p) == \/ \E j \in 1..Taken : Args[j] = p
             \/ \E q \in Reached, l \in Lists : \E i \in DOMAIN cat[q][l] : cat[q][l][i] = p /\ Passed(q, l, i)
Apiece ==
    /\ \A p \in Pkgs : Begun(p) => p \in Reached /\ Sought(p)
    /\ \A t, u \in Callers : Busy(thr[t]) /\ Busy(thr[u]) /\ thr[t].pkg = thr[u].pkg => t = u
    /\ \A t \in Callers, at \in Places : thr[t].pc \in Early \ {"run"} => ran[<<thr[t].pkg, at>>] = 0
    /\ \A p \in Pkgs, at \in Places : ran[<<p, at>>] <= 1

Tree == /\ Steady /\ Lined /\ Pending
        /\ set.concurrency = 1 => InTurn
        /\ ~Shared => Apiece
Treed == ~lost => Tree


\* What a step does to the threads, to the hash of packages done and to the commands
\* run, as far as the work goes: a thread goes on in its function, ...
Elsewhere(t) == \A u \in Callers \ {t} : thr'[u] = thr[u]
Alike(f, g) == /\ g.pkg = f.pkg /\ g.place = f.place /\ g.name = f.name
               /\ g.list = f.list /\ g.k = f.k /\ g.slots = f.slots /\ g.rc = f.rc

Advances(t) ==
    /\ Elsewhere(t) /\ Alike(thr[t], thr'[t]) /\ done' = done /\ ran' = ran
    /\ \/ thr[t].pc \in {"new", "enter"} /\ thr'[t].pc = "read" /\ done[Key(t)] = "none"
       \/ thr[t].pc \in {"read", "own"} /\ thr'[t].pc \in {"own", "work"}
       \/ thr[t].pc = "dep" /\ thr'[t].pc = "slug"

\* ... starts the package's command, ...
Commands(t) ==
    /\ Elsewhere(t) /\ Alike(thr[t], thr'[t]) /\ done' = done
    /\ thr[t].pc = "work" /\ thr'[t].pc = "run"
    /\ ran' = [ran EXCEPT ![<<thr[t].pkg, thr[t].place>>] = @ + 1]

\* ... enters the package, ...
Marks(t) ==
    /\ Elsewhere(t) /\ Alike(thr[t], thr'[t]) /\ ran' = ran
    /\ thr[t].pc \in {"work", "run"} /\ thr'[t].pc = "dep"
    /\ \E x \in {"t", "f"} : done' = [done EXCEPT ![Key(t)] = x]

\* ... turns to the other list, ...
Turns(t) ==
    /\ Elsewhere(t) /\ done' = done /\ ran' = ran
    /\ thr'[t] = [thr[t] EXCEPT !.list = "dev", !.k = 1]
    /\ thr[t].pc = "dep" /\ thr[t].list = "deps" /\ thr[t].k > Len(List(t))

\* ... returns with its package done, ...
Returns(t) ==
    /\ Elsewhere(t) /\ done' = done /\ ran' = ran
    /\ thr'[t].pkg = thr[t].pkg /\ thr'[t].place = thr[t].place /\ thr'[t].name = thr[t].name
    /\ thr'[t].pc = (IF t = Main THEN "arg" ELSE "out") /\ thr'[t].rc = 0
    /\ thr'[t].slots = <<>> /\ thr[t].slots = <<>>
    /\ \/ thr[t].pc \in {"new", "enter"} /\ done[Key(t)] # "none"
       \/ /\ thr[t].pc = "dep" /\ thr[t].k > Len(List(t))
          /\ ~(set.dev /\ thr[t].list = "deps")

\* ... fills a slot, with a child or with nothing, ...
Fills(t, u) ==
    /\ done' = done /\ ran' = ran
    /\ thr[t].pc = "slug" /\ thr'[t].pc \in {"dep", "join"}
    /\ set.concurrency = 1 => thr'[t].pc = "join"
    /\ thr'[t].pkg = thr[t].pkg /\ thr'[t].place = thr[t].place /\ thr'[t].name = thr[t].name
    /\ thr'[t].list = thr[t].list /\ thr'[t].k = thr[t].k + 1 /\ thr'[t].rc = thr[t].rc
    /\ thr'[t].slots = Append(thr[t].slots, u)

Makes(t, u) ==
    /\ Fills(t, u)
    /\ \A v \in Callers \ {t, u} : thr'[v] = thr[v]
    /\ thr[u].pc = "none"
    /\ thr'[u].pc = "new" /\ thr'[u].pkg = List(t)[thr[t].k] /\ thr'[u].place = "dir"
    /\ thr'[u].name = 1 /\ thr'[u].list = "deps" /\ thr'[u].k = 1 /\ thr'[u].slots = <<>>

Skips(t) == Fills(t, NoChild) /\ Elsewhere(t)

\* ... or joins a child.
Joins(t, u) ==
    /\ done' = done /\ ran' = ran
    /\ \A v \in Callers \ {t, u} : thr'[v] = thr[v]
    /\ thr[u].pc = "out" /\ u = Head(thr[t].slots)
    /\ thr'[u].pc = "none" /\ thr'[u].place = "dir" /\ thr'[u].slots = <<>>
    /\ thr[t].pc = "join" /\ thr'[t].pc \in {"dep", "join"}
    /\ thr'[t].pkg = thr[t].pkg /\ thr'[t].place = thr[t].place /\ thr'[t].name = thr[t].name
    /\ thr'[t].list = thr[t].list /\ thr'[t].k = thr[t].k /\ thr'[t].rc = thr[t].rc
    /\ thr'[t].slots = Tail(thr[t].slots)

Stays == thr' = thr /\ done' = done /\ ran' = ran

\* main begins with an argument.
Begins ==
    /\ Elsewhere(Main) /\ done' = done /\ ran' = ran
    /\ todo # <<>> /\ todo' = Tail(todo)
    /\ thr[Main].pc = "arg"
    /\ thr'[Main].pc = "enter" /\ thr'[Main].pkg = Head(todo) /\ thr'[Main].place = Where
    /\ thr'[Main].name = First /\ thr'[Main].list = "deps" /\ thr'[Main].k = 1
    /\ thr'[Main].slots = <<>> /\ thr'[Main].rc = 0

\* What does not change in a run.
LEMMA Fixed ==
  ASSUME cat' = cat, set' = set
  PROVE  /\ Args' = Args /\ Lists' = Lists /\ First' = First /\ Where' = Where
         /\ Reached' = Reached /\ Shared' = Shared
<1>1. Args' = Args /\ Lists' = Lists /\ First' = First /\ Where' = Where
  BY DEF Args, Lists, First, Where
<1>2. \A p : Wanted(p)' = Wanted(p)
  BY <1>1 DEF Wanted
<1>3. \A s : Closed(s)' = Closed(s)
  BY <1>1, <1>2 DEF Closed
<1>4. Reached' = Reached
  <2>1. Reached' = {p \in Pkgs : \A s \in SUBSET Pkgs : Closed(s)' => p \in s}
    <3>1. \A s : {Args'[i] : i \in DOMAIN Args'} \subseteq s <=> \A i \in DOMAIN Args' : Args'[i] \in s
      OBVIOUS
    <3> QED
      BY <3>1 DEF Reached, LedTo, Closed
  <2> QED
    BY <1>3, <2>1, ReachedIs
<1>5. \A p : Askers(p)' = Askers(p)
  BY <1>1, <1>4 DEF Askers
<1> QED
  BY <1>1, <1>4, <1>5 DEF Shared

\* A thread's record after a step of its own.
LEMMA Becomes ==
  ASSUME Orderly, NEW t \in Callers, NEW g, Become(t, g)
  PROVE  thr'[t] = g /\ Elsewhere(t)
  BY DEF Orderly, TypeOK, Become, Elsewhere

\* A thread that returns without failing.
LEMMA LeaveReturns ==
  ASSUME Orderly, NEW t \in Callers, Leave(t, 0)
  PROVE  /\ Elsewhere(t)
         /\ thr'[t].pkg = thr[t].pkg /\ thr'[t].place = thr[t].place /\ thr'[t].name = thr[t].name
         /\ thr'[t].pc = (IF t = Main THEN "arg" ELSE "out") /\ thr'[t].rc = 0
         /\ thr'[t].slots = <<>>
<1>1. PICK g : g = [thr[t] EXCEPT !.pc = IF t = Main THEN "arg" ELSE "out", !.rc = 0,
                                  !.call = @ + 1, !.slots = <<>>]
  OBVIOUS
<1>2. Become(t, g)
  BY <1>1 DEF Leave
<1>3. thr[t] \in Thread
  BY DEF Orderly, TypeOK
<1>4. thr'[t] = g /\ Elsewhere(t)
  BY <1>2, Becomes
<1>5. /\ g.pkg = thr[t].pkg /\ g.place = thr[t].place /\ g.name = thr[t].name /\ g.rc = 0
      /\ g.pc = (IF t = Main THEN "arg" ELSE "out") /\ g.slots = <<>>
  BY <1>1, <1>3 DEF Thread
<1> QED
  BY <1>4, <1>5

\* A thread that goes to another place in its function.
LEMMA PlaceAdvances ==
  ASSUME Orderly, NEW t \in Callers, NEW x \in {"read", "own", "work", "run", "dep", "slug"},
         Become(t, [thr[t] EXCEPT !.pc = x])
  PROVE  Elsewhere(t) /\ Alike(thr[t], thr'[t]) /\ thr'[t].pc = x
<1>1. thr[t] \in Thread
  BY DEF Orderly, TypeOK
<1>2. PICK g : g = [thr[t] EXCEPT !.pc = x]
  OBVIOUS
<1>3. thr'[t] = g /\ Elsewhere(t)
  BY <1>2, Becomes
<1>4. Alike(thr[t], g) /\ g.pc = x
  BY <1>1, <1>2 DEF Thread, Alike
<1> QED
  BY <1>3, <1>4

\* What a step does to the work.
Works(t) ==
    \/ Advances(t) \/ Commands(t) \/ Marks(t) \/ (Turns(t) /\ set.dev) \/ Returns(t) \/ Skips(t) \/ Stays
    \/ \E u \in Callers \ {t, Main} : Makes(t, u) \/ Joins(t, u)

LEMMA StepWorks ==
  ASSUME Orderly, NEW t \in Callers, Step(t), ~lost'
  PROVE  Works(t)
<1> USE DEF Only
<1>1. Paced(thr[t]) /\ thr[t] \in Thread /\ thr \in [Callers -> Thread]
  BY DEF Orderly, TypeOK
<1>2. ASSUME thr[t].pc \in {"new", "enter"}, Find(t), done' = done, ran' = ran PROVE Works(t)
  <2>1. CASE done[Key(t)] # "none"
    <3>1. Leave(t, 0) /\ thr[t].slots = <<>>
      BY <1>1, <1>2, <2>1 DEF Find, Paced
    <3> QED
      BY <1>2, <2>1, <3>1, LeaveReturns DEF Works, Returns
  <2>2. CASE done[Key(t)] = "none"
    <3>1. Become(t, [thr[t] EXCEPT !.pc = "read"])
      BY <1>2, <2>2 DEF Find
    <3>2. Elsewhere(t) /\ Alike(thr[t], thr'[t]) /\ thr'[t].pc = "read"
      BY <3>1, PlaceAdvances
    <3> QED
      BY <1>2, <2>2, <3>2 DEF Works, Advances
  <2> QED
    BY <2>1, <2>2
<1>3. CASE Start(t)
  BY <1>2, <1>3 DEF Start, Running
<1>4. CASE Enter(t)
  BY <1>2, <1>4 DEF Enter, Running
<1>5. CASE Read(t)
  <2>1. thr[t].pc = "read" /\ done' = done /\ ran' = ran
    BY <1>5 DEF Read, Running
  <2> DEFINE found == IF thr[t].place = "slug" THEN "none" ELSE cat[thr[t].pkg].local[thr[t].name]
  <2>2. found \in {"good", "bad", "none"}
    <3>1. thr[t].pkg \in Pkgs /\ thr[t].name \in DOMAIN ManifestNames
      BY <1>1 DEF Thread
    <3>2. cat[thr[t].pkg] \in Manifest
      BY <3>1 DEF Orderly, Given
    <3> QED
      BY <3>1, <3>2 DEF Manifest
  <2>3. \E x \in {"work", "own"} : Become(t, [thr[t] EXCEPT !.pc = x])
    BY <1>5, <2>2 DEF Read
  <2>4. Elsewhere(t) /\ Alike(thr[t], thr'[t]) /\ thr'[t].pc \in {"work", "own"}
    BY <2>3, PlaceAdvances
  <2> QED
    BY <2>1, <2>4 DEF Works, Advances
<1>6. CASE Own(t)
  <2>1. thr[t].pc = "own" /\ done' = done /\ ran' = ran /\ Become(t, [thr[t] EXCEPT !.pc = "work"])
    BY <1>6 DEF Own, Running
  <2>2. Elsewhere(t) /\ Alike(thr[t], thr'[t]) /\ thr'[t].pc = "work"
    BY <2>1, PlaceAdvances
  <2> QED
    BY <2>1, <2>2 DEF Works, Advances
<1>7. CASE Make(t) \/ Configure(t)
  <2>1. /\ thr[t].pc = "work" /\ done' = done /\ Become(t, [thr[t] EXCEPT !.pc = "run"])
        /\ ran' = [ran EXCEPT ![<<thr[t].pkg, thr[t].place>>] = @ + 1]
    BY <1>7 DEF Make, Configure, Running
  <2>2. Elsewhere(t) /\ Alike(thr[t], thr'[t]) /\ thr'[t].pc = "run"
    BY <2>1, PlaceAdvances
  <2> QED
    BY <2>1, <2>2 DEF Works, Commands
<1>8. CASE PrintFlags(t) \/ Mark(t)
  <2>1. /\ thr[t].pc \in {"work", "run"} /\ ran' = ran /\ Become(t, [thr[t] EXCEPT !.pc = "dep"])
        /\ \E x \in {"t", "f"} : done' = [done EXCEPT ![Key(t)] = x]
    BY <1>8 DEF PrintFlags, Mark, Running
  <2>2. Elsewhere(t) /\ Alike(thr[t], thr'[t]) /\ thr'[t].pc = "dep"
    BY <2>1, PlaceAdvances
  <2> QED
    BY <2>1, <2>2 DEF Works, Marks
<1>9. CASE Dep(t)
  <2>1. thr[t].pc = "dep" /\ done' = done /\ ran' = ran /\ Become(t, [thr[t] EXCEPT !.pc = "slug"])
    BY <1>9 DEF Dep, Running
  <2>2. Elsewhere(t) /\ Alike(thr[t], thr'[t]) /\ thr'[t].pc = "slug"
    BY <2>1, PlaceAdvances
  <2> QED
    BY <2>1, <2>2 DEF Works, Advances
<1>10. CASE LoseDependency(t) \/ LoseAll(t)
  BY <1>10 DEF LoseDependency, LoseAll, Lost
<1>11. ASSUME NEW u \in Callers \cup {NoChild}, thr[t].pc = "slug", thr'[t] = Started(t, u),
              done' = done, ran' = ran
       PROVE  Fills(t, u)
  <2>1. thr[t].slots \in Seq(Callers \cup {NoChild})
    BY <1>1 DEF Thread
  <2>2. PICK x \in {"dep", "join"} :
          /\ Started(t, u) = [thr[t] EXCEPT !.slots = Append(thr[t].slots, u), !.k = @ + 1, !.pc = x]
          /\ set.concurrency = 1 => x = "join"
    <3>1. Len(Append(thr[t].slots, u)) >= 1
      <4>1. Len(Append(thr[t].slots, u)) = Len(thr[t].slots) + 1 /\ Len(thr[t].slots) \in Nat
        BY <2>1, AppendProperties, LenProperties
      <4> QED
        BY <4>1
    <3>2. PICK x : x = IF Len(Append(thr[t].slots, u)) >= set.concurrency \/ thr[t].k = Len(List(t))
                       THEN "join" ELSE "dep"
      OBVIOUS
    <3>3. Started(t, u) = [thr[t] EXCEPT !.slots = Append(thr[t].slots, u), !.k = @ + 1, !.pc = x]
      BY <3>2 DEF Started
    <3> QED
      BY <3>1, <3>2, <3>3
  <2>3. PICK g : g = Started(t, u)
    OBVIOUS
  <2>4. /\ g.pc = x /\ g.slots = Append(thr[t].slots, u) /\ g.k = thr[t].k + 1
        /\ g.pkg = thr[t].pkg /\ g.place = thr[t].place /\ g.name = thr[t].name
        /\ g.list = thr[t].list /\ g.rc = thr[t].rc
    BY <1>1, <2>2, <2>3 DEF Thread
  <2> QED
    BY <1>11, <2>2, <2>3, <2>4 DEF Fills
<1>12. CASE Create(t)
  <2>1. PICK u \in Unused :
          thr' = [thr EXCEPT ![t] = Started(t, u),
                             ![u] = [Nobody EXCEPT !.pc = "new", !.pkg = List(t)[thr[t].k],
                                                   !.parent = t, !.born = thr[t].call,
                                                   !.call = thr[u].call]]
    BY <1>12, UnusedThread DEF Create
  <2>2. /\ thr[t].pc = "slug" /\ u \in Callers \ {t, Main} /\ thr[u].pc = "none"
        /\ done' = done /\ ran' = ran
    BY <1>12 DEF Create, Running, Unused, Orderly, Given
  <2>3. PICK h : h = [Nobody EXCEPT !.pc = "new", !.pkg = List(t)[thr[t].k], !.parent = t,
                                    !.born = thr[t].call, !.call = thr[u].call]
    OBVIOUS
  <2>4. thr'[t] = Started(t, u) /\ thr'[u] = h /\ \A v \in Callers \ {t, u} : thr'[v] = thr[v]
    BY <1>1, <2>1, <2>2, <2>3
  <2>5. /\ h.pc = "new" /\ h.pkg = List(t)[thr[t].k] /\ h.place = "dir" /\ h.name = 1
        /\ h.list = "deps" /\ h.k = 1 /\ h.slots = <<>>
    BY <2>3 DEF Nobody
  <2>6. Makes(t, u)
    BY <1>11, <2>2, <2>4, <2>5 DEF Makes
  <2> QED
    BY <2>2, <2>6 DEF Works
<1>13. CASE CreateFails(t)
  <2>1. thr[t].pc = "slug" /\ done' = done /\ ran' = ran /\ Become(t, Started(t, NoChild))
    BY <1>13 DEF CreateFails, Running
  <2>2. thr'[t] = Started(t, NoChild) /\ Elsewhere(t)
    BY <2>1, Becomes
  <2> QED
    BY <1>11, <2>1, <2>2 DEF Works, Skips
<1>14. CASE Join(t)
  <2>1. thr[t].pc = "join" /\ done' = done /\ ran' = ran /\ thr[t].slots # <<>>
    BY <1>1, <1>14 DEF Join, Running, Paced
  <2>2. thr[t].slots \in Seq(Callers \cup {NoChild})
    BY <1>1 DEF Thread
  <2>3. CASE Head(thr[t].slots) = NoChild
    BY <1>14, <2>1, <2>3 DEF Join, Works, Stays
  <2>4. CASE Head(thr[t].slots) # NoChild
    <3>1. PICK u \in Callers : u = Head(thr[t].slots)
      BY <2>1, <2>2, <2>4, HeadTailProperties
    <3>2. PICK x \in {"dep", "join"} : x = IF Len(thr[t].slots) = 1 THEN "dep" ELSE "join"
      OBVIOUS
    <3>3. PICK g : g = Rest(thr[t], x)
      OBVIOUS
    <3>4. PICK h : h = [Nobody EXCEPT !.call = thr[u].call]
      OBVIOUS
    <3>5. /\ thr[u].pc = "out"
          /\ thr' = [thr EXCEPT ![u] = [Nobody EXCEPT !.call = thr[u].call],
                                ![t].slots = Tail(@),
                                ![t].pc = IF Len(thr[t].slots) = 1 THEN "dep" ELSE "join"]
      BY <1>14, <2>4, <3>1 DEF Join
    <3>6. u # t /\ u # Main
      BY <2>1, <3>5 DEF Orderly, Given
    <3>7. thr' = [thr EXCEPT ![u] = h, ![t] = g]
      BY <1>1, <3>2, <3>3, <3>4, <3>5, <3>6 DEF Rest
    <3>8. thr'[t] = g /\ thr'[u] = h /\ \A v \in Callers \ {t, u} : thr'[v] = thr[v]
      BY <1>1, <3>6, <3>7
    <3>9. h.pc = "none" /\ h.place = "dir" /\ h.slots = <<>>
      BY <3>4 DEF Nobody
    <3>10. /\ g.pc = x /\ g.slots = Tail(thr[t].slots)
           /\ g.pkg = thr[t].pkg /\ g.place = thr[t].place /\ g.name = thr[t].name
           /\ g.list = thr[t].list /\ g.k = thr[t].k /\ g.rc = thr[t].rc
      BY <1>1, <3>3 DEF Rest, Thread
    <3>11. Joins(t, u)
      BY <2>1, <3>1, <3>5, <3>8, <3>9, <3>10 DEF Joins
    <3> QED
      BY <3>6, <3>11 DEF Works
  <2> QED
    BY <2>3, <2>4
<1>15. CASE EndOfList(t)
  <2>1. thr[t].pc = "dep" /\ thr[t].k > Len(List(t)) /\ done' = done /\ ran' = ran
    BY <1>15 DEF EndOfList, Running
  <2>2. thr[t].slots = <<>>
    <3>1. List(t) = cat[thr[t].pkg][thr[t].list] /\ Len(List(t)) \in Nat /\ thr[t].k \in Nat
      BY <1>1, ListType, LenProperties DEF Orderly, Thread
    <3> QED
      BY <1>1, <2>1, <3>1 DEF Paced
  <2>3. CASE set.dev /\ thr[t].list = "deps"
    <3>1. Become(t, [thr[t] EXCEPT !.list = "dev", !.k = 1])
      BY <1>15, <2>3 DEF EndOfList
    <3> QED
      BY <2>1, <2>3, <3>1, Becomes DEF Works, Turns
  <2>4. CASE ~(set.dev /\ thr[t].list = "deps")
    <3>1. Leave(t, 0)
      BY <1>15, <2>4 DEF EndOfList
    <3> QED
      BY <2>1, <2>2, <2>4, <3>1, LeaveReturns DEF Works, Returns
  <2> QED
    BY <2>3, <2>4
<1>16. CASE Library(t)
  BY <1>16 DEF Library, buildVars, Works, Stays
<1> QED
  BY <1>3, <1>4, <1>5, <1>6, <1>7, <1>8, <1>9, <1>10, <1>12, <1>13, <1>14, <1>15, <1>16 DEF Step

\* What main does between its arguments, when the last has not failed.
LEMMA ArgumentWorks ==
  ASSUME Orderly, Argument, thr[Main].rc = 0
  PROVE  Begins \/ (Stays /\ todo = <<>> /\ todo' = todo)
<1>1. thr[Main].pc = "arg" /\ done' = done /\ ran' = ran /\ Main \in Callers
  BY ThreadsAssumption DEF Argument, Running, Only, Main
<1>2. CASE todo # <<>> /\ BuildPackage(Head(todo), Where, First) /\ todo' = Tail(todo)
  <2>1. PICK g : g = [Nobody EXCEPT !.pc = "enter", !.pkg = Head(todo), !.place = Where,
                                    !.name = First, !.call = thr[Main].call + 1]
    OBVIOUS
  <2>2. thr'[Main] = g /\ Elsewhere(Main)
    BY <1>1, <1>2, <2>1, Becomes DEF BuildPackage
  <2>3. /\ g.pc = "enter" /\ g.pkg = Head(todo) /\ g.place = Where /\ g.name = First
        /\ g.list = "deps" /\ g.k = 1 /\ g.slots = <<>> /\ g.rc = 0
    BY <2>1 DEF Nobody
  <2> QED
    BY <1>1, <1>2, <2>2, <2>3 DEF Begins
<1>3. CASE todo = <<>> /\ UNCHANGED <<thr, todo>>
  BY <1>1, <1>3 DEF Stays
<1> QED
  BY <1>2, <1>3 DEF Argument

\* What main or a thread of its does to the work.
Doing(t) == Works(t) \/ (t = Main /\ Begins)

\* The types the lemmas below need.
LEMMA WorkTypes ==
  ASSUME Orderly
  PROVE  /\ \A t \in Callers :
              /\ thr[t].pkg \in Pkgs /\ thr[t].place \in Places /\ thr[t].k \in Nat
              /\ thr[t].list \in {"deps", "dev"} /\ Key(t) \in Keys
              /\ thr[t].slots \in Seq(Callers \cup {NoChild}) /\ Paced(thr[t])
              /\ List(t) \in Seq(Pkgs) /\ List(t) = cat[thr[t].pkg][thr[t].list]
              /\ DOMAIN List(t) = 1..Len(List(t)) /\ Len(List(t)) \in Nat
         /\ done \in [Keys -> {"none", "t", "f"}]
         /\ ran \in [Pkgs \X Places -> Nat]
         /\ Main \in Callers /\ NoChild \notin Callers
<1>1. \A t \in Callers : thr[t] \in Thread
  BY DEF Orderly, TypeOK
<1>2. \A t \in Callers :
        /\ thr[t].pkg \in Pkgs /\ thr[t].place \in Places /\ thr[t].k \in Nat
        /\ thr[t].list \in {"deps", "dev"} /\ thr[t].name \in DOMAIN ManifestNames
        /\ thr[t].slots \in Seq(Callers \cup {NoChild})
  BY <1>1 DEF Thread
<1>3. \A t \in Callers : Key(t) \in Keys
  BY <1>2 DEF Key, Keys
<1>4. \A t \in Callers : List(t) \in Seq(Pkgs) /\ List(t) = cat[thr[t].pkg][thr[t].list]
  BY ListType DEF Orderly
<1>5. \A t \in Callers : DOMAIN List(t) = 1..Len(List(t)) /\ Len(List(t)) \in Nat
  BY <1>4, LenProperties
<1> QED
  BY <1>2, <1>3, <1>4, <1>5, ThreadsAssumption DEF Orderly, TypeOK, Main, NoChild

\* What is done stays done.
LEMMA DoneKeeps ==
  ASSUME Orderly, NEW t \in Callers, Doing(t), NEW key \in Keys, done[key] # "none"
  PROVE  done'[key] # "none"
<1>1. CASE Marks(t)
  <2>1. PICK x \in {"t", "f"} : done' = [done EXCEPT ![Key(t)] = x]
    BY <1>1 DEF Marks
  <2> QED
    BY <2>1, WorkTypes
<1>2. CASE ~Marks(t)
  <2>1. done' = done
    BY <1>2 DEF Doing, Works, Begins, Advances, Commands, Turns, Returns, Skips, Makes, Fills, Joins, Stays
  <2> QED
    BY <2>1
<1> QED
  BY <1>1, <1>2

\* A place keeps to its manifest, and what a thread has begun with is done first.
LEMMA SteadyStep ==
  ASSUME Orderly, Steady, NEW t \in Callers, Doing(t), cat' = cat, set' = set
  PROVE  Steady'
<1>1. Where' = Where /\ First' = First /\ Lists' = Lists
  BY Fixed
<1>2. \A p : NameAt(p)' = NameAt(p)
  BY <1>1 DEF NameAt
<1>3. NameAt(Where) = First /\ NameAt("dir") = 1
  BY DEF NameAt, Where, First
<1> DEFINE Next1(u) == SteadyOf(u, thr[u])'
<1>4. ASSUME NEW u \in Callers, thr'[u] = thr[u] PROVE Next1(u)
  <2>1. SteadyOf(u, thr[u])
    BY DEF Steady
  <2>2. done[Key(u)] # "none" => done'[Key(u)] # "none"
    BY DoneKeeps, WorkTypes
  <2> QED
    BY <1>1, <1>2, <1>4, <2>1, <2>2 DEF SteadyOf, Key
<1>5. SteadyOf(t, thr[t]) /\ (done[Key(t)] # "none" => done'[Key(t)] # "none")
  BY DoneKeeps, WorkTypes DEF Steady
<1> HIDE DEF Next1
<1>6. CASE Advances(t) \/ Commands(t)
  <2>1. Next1(t)
    BY <1>1, <1>2, <1>5, <1>6
       DEF Next1, Advances, Commands, Alike, SteadyOf, Key, Early, Late, Busy
  <2> QED
    BY <1>4, <1>6, <2>1 DEF Next1, Steady, Advances, Commands, Elsewhere
<1>7. CASE Marks(t)
  <2>1. done'[Key(t)] # "none"
    <3>1. PICK x \in {"t", "f"} : done' = [done EXCEPT ![Key(t)] = x]
      BY <1>7 DEF Marks
    <3> QED
      BY <3>1, WorkTypes
  <2>2. Next1(t)
    BY <1>1, <1>2, <1>5, <1>7, <2>1
       DEF Next1, Marks, Alike, SteadyOf, Key, Early, Late, Busy, Lists
  <2> QED
    BY <1>4, <1>7, <2>2 DEF Next1, Steady, Marks, Elsewhere
<1>8. CASE Turns(t) /\ set.dev
  <2>1. /\ thr'[t].pc = "dep" /\ thr'[t].pkg = thr[t].pkg /\ thr'[t].place = thr[t].place
        /\ thr'[t].name = thr[t].name /\ thr'[t].rc = thr[t].rc /\ thr'[t].list = "dev"
        /\ thr[t].pc = "dep"
    <3>1. thr[t] \in Thread
      BY DEF Orderly, TypeOK
    <3> QED
      BY <1>8, <3>1 DEF Turns, Thread
  <2>2. Next1(t)
    BY <1>1, <1>2, <1>5, <1>8, <2>1 DEF Next1, SteadyOf, Key, Early, Late, Busy, Lists
  <2> QED
    BY <1>4, <1>8, <2>2 DEF Next1, Steady, Turns, Elsewhere
<1>9. CASE Returns(t)
  <2>1. done[Key(t)] # "none"
    BY <1>5, <1>9 DEF Returns, SteadyOf, Key, Late
  <2>2. Next1(t)
    BY <1>1, <1>2, <1>5, <1>9, <2>1 DEF Next1, Returns, SteadyOf, Key, Early, Late, Busy
  <2> QED
    BY <1>4, <1>9, <2>2 DEF Next1, Steady, Returns, Elsewhere
<1>10. ASSUME NEW u, Fills(t, u) PROVE Next1(t)
  BY <1>1, <1>2, <1>5, <1>10 DEF Next1, Fills, SteadyOf, Key, Early, Late, Busy
<1>11. CASE Skips(t)
  BY <1>4, <1>10, <1>11 DEF Next1, Steady, Skips, Elsewhere
<1>12. ASSUME NEW u \in Callers \ {t, Main}, Makes(t, u) PROVE Steady'
  <2>1. Next1(t)
    BY <1>10, <1>12 DEF Makes
  <2>2. Next1(u)
    BY <1>2, <1>3, <1>12 DEF Next1, Makes, SteadyOf, Early, Late, Busy
  <2> QED
    BY <1>4, <1>12, <2>1, <2>2 DEF Next1, Steady, Makes
<1>13. ASSUME NEW u \in Callers \ {t, Main}, Joins(t, u) PROVE Steady'
  <2>1. Next1(t)
    BY <1>1, <1>2, <1>5, <1>13 DEF Next1, Joins, SteadyOf, Key, Early, Late, Busy
  <2>2. Next1(u)
    BY <1>2, <1>3, <1>13 DEF Next1, Joins, SteadyOf, Early, Late, Busy
  <2> QED
    BY <1>4, <1>13, <2>1, <2>2 DEF Next1, Steady, Joins
<1>14. CASE Stays
  BY <1>4, <1>14 DEF Next1, Steady, Stays
<1>15. CASE t = Main /\ Begins
  <2>1. Next1(t)
    BY <1>1, <1>2, <1>3, <1>15 DEF Next1, Begins, SteadyOf, Early, Late, Busy
  <2> QED
    BY <1>4, <1>15, <2>1 DEF Next1, Steady, Begins, Elsewhere
<1> QED
  BY <1>6, <1>7, <1>8, <1>9, <1>11, <1>12, <1>13, <1>14, <1>15 DEF Doing, Works

\* Main takes its arguments one after the other.
LEMMA LinedStep ==
  ASSUME Orderly, Lined, cat' = cat, set' = set, todo' = todo \/ (todo # <<>> /\ todo' = Tail(todo))
  PROVE  /\ Lined'
         /\ todo' = todo => Taken' = Taken
         /\ todo # <<>> /\ todo' = Tail(todo) =>
              Taken' = Taken + 1 /\ Head(todo) = Args[Taken'] /\ Taken' \in DOMAIN Args
<1>1. Args' = Args /\ Args \in Seq(Pkgs) /\ todo \in Seq(Pkgs)
  BY Fixed DEF Orderly, Given, Lined
<1>2. PICK a : a = Args
  OBVIOUS
<1>3. PICK n \in Nat : n = Len(a)
  BY <1>1, <1>2, LenProperties
<1>4. PICK m \in Nat : m = Len(todo)
  BY <1>1, LenProperties
<1>5. Taken = n - m /\ m <= n /\ DOMAIN a = 1..n /\ \A i \in 1..m : todo[i] = a[(n - m) + i]
  BY <1>1, <1>2, <1>3, <1>4, LenProperties DEF Lined, Taken
<1>6. CASE todo' = todo
  <2>1. Taken' = Taken
    BY <1>1, <1>6 DEF Taken
  <2>2. Lined'
    BY <1>1, <1>6, <2>1 DEF Lined
  <2>3. ~(todo # <<>> /\ todo' = Tail(todo))
    <3>1. todo # <<>> => Len(Tail(todo)) = Len(todo) - 1
      BY <1>1, HeadTailProperties
    <3> QED
      BY <1>4, <1>6, <3>1
  <2> QED
    BY <2>1, <2>2, <2>3
<1>7. CASE todo # <<>> /\ todo' = Tail(todo)
  <2>1. /\ Tail(todo) \in Seq(Pkgs) /\ Len(Tail(todo)) = m - 1 /\ m # 0
        /\ \A i \in 1..Len(Tail(todo)) : Tail(todo)[i] = todo[i + 1]
    BY <1>1, <1>4, <1>7, HeadTailProperties, EmptySeq
  <2>2. Head(todo) = todo[1]
    BY <1>1, <1>7
  <2>3. PICK q : q = todo'
    OBVIOUS
  <2>4. Len(q) = m - 1 /\ \A i \in 1..(m - 1) : q[i] = todo[i + 1]
    BY <1>7, <2>1, <2>3
  <2>5. Taken' = (n - m) + 1
    BY <1>1, <1>2, <1>3, <1>4, <2>3, <2>4 DEF Taken
  <2>6. Head(todo) = a[(n - m) + 1] /\ (n - m) + 1 \in 1..n
    BY <1>5, <2>1, <2>2
  <2>7. \A i \in 1..(m - 1) : q[i] = a[((n - m) + 1) + i]
    <3> SUFFICES ASSUME NEW i \in 1..(m - 1) PROVE q[i] = a[((n - m) + 1) + i]
      OBVIOUS
    <3>1. i + 1 \in 1..m /\ (n - m) + (i + 1) = ((n - m) + 1) + i
      OBVIOUS
    <3> QED
      BY <1>5, <2>4, <3>1
  <2>8. Lined'
    BY <1>1, <1>2, <1>3, <1>5, <2>3, <2>4, <2>5, <2>7 DEF Lined
  <2>9. todo' # todo
    BY <1>4, <1>7, <2>1
  <2> QED
    BY <1>1, <1>2, <1>5, <2>5, <2>6, <2>8, <2>9
<1> QED
  BY <1>6, <1>7

\* What a list of dependencies is indexed by.
LEMMA ListTypes ==
  ASSUME Orderly, NEW p \in Pkgs, NEW l \in Lists
  PROVE  /\ l \in {"deps", "dev"} /\ cat[p][l] \in Seq(Pkgs)
         /\ DOMAIN cat[p][l] = 1..Len(cat[p][l]) /\ Len(cat[p][l]) \in Nat
         /\ \A i \in DOMAIN cat[p][l] : cat[p][l][i] \in Pkgs /\ i \in Nat /\ i >= 1
<1>1. l \in {"deps", "dev"}
  BY DEF Lists
<1>2. cat[p] \in Manifest
  BY DEF Orderly, Given
<1>3. cat[p][l] \in Seq(Pkgs)
  BY <1>1, <1>2 DEF Manifest
<1>4. DOMAIN cat[p][l] = 1..Len(cat[p][l]) /\ Len(cat[p][l]) \in Nat
  BY <1>3, LenProperties
<1>5. \A i \in 1..Len(cat[p][l]) : cat[p][l][i] \in Pkgs
  BY <1>3, ElementOfSeq
<1> QED
  BY <1>1, <1>3, <1>4, <1>5

\* The places a thread takes its package's first manifest from.
LEMMA PlaceTypes == /\ NameAt(Where) = First /\ NameAt("dir") = 1
                    /\ Where \in Places /\ First \in DOMAIN ManifestNames /\ 1 \in DOMAIN ManifestNames
<1>1. Len(ManifestNames) = 2 /\ DOMAIN ManifestNames = 1..2
  BY DEF ManifestNames
<1> QED
  BY <1>1 DEF NameAt, Where, First, Places

\* A thread before its dependencies stays there, or its package is done.
LEMMA EarlyGoes ==
  ASSUME Orderly, NEW t \in Callers, Doing(t), NEW u \in Callers, thr[u].pc \in Early
  PROVE  \/ /\ thr'[u].pc \in Early /\ thr'[u].pkg = thr[u].pkg /\ thr'[u].place = thr[u].place
            /\ thr'[u].name = thr[u].name
            /\ thr[u].pc = "run" => thr'[u].pc = "run"
         \/ done'[Key(u)] # "none"
<1> DEFINE Goes == \/ /\ thr'[u].pc \in Early /\ thr'[u].pkg = thr[u].pkg
                      /\ thr'[u].place = thr[u].place /\ thr'[u].name = thr[u].name
                      /\ thr[u].pc = "run" => thr'[u].pc = "run"
                   \/ done'[Key(u)] # "none"
<1>1. ASSUME thr'[u] = thr[u] PROVE Goes
  BY <1>1
<1>2. CASE u = t
  <2>1. CASE Advances(t) \/ Commands(t)
    BY <1>2, <2>1 DEF Advances, Commands, Alike, Early
  <2>2. CASE Marks(t)
    <3>1. PICK x \in {"t", "f"} : done' = [done EXCEPT ![Key(t)] = x]
      BY <2>2 DEF Marks
    <3> QED
      BY <1>2, <3>1, WorkTypes
  <2>3. CASE Returns(t)
    BY <1>2, <2>3 DEF Returns, Early
  <2>4. CASE Stays
    BY <1>1, <2>4 DEF Stays
  <2>5. ~Turns(t) /\ ~Skips(t) /\ ~(t = Main /\ Begins)
    BY <1>2 DEF Turns, Skips, Fills, Begins, Early
  <2>6. \A v \in Callers : ~Makes(t, v) /\ ~Joins(t, v)
    BY <1>2 DEF Makes, Fills, Joins, Early
  <2> QED
    BY <2>1, <2>2, <2>3, <2>4, <2>5, <2>6 DEF Doing, Works
<1>3. CASE u # t
  <2>1. CASE Advances(t) \/ Commands(t) \/ Marks(t) \/ Turns(t) \/ Returns(t) \/ Skips(t) \/ (t = Main /\ Begins)
    <3>1. thr'[u] = thr[u]
      BY <1>3, <2>1 DEF Advances, Commands, Marks, Turns, Returns, Skips, Begins, Elsewhere
    <3> QED
      BY <1>1, <3>1
  <2>2. CASE Stays
    BY <1>1, <2>2 DEF Stays
  <2>3. ASSUME NEW v \in Callers \ {t, Main}, Makes(t, v) \/ Joins(t, v) PROVE Goes
    <3>1. u # v
      BY <2>3 DEF Makes, Joins, Early
    <3>2. thr'[u] = thr[u]
      BY <1>3, <2>3, <3>1 DEF Makes, Joins
    <3> QED
      BY <1>1, <3>2
  <2> QED
    BY <2>1, <2>2, <2>3 DEF Doing, Works
<1> QED
  BY <1>2, <1>3

\* A dependency that is done or being worked on stays so.
LEMMA CoveredKeeps ==
  ASSUME Orderly, Steady, NEW t \in Callers, Doing(t), NEW p \in Pkgs, Covered(p)
  PROVE  Covered(p)'
<1>1. <<p, "dir", 1>> \in Keys
  BY PlaceTypes DEF Keys, Places
<1>2. CASE done[<<p, "dir", 1>>] # "none"
  BY <1>1, <1>2, DoneKeeps DEF Covered
<1>3. ASSUME NEW u \in Callers \ {Main}, thr[u].pc \in Early, thr[u].pkg = p PROVE Covered(p)'
  <2>1. Key(u) = <<p, "dir", 1>>
    BY <1>3, PlaceTypes DEF Steady, SteadyOf, Busy, Early, Key
  <2>2. (thr'[u].pc \in Early /\ thr'[u].pkg = p) \/ done'[Key(u)] # "none"
    BY <1>3, EarlyGoes
  <2> QED
    BY <2>1, <2>2 DEF Covered
<1> QED
  BY <1>2, <1>3 DEF Covered

\* A slot that was not filled is found when it is to be joined.
LEMMA GapAppend ==
  ASSUME NEW f, NEW g, f.slots \in Seq(Callers \cup {NoChild}),
         NEW u \in Callers \cup {NoChild}, g.slots = Append(f.slots, u), Gap(f) \/ u = NoChild
  PROVE  Gap(g)
<1>1. PICK s : s = f.slots
  OBVIOUS
<1>2. /\ Len(Append(s, u)) = Len(s) + 1 /\ Append(s, u) \in Seq(Callers \cup {NoChild})
      /\ \A i \in 1..Len(s) : Append(s, u)[i] = s[i]
      /\ Append(s, u)[Len(s) + 1] = u
  BY <1>1, AppendProperties
<1>3. PICK n \in Nat : n = Len(s) /\ DOMAIN s = 1..n
  BY <1>1, LenProperties
<1>4. PICK a : a = Append(s, u)
  OBVIOUS
<1>5. DOMAIN a = 1..(n + 1) /\ a[n + 1] = u /\ \A i \in 1..n : a[i] = s[i]
  BY <1>2, <1>3, <1>4, LenProperties
<1>6. \E i \in 1..(n + 1) : a[i] = NoChild
  <2>1. CASE u = NoChild
    BY <1>3, <1>5, <2>1
  <2>2. CASE Gap(f)
    <3>1. PICK i \in 1..n : s[i] = NoChild
      BY <1>1, <1>3, <2>2 DEF Gap
    <3> QED
      BY <1>3, <1>5, <3>1
  <2> QED
    BY <2>1, <2>2
<1> QED
  BY <1>1, <1>4, <1>5, <1>6 DEF Gap

LEMMA GapTail ==
  ASSUME NEW f, NEW g, f.slots \in Seq(Callers \cup {NoChild}), f.slots # <<>>,
         g.slots = Tail(f.slots), Gap(f), Head(f.slots) # NoChild
  PROVE  Gap(g)
<1>1. PICK s : s = f.slots
  OBVIOUS
<1>2. /\ Tail(s) \in Seq(Callers \cup {NoChild}) /\ Len(Tail(s)) = Len(s) - 1
      /\ \A i \in 1..Len(Tail(s)) : Tail(s)[i] = s[i + 1]
  BY <1>1, HeadTailProperties
<1>3. PICK n \in Nat : n = Len(s) /\ DOMAIN s = 1..n
  BY <1>1, LenProperties
<1>4. PICK a : a = Tail(s)
  OBVIOUS
<1>5. DOMAIN a = 1..(n - 1) /\ \A i \in 1..(n - 1) : a[i] = s[i + 1]
  BY <1>2, <1>3, <1>4, LenProperties
<1>6. PICK j \in 1..n : s[j] = NoChild
  BY <1>1, <1>3 DEF Gap
<1>7. s[1] # NoChild
  BY <1>1, <1>2
<1>8. j - 1 \in 1..(n - 1) /\ a[j - 1] = NoChild
  <2>1. j # 1
    BY <1>6, <1>7
  <2>2. j - 1 \in 1..(n - 1) /\ (j - 1) + 1 = j
    BY <1>3, <2>1
  <2> QED
    BY <1>5, <1>6, <2>2
<1> QED
  BY <1>1, <1>4, <1>5, <1>8 DEF Gap

\* No thread without slots has a gap.
LEMMA GapBusy ==
  ASSUME Orderly, NEW u \in Callers, Gap(thr[u])
  PROVE  thr[u].slots # <<>> /\ thr[u].pc \in {"dep", "slug", "join"}
<1>1. thr[u].slots # <<>>
  BY DEF Gap
<1> QED
  BY <1>1, WorkTypes DEF Paced

LEMMA GarbledKeeps ==
  ASSUME Orderly, NEW t \in Callers, Doing(t), Garbled
  PROVE  Garbled'
<1>1. PICK u \in Callers : Gap(thr[u])
  BY DEF Garbled
<1>2. thr[u].slots # <<>> /\ thr[u].pc \in {"dep", "slug", "join"}
  BY <1>1, GapBusy
<1>3. SUFFICES Gap(thr'[u])
  BY DEF Garbled, Gap
<1>4. ASSUME thr'[u].slots = thr[u].slots PROVE Gap(thr'[u])
  BY <1>1, <1>4 DEF Gap
<1>5. CASE Advances(t) \/ Commands(t) \/ Marks(t)
  BY <1>4, <1>5 DEF Advances, Commands, Marks, Elsewhere, Alike
<1>6. CASE Turns(t) \/ Returns(t)
  <2>1. CASE u = t
    <3>1. thr[t] \in Thread
      BY DEF Orderly, TypeOK
    <3>2. CASE Turns(t)
      <4>1. thr'[t].slots = thr[t].slots
        BY <3>1, <3>2 DEF Turns, Thread
      <4> QED
        BY <1>4, <2>1, <4>1
    <3> QED
      BY <1>2, <1>6, <2>1, <3>2 DEF Returns
  <2> QED
    BY <1>4, <1>6, <2>1 DEF Turns, Returns, Elsewhere
<1>7. ASSUME NEW v \in Callers \cup {NoChild}, Fills(t, v) PROVE Gap(thr'[t]) \/ u # t
  <2>1. CASE u = t
    <3>1. thr[t].slots \in Seq(Callers \cup {NoChild}) /\ thr'[t].slots = Append(thr[t].slots, v)
      BY <1>7, WorkTypes DEF Fills
    <3> QED
      BY <1>1, <2>1, <3>1, GapAppend
  <2> QED
    BY <2>1
<1>8. CASE Skips(t)
  <2>1. CASE u = t
    BY <1>7, <1>8, <2>1 DEF Skips
  <2> QED
    BY <1>4, <1>8, <2>1 DEF Skips, Elsewhere
<1>9. ASSUME NEW v \in Callers \ {t, Main}, Makes(t, v) PROVE Gap(thr'[u])
  <2>1. u # v
    BY <1>2, <1>9 DEF Makes
  <2>2. CASE u = t
    BY <1>7, <1>9, <2>2 DEF Makes
  <2> QED
    BY <1>4, <1>9, <2>1, <2>2 DEF Makes
<1>10. ASSUME NEW v \in Callers \ {t, Main}, Joins(t, v) PROVE Gap(thr'[u])
  <2>1. u # v
    BY <1>2, <1>10 DEF Joins
  <2>2. CASE u = t
    <3>1. Head(thr[t].slots) # NoChild /\ thr'[t].slots = Tail(thr[t].slots)
          /\ thr[t].slots \in Seq(Callers \cup {NoChild})
      BY <1>10, WorkTypes DEF Joins
    <3> QED
      BY <1>1, <1>2, <2>2, <3>1, GapTail
  <2> QED
    BY <1>4, <1>10, <2>1, <2>2 DEF Joins
<1>11. CASE Stays
  BY <1>4, <1>11 DEF Stays
<1>12. CASE t = Main /\ Begins
  <2>1. u # Main
    BY <1>2, <1>12 DEF Begins
  <2> QED
    BY <1>4, <1>12, <2>1 DEF Begins, Elsewhere
<1> QED
  BY <1>5, <1>6, <1>8, <1>9, <1>10, <1>11, <1>12 DEF Doing, Works

\* A dependency a thread has before it is still before it, or a thread has been made
\* for it, or should have been.
LEMMA BehindKeeps ==
  ASSUME Orderly, Steady, NEW t \in Callers, Doing(t), cat' = cat, set' = set,
         NEW key \in Keys, NEW l \in Lists, NEW i \in DOMAIN cat[key[1]][l], Behind(key, l, i)
  PROVE  Covered(cat[key[1]][l][i])' \/ Behind(key, l, i)' \/ Garbled'
<1>1. PICK u \in Callers : thr[u].pc \in Late /\ Key(u) = key /\ Ahead(thr[u], l, i)
  BY DEF Behind
<1>2. key[1] \in Pkgs /\ key[1] = thr[u].pkg /\ key = <<thr[u].pkg, thr[u].place, thr[u].name>>
  BY <1>1, WorkTypes DEF Key
<1>3. /\ l \in {"deps", "dev"} /\ i \in Nat /\ i >= 1 /\ i <= Len(cat[key[1]][l])
      /\ cat[key[1]][l][i] \in Pkgs
  BY <1>2, ListTypes
<1>4. List(u) = cat[key[1]][thr[u].list] /\ thr[u].k \in Nat /\ Len(List(u)) \in Nat
  BY <1>2, WorkTypes
<1>5. ASSUME thr'[u].pc \in Late, thr'[u].pkg = thr[u].pkg, thr'[u].place = thr[u].place,
             thr'[u].name = thr[u].name, Ahead(thr'[u], l, i)
      PROVE  Behind(key, l, i)'
  BY <1>2, <1>5 DEF Behind, Key, Ahead
<1>6. ASSUME thr'[u] = thr[u] PROVE Behind(key, l, i)'
  BY <1>1, <1>5, <1>6
<1>7. CASE Advances(t) \/ Commands(t) \/ Marks(t)
  <2>1. CASE u = t
    BY <1>1, <1>5, <1>7, <2>1 DEF Advances, Commands, Marks, Alike, Ahead, Late
  <2> QED
    BY <1>6, <1>7, <2>1 DEF Advances, Commands, Marks, Elsewhere
<1>8. CASE Turns(t)
  <2>1. CASE u = t
    <3>1. thr[t] \in Thread
      BY DEF Orderly, TypeOK
    <3>2. /\ thr'[t].pc = thr[t].pc /\ thr'[t].pkg = thr[t].pkg /\ thr'[t].place = thr[t].place
          /\ thr'[t].name = thr[t].name /\ thr'[t].list = "dev" /\ thr'[t].k = 1
          /\ thr[t].list = "deps" /\ thr[t].k > Len(List(t))
      BY <1>8, <3>1 DEF Turns, Thread
    <3>3. l = "dev"
      BY <1>1, <1>3, <1>4, <2>1, <3>2 DEF Ahead
    <3>4. Ahead(thr'[u], l, i)
      BY <1>3, <2>1, <3>2, <3>3 DEF Ahead
    <3> QED
      BY <1>1, <1>5, <2>1, <3>2, <3>4
  <2> QED
    BY <1>6, <1>8, <2>1 DEF Turns, Elsewhere
<1>9. CASE Returns(t)
  <2>1. CASE u = t
    <3>1. thr[t].k > Len(List(t)) /\ ~(set.dev /\ thr[t].list = "deps")
      BY <1>1, <1>9, <2>1 DEF Returns, Late
    <3>2. thr[t].list # l
      <4> SUFFICES ASSUME thr[t].list = l PROVE FALSE
        OBVIOUS
      <4>1. i >= thr[t].k
        BY <1>1, <2>1 DEF Ahead
      <4>2. Len(List(t)) = Len(cat[key[1]][l])
        BY <1>4, <2>1
      <4> QED
        BY <1>3, <1>4, <2>1, <3>1, <4>1, <4>2
    <3>3. thr[t].list = "deps" /\ l = "dev"
      BY <1>1, <2>1, <3>2 DEF Ahead
    <3>4. set.dev
      BY <3>3 DEF Lists
    <3> QED
      BY <3>1, <3>3, <3>4
  <2> QED
    BY <1>6, <1>9, <2>1 DEF Returns, Elsewhere
<1>10. ASSUME NEW v, Fills(t, v), u = t
       PROVE  Behind(key, l, i)' \/ (l = thr[t].list /\ i = thr[t].k)
  <2>1. CASE l = thr[t].list /\ i = thr[t].k
    BY <2>1
  <2>2. CASE ~(l = thr[t].list /\ i = thr[t].k)
    <3>1. /\ thr'[t].pc \in Late /\ thr'[t].pkg = thr[t].pkg /\ thr'[t].place = thr[t].place
          /\ thr'[t].name = thr[t].name /\ thr'[t].list = thr[t].list /\ thr'[t].k = thr[t].k + 1
      BY <1>10 DEF Fills, Late
    <3>2. Ahead(thr'[t], l, i)
      BY <1>1, <1>3, <1>4, <1>10, <2>2, <3>1 DEF Ahead
    <3> QED
      BY <1>5, <1>10, <3>1, <3>2
  <2> QED
    BY <2>1, <2>2
<1>11. CASE Skips(t)
  <2>1. Garbled'
    <3>1. Gap(thr'[t])
      <4>1. thr'[t].slots = Append(thr[t].slots, NoChild) /\ thr[t].slots \in Seq(Callers \cup {NoChild})
        BY <1>11, WorkTypes DEF Skips, Fills
      <4> QED
        BY <4>1, GapAppend
    <3> QED
      BY <3>1 DEF Garbled, Gap
  <2> QED
    BY <2>1
<1>12. ASSUME NEW v \in Callers \ {t, Main}, Makes(t, v)
       PROVE  Covered(cat[key[1]][l][i])' \/ Behind(key, l, i)'
  <2>1. u # v
    BY <1>1, <1>12 DEF Makes, Late
  <2>2. CASE u = t
    <3>1. CASE l = thr[t].list /\ i = thr[t].k
      <4>1. thr'[v].pc \in Early /\ thr'[v].pkg = cat[key[1]][l][i]
        BY <1>4, <1>12, <2>2, <3>1 DEF Makes, Early
      <4> QED
        BY <1>12, <4>1 DEF Covered
    <3> QED
      BY <1>10, <1>12, <2>2, <3>1 DEF Makes
  <2> QED
    BY <1>6, <1>12, <2>1, <2>2 DEF Makes
<1>13. ASSUME NEW v \in Callers \ {t, Main}, Joins(t, v) PROVE Behind(key, l, i)'
  <2>1. u # v
    BY <1>1, <1>13 DEF Joins, Late
  <2>2. CASE u = t
    BY <1>1, <1>5, <1>13, <2>2 DEF Joins, Ahead, Late
  <2> QED
    BY <1>6, <1>13, <2>1, <2>2 DEF Joins
<1>14. CASE Stays
  BY <1>6, <1>14 DEF Stays
<1>15. CASE t = Main /\ Begins
  <2>1. u # Main
    BY <1>1, <1>15 DEF Begins, Late
  <2> QED
    BY <1>6, <1>15, <2>1 DEF Begins, Elsewhere
<1> QED
  BY <1>7, <1>8, <1>9, <1>11, <1>12, <1>13, <1>14, <1>15 DEF Doing, Works

\* What is newly done has all its dependencies before it.
LEMMA NewlyDone ==
  ASSUME Orderly, Steady, NEW t \in Callers, Doing(t), cat' = cat, set' = set,
         NEW key \in Keys, NEW l \in Lists, NEW i \in DOMAIN cat[key[1]][l],
         done[key] = "none", done'[key] # "none"
  PROVE  Behind(key, l, i)'
<1>1. Marks(t) /\ key = Key(t)
  <2>1. Marks(t)
    BY DEF Doing, Works, Begins, Advances, Commands, Turns, Returns, Skips, Makes, Fills, Joins, Stays
  <2>2. PICK x \in {"t", "f"} : done' = [done EXCEPT ![Key(t)] = x]
    BY <2>1 DEF Marks
  <2> QED
    BY <2>1, <2>2, WorkTypes
<1>2. /\ thr'[t].pc \in Late /\ thr'[t].pkg = thr[t].pkg /\ thr'[t].place = thr[t].place
      /\ thr'[t].name = thr[t].name /\ thr'[t].list = thr[t].list /\ thr'[t].k = thr[t].k
      /\ thr[t].pc \in Early
  BY <1>1 DEF Marks, Alike, Late, Early
<1>3. thr[t].list = "deps" /\ thr[t].k = 1
  BY <1>2 DEF Steady, SteadyOf
<1>4. key[1] \in Pkgs
  BY <1>1, WorkTypes DEF Key
<1>5. l \in {"deps", "dev"} /\ i \in Nat /\ i >= 1
  BY <1>4, ListTypes
<1>6. Ahead(thr'[t], l, i)
  BY <1>2, <1>3, <1>5 DEF Ahead
<1> QED
  BY <1>1, <1>2, <1>6 DEF Behind, Key, Ahead

LEMMA FollowedStep ==
  ASSUME Orderly, Steady, Followed, NEW t \in Callers, Doing(t), cat' = cat, set' = set
  PROVE  Followed'
<1>1. Lists' = Lists
  BY Fixed
<1>2. SUFFICES ASSUME NEW key \in Keys, NEW l \in Lists, NEW i \in DOMAIN cat[key[1]][l],
                      done'[key] # "none"
               PROVE  Covered(cat[key[1]][l][i])' \/ Behind(key, l, i)' \/ Garbled'
  BY <1>1 DEF Followed, Covered, Behind, Garbled
<1>3. CASE done[key] = "none"
  BY <1>2, <1>3, NewlyDone
<1>4. CASE done[key] # "none"
  <2>1. Covered(cat[key[1]][l][i]) \/ Behind(key, l, i) \/ Garbled
    BY <1>4 DEF Followed
  <2>2. cat[key[1]][l][i] \in Pkgs
    <3>1. key[1] \in Pkgs
      BY DEF Keys
    <3> QED
      BY <3>1, ListTypes
  <2>3. CASE Covered(cat[key[1]][l][i])
    <3>1. PICK p \in Pkgs : p = cat[key[1]][l][i]
      BY <2>2
    <3>2. Covered(p)'
      BY <2>3, <3>1, CoveredKeeps
    <3>3. p = cat'[key[1]][l][i]
      BY <3>1
    <3> QED
      BY <3>2, <3>3 DEF Covered
  <2>4. CASE Behind(key, l, i)
    BY <2>4, BehindKeeps
  <2>5. CASE Garbled
    BY <2>5, GarbledKeeps
  <2> QED
    BY <2>1, <2>3, <2>4, <2>5
<1> QED
  BY <1>3, <1>4

LEMMA HeededStep ==
  ASSUME Orderly, Steady, Lined, Heeded, NEW t \in Callers, cat' = cat, set' = set,
         (Works(t) /\ todo' = todo) \/ (t = Main /\ Begins)
  PROVE  Heeded'
<1>1. Args' = Args /\ Where' = Where /\ First' = First
  BY Fixed
<1>2. Doing(t) /\ Main \in Callers
  BY WorkTypes DEF Doing
<1>3. \A j \in 1..Taken : \/ done'[<<Args[j], Where, First>>] # "none"
                          \/ thr'[Main].pc \in Early /\ thr'[Main].pkg = Args[j]
  <2> SUFFICES ASSUME NEW j \in 1..Taken
               PROVE  \/ done'[<<Args[j], Where, First>>] # "none"
                      \/ thr'[Main].pc \in Early /\ thr'[Main].pkg = Args[j]
    OBVIOUS
  <2>1. CASE done[<<Args[j], Where, First>>] # "none"
    <3>1. <<Args[j], Where, First>> \in Keys
      <4>1. Args \in Seq(Pkgs) /\ Taken <= Len(Args) /\ Len(Args) \in Nat
        BY LenProperties DEF Lined, Taken, Orderly, Given
      <4>2. PICK a \in Seq(Pkgs) : a = Args
        BY <4>1
      <4>3. PICK n : n = Taken
        OBVIOUS
      <4>4. j \in 1..Len(a)
        <5>1. Len(todo) \in Nat /\ n = Len(a) - Len(todo) /\ Len(a) \in Nat
          BY <4>2, <4>3, LenProperties DEF Taken, Orderly, Given
        <5> QED
          BY <4>3, <5>1
      <4>5. a[j] \in Pkgs
        BY <4>4, ElementOfSeq
      <4> QED
        BY <4>2, <4>5, PlaceTypes DEF Keys
    <3> QED
      BY <1>2, <2>1, <3>1, DoneKeeps
  <2>2. CASE thr[Main].pc \in Early /\ thr[Main].pkg = Args[j]
    <3>1. Key(Main) = <<Args[j], Where, First>>
      BY <1>2, <2>2, PlaceTypes DEF Steady, SteadyOf, Busy, Early, Key
    <3>2. (thr'[Main].pc \in Early /\ thr'[Main].pkg = thr[Main].pkg) \/ done'[Key(Main)] # "none"
      BY <1>2, <2>2, EarlyGoes
    <3> QED
      BY <2>2, <3>1, <3>2
  <2> QED
    BY <2>1, <2>2 DEF Heeded
<1>4. CASE Works(t) /\ todo' = todo
  <2>1. Taken' = Taken
    BY <1>1, <1>4 DEF Taken
  <2> QED
    BY <1>1, <1>3, <2>1 DEF Heeded
<1>5. CASE t = Main /\ Begins
  <2>1. todo # <<>> /\ todo' = Tail(todo)
    BY <1>5 DEF Begins
  <2>2. Taken' = Taken + 1 /\ Head(todo) = Args[Taken']
    BY <2>1, LinedStep
  <2>3. thr'[Main].pc \in Early /\ thr'[Main].pkg = Head(todo)
    BY <1>5 DEF Begins, Early
  <2>4. PICK n \in Int : n = Taken
    BY <1>2, LenProperties DEF Taken, Lined, Orderly, Given
  <2> QED
    BY <1>1, <1>3, <2>2, <2>3, <2>4 DEF Heeded
<1> QED
  BY <1>4, <1>5

\* One child at a time.
LEMMA InTurnStep ==
  ASSUME Orderly, Steady, InTurn, set.concurrency = 1, NEW t \in Callers, Doing(t),
         cat' = cat, set' = set
  PROVE  InTurn'
<1> DEFINE Works1(u) == thr[u].pc \notin {"none", "join"}
           Works2(u) == thr'[u].pc \notin {"none", "join"}
<1>1. /\ \A v, u \in Callers : Works1(v) /\ Works1(u) => v = u
      /\ \A u \in Callers : thr[u].pc \in {"read", "own", "work"} => done[Key(u)] = "none"
      /\ \A p \in Pkgs, at \in Places :
           /\ ran[<<p, at>>] <= 1
           /\ ran[<<p, at>>] = 1 =>
                \/ done[<<p, at, NameAt(at)>>] # "none"
                \/ \E u \in Callers : thr[u].pc = "run" /\ thr[u].pkg = p /\ thr[u].place = at
  BY DEF InTurn
<1>2. \A at : NameAt(at)' = NameAt(at)
  BY Fixed DEF NameAt
\* Only one thread works.
<1>3. \A v, u \in Callers : Works2(v) /\ Works2(u) => v = u
  <2>1. CASE Advances(t) \/ Commands(t) \/ Marks(t) \/ Turns(t) \/ Returns(t) \/ Skips(t) \/ (t = Main /\ Begins)
    <3>1. Elsewhere(t) /\ Works1(t)
      BY <2>1 DEF Advances, Commands, Marks, Turns, Returns, Skips, Fills, Begins
    <3> QED
      BY <1>1, <3>1 DEF Elsewhere
  <2>2. CASE Stays
    BY <1>1, <2>2 DEF Stays
  <2>3. ASSUME NEW w \in Callers \ {t, Main}, Makes(t, w)
        PROVE  \A v, u \in Callers : Works2(v) /\ Works2(u) => v = u
    <3>1. Works1(t) /\ ~Works2(t) /\ \A v \in Callers \ {t, w} : thr'[v] = thr[v]
      BY <2>3 DEF Makes, Fills
    <3> QED
      BY <1>1, <3>1
  <2>4. ASSUME NEW w \in Callers \ {t, Main}, Joins(t, w)
        PROVE  \A v, u \in Callers : Works2(v) /\ Works2(u) => v = u
    <3>1. Works1(w) /\ ~Works2(w) /\ \A v \in Callers \ {t, w} : thr'[v] = thr[v]
      BY <2>4 DEF Joins
    <3> QED
      BY <1>1, <3>1
  <2> QED
    BY <2>1, <2>2, <2>3, <2>4 DEF Doing, Works
\* Its package is not done before the command has run.
<1>4. ASSUME NEW u \in Callers, thr'[u].pc \in {"read", "own", "work"} PROVE done'[Key(u)'] = "none"
  <2>1. CASE Advances(t)
    <3>1. CASE u = t
      <4>1. Key(u)' = Key(u)
        BY <2>1, <3>1 DEF Advances, Alike, Key
      <4>2. done[Key(u)] = "none"
        BY <1>1, <1>4, <2>1, <3>1 DEF Advances
      <4> QED
        BY <2>1, <4>1, <4>2 DEF Advances
    <3>2. CASE u # t
      <4>1. thr'[u] = thr[u] /\ done' = done
        BY <2>1, <3>2 DEF Advances, Elsewhere
      <4> QED
        BY <1>1, <1>4, <4>1 DEF Key
    <3> QED
      BY <3>1, <3>2
  <2>2. CASE Marks(t) \/ Commands(t) \/ Turns(t) \/ Returns(t) \/ Skips(t) \/ (t = Main /\ Begins)
    <3>1. thr'[t].pc \notin {"read", "own", "work"} /\ Elsewhere(t) /\ Works1(t)
      <4>1. CASE Turns(t)
        <5>1. thr[t] \in Thread
          BY DEF Orderly, TypeOK
        <5>2. thr'[t].pc = "dep"
          BY <4>1, <5>1 DEF Turns, Thread
        <5> QED
          BY <4>1, <5>2 DEF Turns
      <4>2. CASE Returns(t)
        BY <4>2 DEF Returns
      <4> QED
        BY <2>2, <4>1, <4>2 DEF Marks, Commands, Skips, Fills, Begins
    <3>2. u # t /\ thr'[u] = thr[u]
      BY <1>4, <3>1 DEF Elsewhere
    <3>3. Works1(u)
      BY <1>4, <3>2
    <3> QED
      BY <1>1, <3>1, <3>2, <3>3
  <2>3. CASE Stays
    BY <1>1, <1>4, <2>3 DEF Stays, Key
  <2>4. ASSUME NEW w \in Callers \ {t, Main}, Makes(t, w) \/ Joins(t, w) PROVE done'[Key(u)'] = "none"
    <3>1. u # t /\ u # w /\ thr'[u] = thr[u] /\ done' = done
      BY <1>4, <2>4 DEF Makes, Fills, Joins
    <3> QED
      BY <1>1, <1>4, <3>1 DEF Key
  <2> QED
    BY <2>1, <2>2, <2>3, <2>4 DEF Doing, Works
\* So the command runs once.
<1>5. ASSUME NEW p \in Pkgs, NEW at \in Places
      PROVE  /\ ran'[<<p, at>>] <= 1
             /\ ran'[<<p, at>>] = 1 =>
                  \/ done'[<<p, at, NameAt(at)>>] # "none"
                  \/ \E u \in Callers : thr'[u].pc = "run" /\ thr'[u].pkg = p /\ thr'[u].place = at
  <2>1. <<p, at, NameAt(at)>> \in Keys
    BY PlaceTypes DEF Keys, NameAt
  <2>2. ran[<<p, at>>] = 1 =>
          \/ done'[<<p, at, NameAt(at)>>] # "none"
          \/ \E u \in Callers : thr'[u].pc = "run" /\ thr'[u].pkg = p /\ thr'[u].place = at
    <3> SUFFICES ASSUME ran[<<p, at>>] = 1
                 PROVE  \/ done'[<<p, at, NameAt(at)>>] # "none"
                        \/ \E u \in Callers : thr'[u].pc = "run" /\ thr'[u].pkg = p /\ thr'[u].place = at
      OBVIOUS
    <3>1. CASE done[<<p, at, NameAt(at)>>] # "none"
      BY <2>1, <3>1, DoneKeeps
    <3>2. ASSUME NEW u \in Callers, thr[u].pc = "run", thr[u].pkg = p, thr[u].place = at
          PROVE  \/ done'[<<p, at, NameAt(at)>>] # "none"
                 \/ thr'[u].pc = "run" /\ thr'[u].pkg = p /\ thr'[u].place = at
      <4>1. Key(u) = <<p, at, NameAt(at)>>
        BY <3>2 DEF Steady, SteadyOf, Busy, Key
      <4> QED
        BY <3>2, <4>1, EarlyGoes DEF Early
    <3> QED
      BY <1>1, <3>1, <3>2
  <2>3. CASE Commands(t)
    <3>1. /\ ran' = [ran EXCEPT ![<<thr[t].pkg, thr[t].place>>] = @ + 1]
          /\ thr[t].pc = "work" /\ thr'[t].pc = "run" /\ thr'[t].pkg = thr[t].pkg
          /\ thr'[t].place = thr[t].place
      BY <2>3 DEF Commands, Alike
    <3>2. CASE p = thr[t].pkg /\ at = thr[t].place
      <4>1. Key(t) = <<p, at, NameAt(at)>>
        BY <3>1, <3>2 DEF Steady, SteadyOf, Busy, Key
      <4>2. done[<<p, at, NameAt(at)>>] = "none"
        BY <1>1, <3>1, <4>1
      <4>3. \A u \in Callers : thr[u].pc # "run"
        BY <1>1, <3>1
      <4>4. ran[<<p, at>>] # 1 /\ ran[<<p, at>>] <= 1 /\ ran[<<p, at>>] \in Nat
        BY <1>1, <4>2, <4>3, WorkTypes
      <4>5. ran'[<<p, at>>] = ran[<<p, at>>] + 1
        BY <3>1, <3>2, WorkTypes
      <4> QED
        BY <3>1, <3>2, <4>4, <4>5
    <3>3. CASE ~(p = thr[t].pkg /\ at = thr[t].place)
      <4>1. ran'[<<p, at>>] = ran[<<p, at>>]
        BY <3>1, <3>3, WorkTypes
      <4> QED
        BY <1>1, <2>2, <4>1
    <3> QED
      BY <3>2, <3>3
  <2>4. CASE ~Commands(t)
    <3>1. ran' = ran
      BY <2>4 DEF Doing, Works, Begins, Advances, Marks, Turns, Returns, Skips, Makes, Fills, Joins, Stays
    <3> QED
      BY <1>1, <2>2, <3>1
  <2> QED
    BY <2>3, <2>4
<1> QED
  BY <1>2, <1>3, <1>4, <1>5 DEF InTurn

\* What the arguments lead to is asked for.
LEMMA AskedLeads ==
  ASSUME Orderly, Lined
  PROVE  /\ Reached \subseteq Pkgs
         /\ \A j \in DOMAIN Args : Args[j] \in Reached
         /\ \A q \in Reached, l \in Lists : \A i \in DOMAIN cat[q][l] : cat[q][l][i] \in Reached
<1>1. Reached \subseteq Pkgs
  BY ReachedIs
<1>2. ASSUME NEW j \in DOMAIN Args PROVE Args[j] \in Reached
  <2>1. Args[j] \in Pkgs
    <3>1. PICK a \in Seq(Pkgs) : a = Args
      BY DEF Lined
    <3>2. j \in 1..Len(a)
      BY <3>1, LenProperties
    <3> QED
      BY <3>1, <3>2, ElementOfSeq
  <2> QED
    BY <2>1, ReachedIs DEF Closed
<1>3. ASSUME NEW q \in Reached, NEW l \in Lists, NEW i \in DOMAIN cat[q][l]
      PROVE  cat[q][l][i] \in Reached
  <2>1. cat[q][l][i] \in Pkgs
    BY <1>1, ListTypes
  <2>2. cat[q][l][i] \in Wanted(q)
    BY DEF Wanted
  <2>3. \A s \in SUBSET Pkgs : Closed(s) => cat[q][l][i] \in s
    BY <2>2, ReachedIs DEF Closed
  <2> QED
    BY <2>1, <2>3, ReachedIs
<1> QED
  BY <1>1, <1>2, <1>3

\* When nothing is shared a package is asked for in one place.
LEMMA AskedOnce ==
  ASSUME Orderly, Lined, ~Shared, NEW p \in Reached
  PROVE  /\ \A i, j \in DOMAIN Args : Args[i] = p /\ Args[j] = p => i = j
         /\ \A j \in DOMAIN Args, q \in Reached, l \in Lists : \A i \in DOMAIN cat[q][l] :
              ~(Args[j] = p /\ cat[q][l][i] = p)
         /\ \A q, r \in Reached, l, m \in Lists : \A i \in DOMAIN cat[q][l], j \in DOMAIN cat[r][m] :
              cat[q][l][i] = p /\ cat[r][m][j] = p => q = r /\ l = m /\ i = j
<1>1. \A a, b \in Askers(p) : a = b
  BY DEF Shared
<1>2. \A j \in DOMAIN Args : Args[j] = p => <<"main", "args", j>> \in Askers(p)
  BY DEF Askers
<1>3. ASSUME NEW q \in Reached, NEW l \in Lists, NEW i \in DOMAIN cat[q][l], cat[q][l][i] = p
      PROVE  <<q, l, i>> \in Askers(p)
  <2> DEFINE Of(r, m) == {r} \X {m} \X {n \in DOMAIN cat[r][m] : cat[r][m][n] = p}
  <2>1. <<q, l, i>> \in Of(q, l)
    BY <1>3
  <2>2. Askers(p) = {<<"main", "args", n>> : n \in {j \in DOMAIN Args : Args[j] = p}}
                    \cup UNION {Of(r, m) : r \in Reached, m \in Lists}
    BY DEF Askers
  <2> HIDE DEF Of
  <2>3. Of(q, l) \in {Of(r, m) : r \in Reached, m \in Lists}
    OBVIOUS
  <2> QED
    BY <2>1, <2>2, <2>3
<1>4. \A l \in Lists : l # "args"
  BY DEF Lists
<1>5. ASSUME NEW i \in DOMAIN Args, NEW j \in DOMAIN Args, Args[i] = p, Args[j] = p PROVE i = j
  <2>1. <<"main", "args", i>> = <<"main", "args", j>>
    BY <1>1, <1>2, <1>5
  <2> QED
    BY <2>1
<1>6. ASSUME NEW j \in DOMAIN Args, NEW q \in Reached, NEW l \in Lists, NEW i \in DOMAIN cat[q][l],
             Args[j] = p, cat[q][l][i] = p
      PROVE  FALSE
  <2>1. <<"main", "args", j>> = <<q, l, i>>
    BY <1>1, <1>2, <1>3, <1>6
  <2> QED
    BY <1>4, <2>1
<1>7. ASSUME NEW q \in Reached, NEW r \in Reached, NEW l \in Lists, NEW m \in Lists,
             NEW i \in DOMAIN cat[q][l], NEW j \in DOMAIN cat[r][m],
             cat[q][l][i] = p, cat[r][m][j] = p
      PROVE  q = r /\ l = m /\ i = j
  <2>1. <<q, l, i>> \in Askers(p) /\ <<r, m, j>> \in Askers(p)
    BY <1>3, <1>7
  <2>2. <<q, l, i>> = <<r, m, j>>
    BY <1>1, <2>1
  <2> QED
    BY <2>2
<1> QED
  BY <1>5, <1>6, <1>7

\* What has been begun.
LEMMA BegunKeeps ==
  ASSUME Orderly, Steady, NEW t \in Callers, Doing(t), NEW p \in Pkgs, Begun(p)
  PROVE  Begun(p)'
<1>1. ASSUME NEW key \in Keys, key[1] = p, done'[key] # "none" PROVE Begun(p)'
  BY <1>1 DEF Begun
<1>2. ASSUME NEW u \in Callers, Busy(thr'[u]), thr'[u].pkg = p PROVE Begun(p)'
  BY <1>2 DEF Begun
<1>3. ASSUME NEW key \in Keys, key[1] = p, done[key] # "none" PROVE Begun(p)'
  BY <1>1, <1>3, DoneKeeps
<1>4. ASSUME NEW at \in Places, ran[<<p, at>>] > 0 PROVE Begun(p)'
  <2>1. ran'[<<p, at>>] > 0
    <3>1. CASE Commands(t)
      <4>1. ran' = [ran EXCEPT ![<<thr[t].pkg, thr[t].place>>] = @ + 1]
        BY <3>1 DEF Commands
      <4>2. ran'[<<p, at>>] \in {ran[<<p, at>>], ran[<<p, at>>] + 1} /\ ran[<<p, at>>] \in Nat
        BY <4>1, WorkTypes
      <4> QED
        BY <1>4, <4>2
    <3>2. CASE ~Commands(t)
      <4>1. ran' = ran
        BY <3>2 DEF Doing, Works, Begins, Advances, Marks, Turns, Returns, Skips, Makes, Fills, Joins, Stays
      <4> QED
        BY <1>4, <4>1
    <3> QED
      BY <3>1, <3>2
  <2> QED
    BY <2>1 DEF Begun
<1>5. ASSUME NEW u \in Callers, Busy(thr[u]), thr[u].pkg = p PROVE Begun(p)'
  <2>1. Key(u) \in Keys /\ Key(u)[1] = p
    BY <1>5, WorkTypes DEF Key
  <2>2. CASE done[Key(u)] # "none"
    BY <1>3, <2>1, <2>2
  <2>3. CASE thr[u].pc \in Early
    BY <1>1, <1>2, <1>5, <2>1, <2>3, EarlyGoes DEF Busy, Early
  <2>4. thr[u].pc \in Early \cup Late \cup {"out"}
    <3>1. thr[u] \in Thread
      BY DEF Orderly, TypeOK
    <3>2. PICK f \in Thread : f = thr[u]
      BY <3>1
    <3> QED
      BY <1>5, <3>2 DEF Busy, Early, Late, Thread
  <2>5. thr[u].pc \in Late \cup {"out"} => done[Key(u)] # "none"
    BY DEF Steady, SteadyOf, Key
  <2> QED
    BY <2>2, <2>3, <2>4, <2>5
<1> QED
  BY <1>3, <1>4, <1>5 DEF Begun

\* The package a step begins with.
Opens(t, u, p) ==
    \/ u # t /\ u # Main /\ Makes(t, u) /\ p = List(t)[thr[t].k]
    \/ t = Main /\ u = Main /\ Begins /\ p = Head(todo)

\* A thread at a package has been there before, or the package has just been begun.
LEMMA BusyWas ==
  ASSUME Orderly, NEW t \in Callers, Doing(t), NEW u \in Callers, Busy(thr'[u])
  PROVE  (Busy(thr[u]) /\ thr'[u].pkg = thr[u].pkg) \/ Opens(t, u, thr'[u].pkg)
<1> DEFINE Was == (Busy(thr[u]) /\ thr'[u].pkg = thr[u].pkg) \/ Opens(t, u, thr'[u].pkg)
<1>1. ASSUME thr'[u] = thr[u] PROVE Was
  BY <1>1
<1>2. CASE Advances(t) \/ Commands(t) \/ Marks(t) \/ Returns(t) \/ Skips(t)
  <2>1. Elsewhere(t) /\ thr'[t].pkg = thr[t].pkg /\ Busy(thr[t])
    BY <1>2 DEF Advances, Commands, Marks, Returns, Skips, Fills, Alike, Busy
  <2> QED
    BY <1>1, <2>1 DEF Elsewhere
<1>3. CASE Turns(t)
  <2>1. thr[t] \in Thread
    BY DEF Orderly, TypeOK
  <2>2. Elsewhere(t) /\ thr'[t].pkg = thr[t].pkg /\ Busy(thr[t])
    BY <1>3, <2>1 DEF Turns, Thread, Busy
  <2> QED
    BY <1>1, <2>2 DEF Elsewhere
<1>4. CASE Stays
  BY <1>1, <1>4 DEF Stays
<1>5. ASSUME NEW v \in Callers \ {t, Main}, Makes(t, v) PROVE Was
  <2>1. CASE u = v
    BY <1>5, <2>1 DEF Opens, Makes
  <2>2. CASE u = t
    BY <1>5, <2>2 DEF Makes, Fills, Busy
  <2> QED
    BY <1>1, <1>5, <2>1, <2>2 DEF Makes
<1>6. ASSUME NEW v \in Callers \ {t, Main}, Joins(t, v) PROVE Was
  <2>1. u # v
    BY <1>6 DEF Joins, Busy
  <2>2. CASE u = t
    BY <1>6, <2>2 DEF Joins, Busy
  <2> QED
    BY <1>1, <1>6, <2>1, <2>2 DEF Joins
<1>7. CASE t = Main /\ Begins
  <2>1. CASE u = t
    BY <1>7, <2>1 DEF Opens, Begins
  <2> QED
    BY <1>1, <1>7, <2>1 DEF Begins, Elsewhere
<1> QED
  BY <1>2, <1>3, <1>4, <1>5, <1>6, <1>7 DEF Doing, Works

LEMMA BegunWas ==
  ASSUME Orderly, NEW t \in Callers, Doing(t), NEW p \in Pkgs, Begun(p)'
  PROVE  Begun(p) \/ \E u \in Callers : Opens(t, u, p)
<1>1. ASSUME NEW u \in Callers, Busy(thr'[u]), thr'[u].pkg = p
      PROVE  Begun(p) \/ Opens(t, u, p)
  BY <1>1, BusyWas DEF Begun
<1>2. ASSUME NEW at \in Places, ran'[<<p, at>>] > 0 PROVE Begun(p)
  <2>1. CASE Commands(t) /\ thr[t].pkg = p
    BY <2>1 DEF Commands, Begun, Busy
  <2>2. CASE ~(Commands(t) /\ thr[t].pkg = p)
    <3>1. CASE Commands(t)
      <4>1. ran' = [ran EXCEPT ![<<thr[t].pkg, thr[t].place>>] = @ + 1]
        BY <3>1 DEF Commands
      <4>2. ran'[<<p, at>>] = ran[<<p, at>>]
        BY <2>2, <3>1, <4>1, WorkTypes
      <4> QED
        BY <1>2, <4>2 DEF Begun
    <3>2. CASE ~Commands(t)
      <4>1. ran' = ran
        BY <3>2 DEF Doing, Works, Begins, Advances, Marks, Turns, Returns, Skips, Makes, Fills, Joins, Stays
      <4> QED
        BY <1>2, <4>1 DEF Begun
    <3> QED
      BY <3>1, <3>2
  <2> QED
    BY <2>1, <2>2
<1>3. ASSUME NEW key \in Keys, key[1] = p, done'[key] # "none" PROVE Begun(p)
  <2>1. CASE Marks(t)
    <3>1. PICK x \in {"t", "f"} : done' = [done EXCEPT ![Key(t)] = x]
      BY <2>1 DEF Marks
    <3>2. CASE key = Key(t)
      BY <1>3, <2>1, <3>2 DEF Marks, Begun, Busy, Key
    <3>3. CASE key # Key(t)
      <4>1. done'[key] = done[key]
        BY <3>1, <3>3, WorkTypes
      <4> QED
        BY <1>3, <4>1 DEF Begun
    <3> QED
      BY <3>2, <3>3
  <2>2. CASE ~Marks(t)
    <3>1. done' = done
      BY <2>2 DEF Doing, Works, Begins, Advances, Commands, Turns, Returns, Skips, Makes, Fills, Joins, Stays
    <3> QED
      BY <1>3, <3>1 DEF Begun
  <2> QED
    BY <2>1, <2>2
<1> QED
  BY <1>1, <1>2, <1>3 DEF Begun

LEMMA TakenTypes ==
  ASSUME Orderly, Lined
  PROVE  Taken \in Nat /\ 1..Taken \subseteq DOMAIN Args
<1>1. PICK a \in Seq(Pkgs) : a = Args
  BY DEF Lined
<1>2. PICK n \in Nat : n = Len(a) /\ DOMAIN a = 1..n
  BY LenProperties
<1>3. PICK m \in Nat : m = Len(todo) /\ m <= n
  BY <1>1, <1>2, LenProperties DEF Orderly, Given, Lined
<1> QED
  BY <1>1, <1>2, <1>3 DEF Taken

\* A thread has its dependency before it that it makes a thread for.
LEMMA OpensDependency ==
  ASSUME Orderly, Steady, NEW t \in Callers, NEW u \in Callers, Makes(t, u)
  PROVE  /\ thr[t].pkg \in Pkgs /\ thr[t].list \in Lists
         /\ thr[t].k \in DOMAIN cat[thr[t].pkg][thr[t].list]
         /\ List(t)[thr[t].k] = cat[thr[t].pkg][thr[t].list][thr[t].k]
         /\ List(t)[thr[t].k] \in Pkgs
         /\ Busy(thr[t]) /\ thr[t].pc # "out" /\ Ahead(thr[t], thr[t].list, thr[t].k)
<1>1. thr[t].pc = "slug"
  BY DEF Makes, Fills
<1>2. /\ thr[t].pkg \in Pkgs /\ List(t) = cat[thr[t].pkg][thr[t].list] /\ thr[t].k \in Nat
      /\ DOMAIN List(t) = 1..Len(List(t)) /\ Len(List(t)) \in Nat
      /\ thr[t].k # 0 /\ thr[t].k <= Len(cat[thr[t].pkg][thr[t].list])
  BY <1>1, WorkTypes DEF Paced
<1>3. thr[t].list \in Lists
  BY <1>1 DEF Steady, SteadyOf, Late
<1>4. thr[t].k \in DOMAIN cat[thr[t].pkg][thr[t].list]
  BY <1>2
<1>5. cat[thr[t].pkg][thr[t].list][thr[t].k] \in Pkgs
  BY <1>2, <1>3, <1>4, ListTypes
<1> QED
  BY <1>1, <1>2, <1>3, <1>4, <1>5 DEF Busy, Ahead

\* With nothing shared, what a step begins with has not been begun before.
LEMMA OpensNew ==
  ASSUME Orderly, Steady, Lined, Apiece, ~Shared, NEW t \in Callers, cat' = cat, set' = set,
         NEW u \in Callers, NEW p, Opens(t, u, p)
  PROVE  p \in Reached /\ ~Begun(p)
<1>1. CASE Makes(t, u) /\ p = List(t)[thr[t].k]
  <2> DEFINE q == thr[t].pkg
             l == thr[t].list
             k == thr[t].k
  <2>1. /\ q \in Pkgs /\ l \in Lists /\ k \in DOMAIN cat[q][l]
        /\ q = thr[t].pkg /\ p = cat[q][l][k] /\ p \in Pkgs
        /\ Busy(thr[t]) /\ thr[t].pc # "out" /\ Ahead(thr[t], l, k)
    BY <1>1, OpensDependency
  <2> HIDE DEF q, l, k
  <2>2. q \in Reached
    <3>1. Begun(q)
      BY <2>1 DEF Begun
    <3> QED
      BY <2>1, <3>1 DEF Apiece
  <2>3. p \in Reached
    BY <2>1, <2>2, AskedLeads
  <2>4. ASSUME Begun(p) PROVE FALSE
    <3>1. Sought(p)
      BY <2>1, <2>4 DEF Apiece
    <3>2. CASE \E j \in 1..Taken : Args[j] = p
      BY <2>1, <2>2, <2>3, <3>2, AskedOnce, TakenTypes
    <3>3. ASSUME NEW r \in Reached, NEW m \in Lists, NEW i \in DOMAIN cat[r][m],
                 cat[r][m][i] = p, Passed(r, m, i)
          PROVE  FALSE
      <4>1. r = q /\ m = l /\ i = k
        BY <2>1, <2>2, <2>3, <3>3, AskedOnce
      <4> QED
        BY <2>1, <3>3, <4>1 DEF Passed
    <3> QED
      BY <3>1, <3>2, <3>3 DEF Sought
  <2> QED
    BY <2>3, <2>4
<1>2. CASE Begins /\ p = Head(todo)
  <2>1. Taken' = Taken + 1 /\ p = Args[Taken'] /\ Taken' \in DOMAIN Args
    BY <1>2, LinedStep DEF Begins
  <2>2. p \in Reached /\ p \in Pkgs
    BY <2>1, AskedLeads
  <2>3. ASSUME Begun(p) PROVE FALSE
    <3>1. Sought(p)
      BY <2>2, <2>3 DEF Apiece
    <3>2. CASE \E j \in 1..Taken : Args[j] = p
      <4>1. PICK j \in 1..Taken : Args[j] = p
        BY <3>2
      <4>2. j \in DOMAIN Args /\ Taken \in Nat
        BY TakenTypes
      <4>3. j = Taken'
        BY <2>1, <2>2, <4>1, <4>2, AskedOnce
      <4> QED
        BY <2>1, <4>1, <4>2, <4>3
    <3>3. ASSUME NEW r \in Reached, NEW m \in Lists, NEW i \in DOMAIN cat[r][m], cat[r][m][i] = p
          PROVE  FALSE
      BY <2>1, <2>2, <3>3, AskedOnce
    <3> QED
      BY <3>1, <3>2, <3>3 DEF Sought
  <2> QED
    BY <2>2, <2>3
<1> QED
  BY <1>1, <1>2 DEF Opens

\* A dependency a thread has passed is not ahead of it again.
LEMMA PassedKeeps ==
  ASSUME Orderly, Steady, NEW t \in Callers, Doing(t), cat' = cat, set' = set,
         NEW q \in Pkgs, NEW l \in Lists, NEW i \in DOMAIN cat[q][l], Passed(q, l, i),
         \A u \in Callers : ~Opens(t, u, q)
  PROVE  Passed(q, l, i)'
<1>1. Begun(q)'
  BY BegunKeeps DEF Passed
<1>2. l \in {"deps", "dev"} /\ i \in Nat
  BY ListTypes
<1>3. ASSUME NEW u \in Callers, Busy(thr'[u]), thr'[u].pc # "out", thr'[u].pkg = q
      PROVE  ~Ahead(thr'[u], l, i)
  <2>1. Busy(thr[u]) /\ thr[u].pkg = q
    BY <1>3, BusyWas
  <2>2. ASSUME thr[u].pc # "out" PROVE ~Ahead(thr[u], l, i)
    BY <2>1, <2>2 DEF Passed
  <2>3. CASE thr'[u] = thr[u]
    BY <1>3, <2>2, <2>3
  <2>4. CASE u = t
    <3>1. CASE Advances(t) \/ Commands(t) \/ Marks(t)
      BY <2>2, <2>4, <3>1 DEF Advances, Commands, Marks, Alike, Ahead
    <3>2. CASE Turns(t)
      <4>1. thr[t] \in Thread
        BY DEF Orderly, TypeOK
      <4>2. thr'[t].list = "dev" /\ thr[t].list = "deps" /\ thr[t].pc = "dep"
        BY <3>2, <4>1 DEF Turns, Thread
      <4>3. l # "dev"
        BY <2>2, <2>4, <4>2 DEF Ahead
      <4> QED
        BY <2>4, <4>2, <4>3 DEF Ahead
    <3>3. CASE Returns(t)
      BY <1>3, <2>4, <3>3 DEF Returns, Busy
    <3>4. ASSUME NEW v, Fills(t, v) PROVE ~Ahead(thr'[u], l, i)
      <4>1. thr[t].pc = "slug" /\ thr'[t].list = thr[t].list /\ thr'[t].k = thr[t].k + 1 /\ thr[t].k \in Nat
        BY <3>4, WorkTypes DEF Fills
      <4> QED
        BY <1>2, <2>2, <2>4, <4>1 DEF Ahead
    <3>5. ASSUME NEW v \in Callers, Joins(t, v) PROVE ~Ahead(thr'[u], l, i)
      BY <2>2, <2>4, <3>5 DEF Joins, Ahead
    <3>6. CASE Stays
      BY <2>3, <3>6 DEF Stays
    <3>7. CASE t = Main /\ Begins
      BY <2>1, <2>4, <3>7 DEF Begins, Busy
    <3> QED
      BY <3>1, <3>2, <3>3, <3>4, <3>5, <3>6, <3>7 DEF Doing, Works, Skips, Makes
  <2>5. CASE u # t /\ thr'[u] # thr[u]
    <3>1. PICK v \in Callers \ {t, Main} : Makes(t, v) \/ Joins(t, v)
      BY <2>5 DEF Doing, Works, Begins, Advances, Commands, Marks, Turns, Returns, Skips, Stays, Elsewhere
    <3>2. u = v
      BY <2>5, <3>1 DEF Makes, Joins
    <3> QED
      BY <1>3, <2>1, <3>1, <3>2 DEF Makes, Joins, Busy
  <2> QED
    BY <2>3, <2>4, <2>5
<1> QED
  BY <1>1, <1>3 DEF Passed

\* A thread that has not come to its command has not been there before.
LEMMA EarlyWas ==
  ASSUME Orderly, NEW t \in Callers, Doing(t), NEW u \in Callers, Busy(thr[u]),
         thr'[u].pc \in Early \ {"run"}
  PROVE  thr[u].pc \in Early \ {"run"}
<1>1. CASE thr'[u] = thr[u]
  BY <1>1
<1>2. CASE u = t
  <2>1. CASE Advances(t)
    BY <1>2, <2>1 DEF Advances, Early
  <2>2. CASE Returns(t)
    BY <1>2, <2>2 DEF Returns, Early
  <2>3. CASE Turns(t)
    <3>1. thr[t] \in Thread
      BY DEF Orderly, TypeOK
    <3>2. thr'[t].pc = "dep"
      BY <2>3, <3>1 DEF Turns, Thread
    <3> QED
      BY <1>2, <3>2 DEF Early
  <2>4. ~Commands(t) /\ ~Marks(t) /\ ~Skips(t) /\ ~(t = Main /\ Begins)
    BY <1>2 DEF Commands, Marks, Skips, Fills, Begins, Busy, Early
  <2>5. \A v \in Callers : ~Makes(t, v) /\ ~(v # t /\ Joins(t, v))
    BY <1>2 DEF Makes, Fills, Joins, Early
  <2> QED
    BY <1>1, <1>2, <2>1, <2>2, <2>3, <2>4, <2>5 DEF Doing, Works, Stays
<1>3. CASE u # t /\ thr'[u] # thr[u]
  <2>1. PICK v \in Callers \ {t, Main} : Makes(t, v) \/ Joins(t, v)
    BY <1>3 DEF Doing, Works, Begins, Advances, Commands, Marks, Turns, Returns, Skips, Stays, Elsewhere
  <2>2. u = v
    BY <1>3, <2>1 DEF Makes, Joins
  <2> QED
    BY <2>1, <2>2 DEF Makes, Joins, Busy, Early
<1> QED
  BY <1>1, <1>2, <1>3

\* No package asked for twice.
LEMMA ApieceStep ==
  ASSUME Orderly, Steady, Lined, Apiece, ~Shared, NEW t \in Callers, cat' = cat, set' = set,
         (Works(t) /\ todo' = todo) \/ (t = Main /\ Begins)
  PROVE  Apiece'
<1>1. Doing(t) /\ Args' = Args /\ Reached' = Reached /\ Lists' = Lists
  BY Fixed DEF Doing
<1>2. (todo' = todo \/ (todo # <<>> /\ todo' = Tail(todo))) /\ Lined'
  BY LinedStep DEF Begins
<1>3. ASSUME NEW u \in Callers, NEW p, Opens(t, u, p) PROVE p \in Reached /\ ~Begun(p) /\ p \in Pkgs
  BY <1>3, OpensNew, AskedLeads
<1>4. /\ \A p \in Pkgs : Begun(p) => p \in Reached /\ Sought(p)
      /\ \A v, u \in Callers : Busy(thr[v]) /\ Busy(thr[u]) /\ thr[v].pkg = thr[u].pkg => v = u
      /\ \A u \in Callers, at \in Places : thr[u].pc \in Early \ {"run"} => ran[<<thr[u].pkg, at>>] = 0
      /\ \A p \in Pkgs, at \in Places : ran[<<p, at>>] <= 1
  BY DEF Apiece
<1>5. Taken \in Nat /\ (Taken' = Taken \/ Taken' = Taken + 1)
  BY <1>2, TakenTypes, LinedStep
\* Two threads are at two packages.
<1>6. ASSUME NEW v \in Callers, NEW u \in Callers, Busy(thr'[v]), Busy(thr'[u]), thr'[v].pkg = thr'[u].pkg
      PROVE  v = u
  <2>1. ASSUME NEW w \in Callers, Busy(thr'[w])
        PROVE  \/ Busy(thr[w]) /\ thr'[w].pkg = thr[w].pkg /\ Begun(thr'[w].pkg)
               \/ Opens(t, w, thr'[w].pkg) /\ ~Begun(thr'[w].pkg)
    <3>1. (Busy(thr[w]) /\ thr'[w].pkg = thr[w].pkg) \/ Opens(t, w, thr'[w].pkg)
      BY <1>1, <2>1, BusyWas
    <3> QED
      BY <1>3, <3>1 DEF Begun
  <2>2. ASSUME NEW p, Opens(t, v, p), Opens(t, u, p) PROVE v = u
    BY <2>2 DEF Opens, Makes, Begins, Elsewhere, Fills
  <2> QED
    BY <1>4, <1>6, <2>1, <2>2
\* The command of a package just begun has not run.
<1>7. ASSUME NEW u \in Callers, NEW at \in Places, thr'[u].pc \in Early \ {"run"}
      PROVE  ran'[<<thr'[u].pkg, at>>] = 0
  <2>1. Busy(thr'[u])
    BY <1>7 DEF Busy, Early
  <2>2. thr'[u].pkg \in Pkgs
    BY <1>1, <1>3, <2>1, BusyWas, WorkTypes
  <2>3. ran[<<thr'[u].pkg, at>>] = 0
    <3>1. CASE Opens(t, u, thr'[u].pkg)
      <4>1. ~Begun(thr'[u].pkg)
        BY <1>3, <3>1
      <4>2. ~(ran[<<thr'[u].pkg, at>>] > 0) /\ ran[<<thr'[u].pkg, at>>] \in Nat
        BY <2>2, <4>1, WorkTypes DEF Begun
      <4> QED
        BY <4>2
    <3>2. CASE Busy(thr[u]) /\ thr'[u].pkg = thr[u].pkg
      <4>1. thr[u].pc \in Early \ {"run"}
        BY <1>1, <1>7, <3>2, EarlyWas
      <4> QED
        BY <1>4, <3>2, <4>1
    <3> QED
      BY <1>1, <2>1, <3>1, <3>2, BusyWas
  <2>4. CASE Commands(t)
    <3>1. u # t
      BY <1>7, <2>4 DEF Commands
    <3>2. thr'[u] = thr[u] /\ Busy(thr[t])
      BY <2>4, <3>1 DEF Commands, Elsewhere, Busy
    <3>3. thr[u].pkg # thr[t].pkg
      BY <1>4, <2>1, <3>1, <3>2
    <3>4. ran' = [ran EXCEPT ![<<thr[t].pkg, thr[t].place>>] = @ + 1]
      BY <2>4 DEF Commands
    <3>5. ran'[<<thr'[u].pkg, at>>] = ran[<<thr'[u].pkg, at>>]
      BY <2>2, <3>2, <3>3, <3>4, WorkTypes
    <3> QED
      BY <2>3, <3>5
  <2>5. CASE ~Commands(t)
    <3>1. ran' = ran
      BY <1>1, <2>5 DEF Doing, Works, Begins, Advances, Marks, Turns, Returns, Skips, Makes, Fills, Joins, Stays
    <3> QED
      BY <2>3, <3>1
  <2> QED
    BY <2>4, <2>5
<1>8. ASSUME NEW p \in Pkgs, NEW at \in Places PROVE ran'[<<p, at>>] <= 1
  <2>1. CASE Commands(t)
    <3>1. ran' = [ran EXCEPT ![<<thr[t].pkg, thr[t].place>>] = @ + 1] /\ thr[t].pc = "work"
      BY <2>1 DEF Commands
    <3>2. CASE p = thr[t].pkg
      <4>1. ran[<<p, at>>] = 0
        BY <1>4, <3>1, <3>2 DEF Early
      <4>2. ran'[<<p, at>>] \in {ran[<<p, at>>], ran[<<p, at>>] + 1}
        BY <3>1, WorkTypes
      <4> QED
        BY <4>1, <4>2
    <3>3. CASE p # thr[t].pkg
      <4>1. ran'[<<p, at>>] = ran[<<p, at>>]
        BY <3>1, <3>3, WorkTypes
      <4> QED
        BY <1>4, <4>1
    <3> QED
      BY <3>2, <3>3
  <2>2. CASE ~Commands(t)
    <3>1. ran' = ran
      BY <1>1, <2>2 DEF Doing, Works, Begins, Advances, Marks, Turns, Returns, Skips, Makes, Fills, Joins, Stays
    <3> QED
      BY <1>4, <3>1
  <2> QED
    BY <2>1, <2>2
\* What is begun was asked for.
<1>9. ASSUME NEW p \in Pkgs, Begun(p)' PROVE p \in Reached /\ Sought(p)'
  <2>1. CASE Begun(p)
    <3>1. p \in Reached /\ Sought(p)
      BY <1>4, <2>1
    <3>2. CASE \E j \in 1..Taken : Args[j] = p
      <4>1. PICK j \in 1..Taken : Args[j] = p
        BY <3>2
      <4>2. j \in 1..Taken'
        BY <1>5
      <4> QED
        BY <1>1, <3>1, <4>1, <4>2 DEF Sought
    <3>3. ASSUME NEW q \in Reached, NEW l \in Lists, NEW i \in DOMAIN cat[q][l],
                 cat[q][l][i] = p, Passed(q, l, i)
          PROVE  Sought(p)'
      <4>1. q \in Pkgs
        BY AskedLeads
      <4>2. \A u \in Callers : ~Opens(t, u, q)
        BY <1>3, <3>3 DEF Passed
      <4>3. Passed(q, l, i)'
        BY <1>1, <3>3, <4>1, <4>2, PassedKeeps
      <4> QED
        BY <1>1, <3>3, <4>3 DEF Sought
    <3> QED
      BY <3>1, <3>2, <3>3 DEF Sought
  <2>2. CASE ~Begun(p)
    <3>1. PICK u \in Callers : Opens(t, u, p)
      BY <1>1, <1>9, <2>2, BegunWas
    <3>2. p \in Reached
      BY <1>3, <3>1
    <3>3. CASE u # t /\ u # Main /\ Makes(t, u) /\ p = List(t)[thr[t].k]
      <4>0. PICK q, l, i : q = thr[t].pkg /\ l = thr[t].list /\ i = thr[t].k
        OBVIOUS
      <4>1. /\ q \in Pkgs /\ l \in Lists /\ i \in DOMAIN cat[q][l] /\ cat[q][l][i] = p
            /\ Busy(thr[t])
        BY <3>3, <4>0, OpensDependency
      <4>2. q \in Reached
        BY <1>4, <4>0, <4>1 DEF Begun
      <4>3. /\ Busy(thr'[t]) /\ thr'[t].pkg = q /\ thr'[t].list = l /\ thr'[t].k = i + 1
            /\ i \in Nat
        BY <3>3, <4>0, WorkTypes DEF Makes, Fills, Busy
      <4>4. ~Ahead(thr'[t], l, i)
        BY <4>3 DEF Ahead
      <4>5. Passed(q, l, i)'
        <5>1. Begun(q)'
          BY <4>3 DEF Begun
        <5>2. \A v \in Callers : Busy(thr'[v]) /\ thr'[v].pkg = q => v = t
          BY <1>6, <4>3
        <5>3. \A v \in Callers : Busy(thr'[v]) /\ thr'[v].pc # "out" /\ thr'[v].pkg = q =>
                ~Ahead(thr'[v], l, i)
          BY <4>4, <5>2
        <5> QED
          BY <5>1, <5>3 DEF Passed
      <4> QED
        BY <1>1, <3>2, <4>1, <4>2, <4>5 DEF Sought
    <3>4. CASE t = Main /\ Begins /\ p = Head(todo)
      <4>1. Taken' = Taken + 1 /\ p = Args[Taken']
        BY <3>4, LinedStep DEF Begins
      <4>2. Taken' \in 1..Taken'
        BY <1>5, <4>1
      <4> QED
        BY <1>1, <3>2, <4>1, <4>2 DEF Sought
    <3> QED
      BY <3>1, <3>3, <3>4 DEF Opens
  <2> QED
    BY <2>1, <2>2
<1> QED
  BY <1>1, <1>6, <1>7, <1>8, <1>9 DEF Apiece

\* Every step keeps what holds of the tree of threads while no manifest is lost.
LEMMA TreeStep ==
  ASSUME Orderly, Tree, NEW t \in Callers, cat' = cat, set' = set,
         (Works(t) /\ todo' = todo) \/ (t = Main /\ Begins), status' = "exited" => todo' = <<>>
  PROVE  Tree'
<1>1. Doing(t) /\ Shared' = Shared /\ set' = set
  BY Fixed DEF Doing
<1>2. Steady'
  BY <1>1, SteadyStep DEF Tree
<1>3. Lined'
  BY LinedStep DEF Tree, Begins
<1>4. Pending'
  BY <1>1, FollowedStep, HeededStep DEF Tree, Pending
<1>5. set'.concurrency = 1 => InTurn'
  BY <1>1, InTurnStep DEF Tree
<1>6. ~Shared' => Apiece'
  BY <1>1, ApieceStep DEF Tree
<1> QED
  BY <1>2, <1>3, <1>4, <1>5, <1>6 DEF Tree

LEMMA TreedStep == Orderly /\ Treed /\ [Next]_vars => Treed'
<1> SUFFICES ASSUME Orderly, Treed, [Next]_vars, ~lost' PROVE Tree'
  BY DEF Treed
<1>1. Main \in Callers
  BY WorkTypes
<1>2. CASE UNCHANGED vars
  <2>1. /\ thr' = thr /\ done' = done /\ ran' = ran /\ todo' = todo /\ cat' = cat /\ set' = set
        /\ status' = status /\ lost' = lost
    BY <1>2 DEF vars, buildVars
  <2>2. Tree
    BY <2>1 DEF Treed
  <2>3. Works(Main)
    BY <2>1 DEF Works, Stays
  <2>4. status' = "exited" => todo' = <<>>
    BY <2>1, <2>2 DEF Tree, Pending
  <2> QED
    BY <1>1, <2>1, <2>2, <2>3, <2>4, TreeStep
<1>3. CASE Argument
  <2>1. cat' = cat /\ set' = set /\ lost' = lost
    BY <1>3 DEF Argument, Only
  <2>2. Tree
    BY <2>1 DEF Treed
  <2>3. thr[Main].rc = 0
    BY <1>1, <2>2 DEF Tree, Steady, SteadyOf
  <2>4. Begins \/ (Works(Main) /\ todo' = todo)
    BY <1>3, <2>3, ArgumentWorks DEF Works
  <2>5. status' = "exited" => todo' = <<>>
    BY <1>3 DEF Argument, Running
  <2> QED
    BY <1>1, <2>1, <2>2, <2>4, <2>5, TreeStep
<1>4. ASSUME NEW t \in Callers, Step(t) PROVE Tree'
  <2>1. ~lost /\ cat' = cat /\ set' = set /\ todo' = todo /\ status' # "exited"
    BY <1>4, ThreadStep
  <2>2. Works(t)
    BY <1>4, StepWorks
  <2> QED
    BY <2>1, <2>2, TreeStep DEF Treed
<1> QED
  BY <1>2, <1>3, <1>4 DEF Next

LEMMA InitTreed == Init => Treed
<1> SUFFICES ASSUME Init PROVE Tree
  BY DEF Treed
<1>1. Orderly
  BY InitOrderly
<1>2. PICK n : n = Nobody /\ n.pc = "none" /\ n.place = "dir" /\ n.rc = 0
  <2>1. Nobody.pc = "none" /\ Nobody.place = "dir" /\ Nobody.rc = 0
    BY DEF Nobody
  <2> QED
    BY <2>1
<1>3. PICK m : m = [Nobody EXCEPT !.pc = "arg"] /\ m.pc = "arg" /\ m.rc = 0
  <2>1. [Nobody EXCEPT !.pc = "arg"].pc = "arg" /\ [Nobody EXCEPT !.pc = "arg"].rc = 0
    BY DEF Nobody
  <2> QED
    BY <2>1
<1>4. thr = [t \in Callers |-> IF t = Main THEN m ELSE n]
  BY <1>2, <1>3 DEF Init
<1>5. \A t \in Callers : thr[t] = IF t = Main THEN m ELSE n
  BY <1>4
<1>6. /\ \A key \in Keys : done[key] = "none"
      /\ \A at \in Pkgs \X Places : ran[at] = 0
      /\ status = "running"
  BY DEF Init
<1>7. Steady
  BY <1>2, <1>3, <1>5 DEF Steady, SteadyOf, Busy, Early, Late
<1>8. todo = Args /\ Args \in Seq(Pkgs) /\ Len(Args) \in Nat
  <2>1. todo = Args
    BY DEF Init, BuildMain, ConfigureMain, Args
  <2> QED
    BY <1>1, <2>1, LenProperties DEF Orderly, Given
<1>9. Taken = 0
  BY <1>8 DEF Taken
<1>10. Lined
  BY <1>8, <1>9 DEF Lined
<1>11. Pending
  BY <1>6, <1>9 DEF Pending, Followed, Heeded
<1>12. InTurn
  <2>1. \A p \in Pkgs, at \in Places : ran[<<p, at>>] = 0
    BY <1>6
  <2>2. \A t \in Callers : thr[t].pc \in {"arg", "none"} /\ (thr[t].pc = "arg" => t = Main)
    BY <1>2, <1>3, <1>5
  <2> QED
    BY <2>1, <2>2 DEF InTurn
<1>13. \A t \in Callers : ~Busy(thr[t]) /\ thr[t].pc \notin Early
  BY <1>2, <1>3, <1>5 DEF Busy, Early
<1>14. \A p \in Pkgs : ~Begun(p)
  <2>1. \A p \in Pkgs, at \in Places : ~(ran[<<p, at>>] > 0)
    BY <1>6
  <2> QED
    BY <1>6, <1>13, <2>1 DEF Begun
<1>15. Apiece
  BY <1>6, <1>13, <1>14 DEF Apiece
<1> QED
  BY <1>7, <1>10, <1>11, <1>12, <1>15 DEF Tree

\* At the exit everything asked for is done.
LEMMA AllDone ==
  ASSUME Orderly, Tree, Family, status = "exited", NEW p \in Reached
  PROVE  \E key \in Keys : key[1] = p /\ done[key] # "none"
<1> DEFINE D == {q \in Pkgs : \E key \in Keys : key[1] = q /\ done[key] # "none"}
<1>1. \A t \in Callers : thr[t].pc \in {"arg", "none"}
  BY NobodyLeft DEF Orderly, Given
<1>2. ~Garbled /\ \A t \in Callers : thr[t].pc \notin Early \cup Late
  BY <1>1, GapBusy DEF Garbled, Early, Late
<1>3. Followed /\ Heeded /\ todo = <<>> /\ Lined
  BY DEF Tree, Pending
<1>4. \A j \in DOMAIN Args : Args[j] \in D
  <2>1. PICK a \in Seq(Pkgs) : a = Args
    BY <1>3 DEF Lined
  <2>2. Taken = Len(a) /\ DOMAIN a = 1..Len(a) /\ \A j \in 1..Len(a) : a[j] \in Pkgs
    BY <1>3, <2>1, LenProperties, ElementOfSeq, EmptySeq DEF Taken
  <2> SUFFICES ASSUME NEW j \in 1..Len(a) PROVE a[j] \in D
    BY <2>1, <2>2
  <2>3. done[<<a[j], Where, First>>] # "none"
    BY <1>2, <1>3, <2>1, <2>2, WorkTypes DEF Heeded
  <2>4. <<a[j], Where, First>> \in Keys /\ <<a[j], Where, First>>[1] = a[j]
    BY <2>2, PlaceTypes DEF Keys
  <2> QED
    BY <2>2, <2>3, <2>4
<1>5. ASSUME NEW q \in D, NEW w \in Wanted(q) PROVE w \in D
  <2>1. PICK key \in Keys : key[1] = q /\ done[key] # "none"
    OBVIOUS
  <2>2. PICK l \in Lists : w \in {cat[q][l][i] : i \in DOMAIN cat[q][l]}
    BY DEF Wanted
  <2>3. PICK i \in DOMAIN cat[q][l] : w = cat[q][l][i]
    BY <2>2
  <2>4. Covered(w)
    BY <1>2, <1>3, <2>1, <2>3 DEF Followed, Behind
  <2>5. done[<<w, "dir", 1>>] # "none"
    BY <1>2, <2>4 DEF Covered
  <2>6. w \in Pkgs
    BY <2>3, ListTypes
  <2>7. <<w, "dir", 1>> \in Keys /\ <<w, "dir", 1>>[1] = w
    BY <2>6, PlaceTypes DEF Keys, Places
  <2> QED
    BY <2>5, <2>6, <2>7
<1>6. D \in SUBSET Pkgs /\ Closed(D)
  BY <1>4, <1>5 DEF Closed
<1>7. p \in D
  BY <1>6, ReachedIs
<1> QED
  BY <1>7

\* The command line is one of those a scenario may have.
LineTyped == set.line \in Seq(Words) /\ set.here \in Pkgs

\* It stays what it was.
LEMMA LineHolds == Spec => []LineTyped
<1>1. Init => LineTyped
  BY ScenariosAssumption DEF Init, LineTyped
<1>2. LineTyped /\ [Next]_vars => LineTyped'
  <2> SUFFICES ASSUME LineTyped, [Next]_vars PROVE LineTyped'
    OBVIOUS
  <2>1. set' = set
    BY DEF Next, Argument, Step, Start, Enter, Read, Own, Make, PrintFlags, Configure, Mark, Dep,
           LoseDependency, LoseAll, Create, CreateFails, Join, EndOfList, Library, Only, vars, buildVars
  <2> QED
    BY <2>1 DEF LineTyped
<1> QED
  BY <1>1, <1>2, PTL DEF Spec

\* Of a command line that is read as it is meant, what its user names is what main goes
\* through.
LEMMA PlainReached ==
  ASSUME LineTyped, Plain(set.line)
  PROVE  Asked \subseteq Reached
<1> DEFINE line == set.line
           n == Cardinality(Named(line))
           Here(x) == \E i \in DOMAIN Args : Args[i] = x
<1>1. line \in Seq(Words) /\ n \in 0..Len(line) /\ Named(line) \subseteq 1..Len(line)
      /\ Len(line) \in Nat /\ DOMAIN line = 1..Len(line)
  BY NamedFinite, LenProperties DEF LineTyped
<1>2. ASSUME Spoken(line) = {} PROVE \A x \in Meant(line, set.here) : Here(x)
  <2>1. Nameless(line)
    <3> SUFFICES ASSUME Named(line) # {}, \A i \in DOMAIN line : line[i] # "--" PROVE FALSE
      BY DEF Nameless
    <3>1. PICK i \in Named(line) : TRUE
      OBVIOUS
    <3>2. i \in Nat /\ \A j \in 1..i : j \in DOMAIN line
      BY <1>1, <3>1
    <3> QED
      BY <1>2, <3>1, <3>2 DEF Spoken
  <2>2. Meant(line, set.here) = {set.here} /\ Args = <<set.here>>
    BY <1>2, <2>1 DEF Meant, Args, Arguments
  <2>3. 1 \in DOMAIN Args /\ Args[1] = set.here
    BY <2>2
  <2> QED
    BY <2>2, <2>3
<1>3. ASSUME Spoken(line) # {} PROVE \A x \in Meant(line, set.here) : Here(x)
  <2>1. Spoken(line) = 1..n /\ \A i \in DOMAIN line : line[i] # "--"
    BY <1>3 DEF Plain
  <2>2. ~Nameless(line)
    BY <1>3, <2>1 DEF Nameless, Spoken
  <2>3. Args = SubSeq(line, 1, n)
    BY <2>2 DEF Args, Arguments
  <2>4. DOMAIN Args = 1..n /\ \A i \in 1..n : Args[i] = line[i]
    BY <1>1, <2>3, FirstOf
  <2> HIDE DEF n
  <2>5. Meant(line, set.here) = {line[i] : i \in 1..n}
    BY <1>3, <2>1 DEF Meant
  <2> SUFFICES ASSUME NEW x \in Meant(line, set.here) PROVE Here(x)
    OBVIOUS
  <2>6. PICK i \in 1..n : x = line[i]
    BY <2>5
  <2> QED
    BY <2>4, <2>6
<1>4. Meant(line, set.here) \subseteq {Args[i] : i \in DOMAIN Args}
  BY <1>2, <1>3
<1> QED
  BY <1>4 DEF Asked, Reached, LedTo

\* Every command runs once where threads cannot meet at a package; and of a command line
\* that is read as it is meant, all it names and all that leads to is done at the exit,
\* unless a manifest was lost (clib-build.c:182-302, :321-391, :697-739).
THEOREM TreesBuilt == Spec => []TreeBuilt
<1>1. Spec => []Treed
  BY InitTreed, TreedStep, BuildInvariant, PTL DEF Spec
<1>2. Inv /\ Orderly /\ Treed /\ LineTyped => TreeBuilt
  <2> SUFFICES ASSUME Orderly, Treed, LineTyped PROVE Once /\ Complete
    BY DEF TreeBuilt, Orderly
  <2>1. Once
    <3>1. DOMAIN ran = Pkgs \X Places
      BY DEF Orderly, TypeOK
    <3>2. ASSUME \A p \in Pkgs, at \in Places : ran[<<p, at>>] <= 1
          PROVE  \A at \in Pkgs \X Places : ran[at] <= 1
      BY <3>2
    <3>3. CASE Tree /\ set.concurrency = 1
      BY <3>1, <3>2, <3>3 DEF Once, Tree, InTurn
    <3>4. CASE Tree /\ ~Shared
      BY <3>1, <3>2, <3>4 DEF Once, Tree, Apiece
    <3> QED
      BY <3>3, <3>4 DEF Once, Treed
  <2>2. Complete
    BY AllDone, PlainReached DEF Complete, NamesBuilt, Treed, Orderly
  <2> QED
    BY <2>1, <2>2
<1> QED
  BY <1>1, <1>2, BuildInvariant, LineHolds, PTL
==============================================================================
