------------------------ MODULE ClibInstallToldProofs ------------------------
(***************************************************************************)
(* What status 0 of `clib install`, `clib update` and `clib upgrade` says  *)
(* is so, for any packages and files, any retries and faults, and whatever *)
(* is to be installed.  The types, the stack's shape and what each step    *)
(* does are those of ClibInstallProofs.                                    *)
(***************************************************************************)
EXTENDS ClibInstallProofs

-----------------------------------------------------------------------------
(* What a command claims.                                                  *)

DepsOf(o) == ListOf(cat[pkgs[o].pkg].deps)

\* The points before a package is entered among the visited, and those of its
\* installation.
Unmarked == {"test", "tested", "prepare", "mark", "marked"}
Leaving == {"depsdone", "cleanup", "returned", "developed"}
Within == ObjPcs \ (Unmarked \cup Leaving)

\* The call's package is among the visited, unless it was given up too soon.
Marks(f) ==
    \/ f.pc \in Within \cup {"depsdone", "developed"}
    \/ f.pc \in {"cleanup", "returned"} /\ f.rc # -1

\* One call: its package has no result yet, and nothing is wrong without a fault.
Going(f) ==
    /\ f.pc \in ObjPcs => pkgs[f.obj].rc = -1
    /\ Marks(f) => pkgs[f.obj].pkg \in visited
    /\ f.pc = "developed" /\ pkgs[f.obj].name # "none" => DepsOf(f.obj) \subseteq visited
    /\ f.pc \in {"devs", "last"} => cmd.manifests[f.name] = "good"
    /\ f.pc = "last" => ListOf(root.deps) \subseteq visited
    /\ faults = 0 => f.pc # "end" /\ (f.pc \in ObjPcs => f.rc = 0)

\* The package a call is about.
Now(f) == IF f.pc \in ObjPcs THEN {pkgs[f.obj].pkg} ELSE {}

\* What a call has its list installed for.
Wanted(f) ==
    CASE f.pc \in {"unpacked", "depsdone"} -> DepsOf(f.obj)
      [] f.pc = "devs" -> ListOf(root.deps)
      [] OTHER -> {}

\* Call f waits for g, which has visited what f wants, or will.
Serves(f, g) ==
    /\ g.kind = "list" /\ g.pc # "end" => Wanted(f) \subseteq visited \cup ListOf(g.todo) \cup Now(g)
    /\ f.kind = "command" /\ g.kind = "local" => ~(ListOf(cmd.args) \subseteq Pkgs)

\* The command's own call.
Asked(f) ==
    /\ f.kind = "alone" <=> cmd.args = <<>>
    /\ f.kind = "command" =>
           /\ ListOf(cmd.args) \cap Pkgs \subseteq visited \cup ListOf(f.todo) \cup Now(f)
           /\ ListOf(f.todo) \subseteq ListOf(cmd.args)
           /\ cmd.program = "upgrade" /\ f.pc \in ObjPcs => f.todo = <<>>
           /\ cmd.program = "upgrade" => Len(f.todo) <= 1

\* What the innermost call is back from.
Back(f) ==
    /\ f.pc \in {"depsdone", "cleanup"} /\ f.rc = 0 => DepsOf(f.obj) \subseteq visited
    /\ f.pc = "returned" /\ f.rc = 0 /\ pkgs[f.obj].name # "none" => DepsOf(f.obj) \subseteq visited
    /\ f.pc = "devs" /\ f.rc # -1 => ListOf(root.deps) \subseteq visited
    /\ f.pc = "alone" /\ f.rc = 0 => ListOf(root.deps) \subseteq visited

\* A failure is on its way out.
Failing(f) ==
    \/ f.pc = "end"
    \/ f.rc = -1 /\ f.pc \in {"unpacked", "depsdone", "cleanup", "returned", "developed", "devs", "last"}
    \/ f.kind = "local" /\ f.pc = "next" /\ f.name = 2 /\ cmd.manifests[2] # "good"
    \/ f.pc = "alone" /\ f.rc # 0

Lost == ListOf(cmd.args) \subseteq Pkgs /\ (\E f \in failed : f[2] = -1) => Failing(Top)

\* No two calls are about one object.
Single ==
    \A c, d \in DOMAIN stack :
        stack[c].pc \in ObjPcs /\ stack[d].pc \in ObjPcs /\ stack[c].obj = stack[d].obj => c = d

\* A package that was visited has failed, is installed, or is being installed.
Counts(o) == pkgs[o].rc = 0 \/ \E d \in DOMAIN stack : stack[d].pc \in ObjPcs /\ stack[d].obj = o
Seen ==
    \A p \in visited : Failed(p) \/ \E o \in DOMAIN pkgs :
        pkgs[o].pkg = p /\ pkgs[o].name # "none" /\ Counts(o)

\* Nothing fails of itself.
Faultless == faults = 0 => failed = {}

\* No manifest is found in part, and none is lacking without a fault.
Supplied ==
    /\ \A p \in Pkgs : json[p] = "part" => get[Main].pc = "saving" /\ get[Main].pkg = p
    /\ faults = 0 => get[Main].pc # "null"

Calls ==
    /\ \A d \in DOMAIN stack : Going(stack[d])
    /\ \A d \in DOMAIN stack : d + 1 \in DOMAIN stack => Serves(stack[d], stack[d + 1])
    /\ Asked(stack[1])
    /\ Single

\* A command that runs.
Underway ==
    Running => Calls /\ Back(Top) /\ Lost /\ Seen /\ Supplied

\* What is installed has its dependencies.
Closed == \A o \in DOMAIN pkgs : InstalledBy(o) => DepsOf(o) \subseteq visited

\* One manifest of `pwd` at most parses, and one package is upgraded.
Chosen ==
    /\ \A m, n \in DOMAIN ManifestNames :
           cmd.manifests[m] = "good" /\ cmd.manifests[n] = "good" => m = n
    /\ cmd.program = "upgrade" => Len(cmd.args) = 1 /\ cmd.args[1] \in Pkgs

\* The elements of a list of arguments.
LEMMA ListIn ==
  ASSUME NEW s \in Seq(Pkgs \cup {"here", "file"})
  PROVE  /\ ListOf(s) = {s[i] : i \in DOMAIN s}
         /\ s = <<>> => ListOf(s) = {}
         /\ s # <<>> => ListOf(s) = {Head(s)} \cup ListOf(Tail(s))
         /\ s # <<>> /\ Len(s) <= 1 => Tail(s) = <<>>
<1>1. \A t \in Seq(Pkgs \cup {"here", "file"}) : ListOf(t) = {t[i] : i \in DOMAIN t}
  <2>1. SUFFICES ASSUME NEW t \in Seq(Pkgs \cup {"here", "file"}) PROVE t # NoList
    BY DEF ListOf
  <2>2. "none" \notin Pkgs \cup {"here", "file"}
    BY NamesAssumption
  <2>3. SUFFICES ASSUME t = NoList PROVE FALSE
    OBVIOUS
  <2>4. Len(t) = 1 /\ t[1] = "none"
    BY <2>3 DEF NoList
  <2>5. t[1] \in Pkgs \cup {"here", "file"}
    BY <2>4
  <2> QED
    BY <2>2, <2>4, <2>5
<1>2. ASSUME s = <<>> PROVE ListOf(s) = {}
  <2>1. DOMAIN s = {}
    BY <1>2
  <2> QED
    BY <1>1, <2>1
<1>3. ASSUME s # <<>> PROVE ListOf(s) = {Head(s)} \cup ListOf(Tail(s))
  <2>1. /\ Tail(s) \in Seq(Pkgs \cup {"here", "file"}) /\ Len(s) \in Nat \ {0}
        /\ DOMAIN s = 1..Len(s) /\ Len(Tail(s)) = Len(s) - 1 /\ DOMAIN Tail(s) = 1..(Len(s) - 1)
        /\ Head(s) = s[1] /\ \A i \in 1..(Len(s) - 1) : Tail(s)[i] = s[i + 1]
    BY <1>3, HeadTailProperties, EmptySeq, LenProperties
  <2>2. PICK L \in Nat \ {0} : L = Len(s)
    BY <2>1
  <2>3. \A i \in 1..(L - 1) : i + 1 \in 1..L
    BY <2>2
  <2>4. \A i \in 1..L : i = 1 \/ (i - 1 \in 1..(L - 1) /\ (i - 1) + 1 = i)
    BY <2>2
  <2>5. 1 \in 1..L
    BY <2>2
  <2>6. ListOf(s) = {s[i] : i \in 1..L} /\ ListOf(Tail(s)) = {Tail(s)[i] : i \in 1..(L - 1)}
    BY <1>1, <2>1, <2>2
  <2>7. \A i \in 1..L : s[i] = Head(s) \/ s[i] \in ListOf(Tail(s))
    BY <2>1, <2>2, <2>4, <2>6
  <2>8. Head(s) \in ListOf(s) /\ ListOf(Tail(s)) \subseteq ListOf(s)
    BY <2>1, <2>2, <2>3, <2>5, <2>6
  <2> QED
    BY <2>6, <2>7, <2>8
<1>4. ASSUME s # <<>>, Len(s) <= 1 PROVE Tail(s) = <<>>
  BY <1>4, HeadTailProperties, EmptySeq, LenProperties
<1> QED
  BY <1>1, <1>2, <1>3, <1>4

\* Nothing happens when the command has ended.
LEMMA StepsRun ==
  ASSUME Next
  PROVE  Running
<1>1. CASE MainStep
  <2>1. CASE \/ NextPackage \/ GotPackage \/ NoPackage \/ ListReturned \/ EndOfList
             \/ PackageReturned \/ Upgraded \/ Developed \/ LocalArgument \/ Alone \/ EndOfCommand
    BY <2>1 DEF NextPackage, GotPackage, NoPackage, ListReturned, EndOfList, PackageReturned, Upgraded,
                Developed, LocalArgument, Alone, EndOfCommand, MainAt
  <2>2. CASE Local
    BY <2>2 DEF Local, MainAt
  <2>3. CASE \/ EnterSection \/ Tested \/ Prepare \/ Marked \/ Reference \/ FetchMakefile \/ JoinMakefile
             \/ Looked \/ Download \/ Join \/ Stored \/ Configure \/ Unpack \/ RunInstall
             \/ Dependencies \/ DependenciesDone \/ Cleanup \/ Library
    BY <2>3 DEF EnterSection, Tested, Prepare, Marked, Reference, FetchMakefile, JoinMakefile,
                Looked, Download, Join, Stored, Configure, Unpack, RunInstall,
                Dependencies, DependenciesDone, Cleanup, Library, MainAt
  <2> QED
    BY <1>1, <2>1, <2>2, <2>3 DEF MainStep
<1>2. CASE \E n \in DOMAIN fetch : FetchFile(n)
  BY <1>2 DEF FetchFile, FetchStart, FetchLock, FetchCheck, FetchOpen, FetchEnd, FetchLog, FetchRead,
              FetchDrop, Thread
<1> QED
  BY <1>1, <1>2 DEF Next

\* Main alone gives results and names, to the package of its innermost call.
Touches ==
    /\ DOMAIN pkgs \subseteq DOMAIN pkgs'
    /\ \A q \in DOMAIN pkgs :
           /\ pkgs'[q].pkg = pkgs[q].pkg
           /\ pkgs[q].name # "none" => pkgs'[q].name # "none"
           /\ \/ q = Top.obj /\ Top.pc \in ObjPcs
              \/ pkgs'[q].rc = pkgs[q].rc /\ pkgs'[q].name = pkgs[q].name

\* The frame of a call that waits says what it did.
LEMMA GoingStays ==
  ASSUME Grows, NEW f \in FrameType, Going(f),
         f.pc \in ObjPcs => /\ f.obj \in DOMAIN pkgs
                            /\ pkgs'[f.obj].rc = pkgs[f.obj].rc /\ pkgs'[f.obj].name = pkgs[f.obj].name,
         UNCHANGED root \/ f.pc # "last"
  PROVE  Going(f)'
<1>1. /\ visited \subseteq visited' /\ cmd' = cmd /\ cat' = cat /\ (faults' = 0 => faults = 0)
  BY DEF Grows
<1>2. Marks(f)' = Marks(f)
  BY DEF Marks
<1>3. "last" \notin ObjPcs /\ "devs" \notin ObjPcs /\ "end" \notin ObjPcs /\ "developed" \in ObjPcs
  BY DEF ObjPcs, LoadPcs, Fresh, Unseen, Looking, Batch
<1>4. CASE f.pc \in ObjPcs
  <2>1. /\ f.obj \in DOMAIN pkgs /\ pkgs'[f.obj].pkg = pkgs[f.obj].pkg /\ pkgs'[f.obj].rc = pkgs[f.obj].rc
        /\ pkgs'[f.obj].name = pkgs[f.obj].name
    BY <1>4 DEF Grows
  <2>2. DepsOf(f.obj)' = DepsOf(f.obj)
    BY <1>1, <2>1 DEF DepsOf
  <2> QED
    BY <1>1, <1>2, <1>3, <1>4, <2>1, <2>2 DEF Going
<1>5. CASE f.pc \notin ObjPcs
  <2>1. ~Marks(f)
    BY <1>5 DEF Marks, Within, ObjPcs
  <2> QED
    BY <1>1, <1>2, <1>3, <1>5, <2>1 DEF Going
<1> QED
  BY <1>4, <1>5

\* What a waiting call is about stays.
LEMMA NowStays ==
  ASSUME Grows, NEW f \in FrameType, f.pc \in ObjPcs => f.obj \in DOMAIN pkgs
  PROVE  /\ Now(f)' = Now(f)
         /\ f.pc \in ObjPcs => DepsOf(f.obj)' = DepsOf(f.obj)
BY DEF Grows, Now, DepsOf

\* What a waiting call wants stays.
LEMMA WantedStays ==
  ASSUME Grows, NEW f \in FrameType, f.pc \in ObjPcs => f.obj \in DOMAIN pkgs,
         UNCHANGED root \/ f.pc # "devs"
  PROVE  Wanted(f)' = Wanted(f)
<1>1. {"unpacked", "depsdone"} \subseteq ObjPcs
  BY DEF ObjPcs
<1>2. CASE f.pc \in {"unpacked", "depsdone"}
  <2>1. DepsOf(f.obj)' = DepsOf(f.obj)
    BY <1>1, <1>2, NowStays
  <2> QED
    BY <1>2, <2>1 DEF Wanted
<1>3. CASE f.pc = "devs"
  BY <1>3 DEF Wanted
<1>4. CASE f.pc \notin {"unpacked", "depsdone", "devs"}
  BY <1>4 DEF Wanted
<1> QED
  BY <1>2, <1>3, <1>4

\* A call goes on to serve the one that waits.
LEMMA ServesStays ==
  ASSUME Grows, NEW f \in FrameType, NEW g \in FrameType, Serves(f, g),
         f.pc \in ObjPcs => f.obj \in DOMAIN pkgs, g.pc \in ObjPcs => g.obj \in DOMAIN pkgs,
         UNCHANGED root \/ f.pc # "devs"
  PROVE  Serves(f, g)'
<1>1. Wanted(f)' = Wanted(f) /\ Now(g)' = Now(g)
  BY WantedStays, NowStays
<1>2. visited \subseteq visited' /\ cmd' = cmd
  BY DEF Grows
<1> HIDE DEF Wanted, Now
<1> QED
  BY <1>1, <1>2 DEF Serves

\* What the command's call says stays.
LEMMA AskedStays ==
  ASSUME Grows, NEW f \in FrameType, Asked(f), f.pc \in ObjPcs => f.obj \in DOMAIN pkgs
  PROVE  Asked(f)'
<1>1. Now(f)' = Now(f)
  BY NowStays
<1>2. visited \subseteq visited' /\ cmd' = cmd
  BY DEF Grows
<1> HIDE DEF Now
<1> QED
  BY <1>1, <1>2 DEF Asked

\* What the frames below the innermost one keep.
LEMMA BelowStays ==
  ASSUME Sound, Grows, Touches, Calls, UNCHANGED root \/ Len(stack) = 1,
         NEW d \in 1..(Len(stack) - 1)
  PROVE  /\ \E f \in FrameType : f = stack[d] /\ Going(f)'
         /\ d + 1 \in 1..(Len(stack) - 1) =>
              \E f \in FrameType, g \in FrameType : f = stack[d] /\ g = stack[d + 1] /\ Serves(f, g)'
         /\ d = 1 => \E f \in FrameType : f = stack[1] /\ Asked(f)'
<1>1. /\ Len(stack) \in Nat \ {0} /\ DOMAIN stack = 1..Len(stack) /\ Top = stack[Len(stack)]
      /\ \A c \in DOMAIN stack : stack[c] \in FrameType
      /\ \A c \in DOMAIN stack : stack[c].pc \in ObjPcs => stack[c].obj \in DOMAIN pkgs
  BY TopType DEF Sound, Types, StackType
<1>2. UNCHANGED root
  <2>1. PICK L \in Nat \ {0} : L = Len(stack)
    BY <1>1
  <2>2. L # 1
    BY <2>1
  <2> QED
    BY <2>1, <2>2
<1>3. d \in DOMAIN stack /\ d # Len(stack) /\ Len(stack) \in DOMAIN stack
  <2>1. PICK L \in Nat \ {0} : L = Len(stack)
    BY <1>1
  <2>2. d \in 1..L /\ d # L /\ L \in 1..L
    BY <2>1
  <2> QED
    BY <1>1, <2>1, <2>2
<1>4. PICK f \in FrameType : f = stack[d]
  BY <1>1, <1>3
<1>5. f.pc \in ObjPcs => f.obj \in DOMAIN pkgs /\ ~(Top.pc \in ObjPcs /\ f.obj = Top.obj)
  BY <1>1, <1>3, <1>4 DEF Calls, Single
<1>6. Going(f)'
  <2>1. f.pc \in ObjPcs => pkgs'[f.obj].rc = pkgs[f.obj].rc /\ pkgs'[f.obj].name = pkgs[f.obj].name
    BY <1>5 DEF Touches
  <2> QED
    BY <1>2, <1>3, <1>4, <1>5, <2>1, GoingStays DEF Calls
<1>7. ASSUME d + 1 \in 1..(Len(stack) - 1)
      PROVE  \E h \in FrameType, g \in FrameType : h = stack[d] /\ g = stack[d + 1] /\ Serves(h, g)'
  <2>1. d + 1 \in DOMAIN stack
    BY <1>1, <1>7
  <2>2. PICK g \in FrameType : g = stack[d + 1]
    BY <1>1, <2>1
  <2>3. Serves(f, g) /\ (g.pc \in ObjPcs => g.obj \in DOMAIN pkgs)
    BY <1>1, <1>3, <1>4, <2>1, <2>2 DEF Calls
  <2>4. Serves(f, g)'
    BY <1>2, <1>5, <2>3, ServesStays
  <2> QED
    BY <1>4, <2>2, <2>4
<1>8. ASSUME d = 1 PROVE \E h \in FrameType : h = stack[1] /\ Asked(h)'
  BY <1>4, <1>5, <1>8, AskedStays DEF Calls
<1> QED
  BY <1>4, <1>6, <1>7, <1>8

\* The innermost call goes on.
LEMMA TurnedCalls ==
  ASSUME Sound, Grows, Touches, Calls, UNCHANGED root \/ Len(stack) = 1,
         Turned(Top'), stack' \in Seq(FrameType), stack' # <<>>,
         Going(Top)',
         Len(stack) > 1 => \E f \in FrameType : f = stack[Len(stack) - 1] /\ Serves(f, Top)',
         Len(stack) = 1 => Asked(Top)',
         Top'.pc \in ObjPcs => (Top.pc \in ObjPcs /\ Top'.obj = Top.obj) \/ Top'.obj \notin DOMAIN pkgs
  PROVE  Calls'
<1>1. /\ Len(stack) \in Nat \ {0} /\ DOMAIN stack = 1..Len(stack) /\ Top = stack[Len(stack)]
      /\ \A c \in DOMAIN stack : stack[c].pc \in ObjPcs => stack[c].obj \in DOMAIN pkgs
  BY TopType DEF Sound, Types, StackType
<1>2. PICK L \in Nat \ {0} : L = Len(stack)
  BY <1>1
<1>3. /\ DOMAIN stack' = 1..L /\ DOMAIN stack = 1..L /\ stack'[L] = Top'
      /\ \A d \in 1..(L - 1) : stack'[d] = stack[d]
  <2>1. Len(stack') = L /\ DOMAIN stack' = 1..Len(stack')
    BY <1>2, LenProperties DEF Turned
  <2> QED
    BY <1>1, <1>2, <2>1 DEF Turned, Top
<1>4. \A d \in 1..L : d = L \/ d \in 1..(L - 1)
  BY <1>2
<1>5. ASSUME NEW d \in 1..L PROVE Going(stack[d])'
  <2>1. CASE d = L
    BY <1>3, <2>1
  <2>2. CASE d \in 1..(L - 1)
    BY <1>2, <1>3, <2>2, BelowStays
  <2> QED
    BY <1>4, <2>1, <2>2
<1>6. ASSUME NEW d \in 1..L, d + 1 \in 1..L PROVE Serves(stack[d], stack[d + 1])'
  <2>1. d \in 1..(L - 1)
    BY <1>2, <1>6
  <2>2. CASE d + 1 = L
    <3>1. d = L - 1 /\ L > 1
      BY <1>2, <1>6, <2>2
    <3>2. PICK f \in FrameType : f = stack[d] /\ Serves(f, Top)'
      BY <1>2, <3>1
    <3> QED
      BY <1>3, <2>1, <2>2, <3>2
  <2>3. CASE d + 1 \in 1..(L - 1)
    BY <1>2, <1>3, <2>1, <2>3, BelowStays
  <2> QED
    BY <1>4, <1>6, <2>2, <2>3
<1>7. Asked(stack[1])'
  <2>1. CASE L = 1
    BY <1>2, <1>3, <2>1
  <2>2. CASE L # 1
    <3>1. 1 \in 1..(L - 1)
      BY <1>2, <2>2
    <3> QED
      BY <1>2, <1>3, <3>1, BelowStays
  <2> QED
    BY <2>1, <2>2
<1>8. Single'
  <2>1. SUFFICES ASSUME NEW c \in 1..L, NEW d \in 1..L, stack'[c].pc \in ObjPcs, stack'[d].pc \in ObjPcs,
                        stack'[c].obj = stack'[d].obj
                 PROVE  c = d
    BY <1>3 DEF Single
  <2>2. \A e \in 1..(L - 1) : e \in 1..L
    BY <1>2
  <2>3. ASSUME NEW e \in 1..(L - 1), stack'[e].pc \in ObjPcs, Top'.pc \in ObjPcs, stack'[e].obj = Top'.obj
        PROVE  FALSE
    <3>0. e \in DOMAIN stack /\ e # L /\ stack'[e] = stack[e]
      BY <1>3, <2>2
    <3>1. stack[e].pc \in ObjPcs /\ stack[e].obj \in DOMAIN pkgs /\ stack[e].obj = Top'.obj /\ e # L
      BY <1>1, <2>3, <3>0
    <3>2. Top.pc \in ObjPcs /\ Top.obj = stack[e].obj /\ L \in 1..L
      BY <1>2, <2>3, <3>1
    <3>3. L \in DOMAIN stack /\ Top = stack[L] /\ Single
      BY <1>1, <1>2, <1>3, <3>2 DEF Calls
    <3> QED
      BY <3>0, <3>1, <3>2, <3>3 DEF Single
  <2>4. CASE c \in 1..(L - 1) /\ d \in 1..(L - 1)
    BY <1>3, <2>1, <2>2, <2>4 DEF Calls, Single
  <2> QED
    BY <1>3, <1>4, <2>1, <2>3, <2>4
<1> QED
  BY <1>3, <1>5, <1>6, <1>7, <1>8 DEF Calls

\* The innermost call makes another.
LEMMA CalledCalls ==
  ASSUME Sound, Grows, Touches, Calls, UNCHANGED root,
         NEW pc \in Pcs, NEW f \in FrameType, f = [Top EXCEPT !.pc = pc], NEW g \in FrameType,
         Called(pc, g), stack' \in Seq(FrameType),
         pc \in ObjPcs => Top.pc \in ObjPcs, g.pc \notin ObjPcs \cup {"devs", "last", "end"},
         Going(f)', Len(stack) > 1 => \E e \in FrameType : e = stack[Len(stack) - 1] /\ Serves(e, f)',
         Len(stack) = 1 => Asked(f)', Serves(f, g)'
  PROVE  Calls'
<1>1. /\ Len(stack) \in Nat \ {0} /\ DOMAIN stack = 1..Len(stack) /\ Top = stack[Len(stack)]
      /\ Top \in FrameType
      /\ \A c \in DOMAIN stack : stack[c].pc \in ObjPcs => stack[c].obj \in DOMAIN pkgs
  BY TopType DEF Sound, Types, StackType
<1>2. PICK L \in Nat \ {0} : L = Len(stack)
  BY <1>1
<1>3. /\ DOMAIN stack' = 1..(L + 1) /\ DOMAIN stack = 1..L /\ stack'[L + 1] = g /\ stack'[L] = f
      /\ \A d \in 1..(L - 1) : stack'[d] = stack[d]
      /\ f.pc = pc /\ f.obj = Top.obj
  <2>1. Len(stack') = L + 1 /\ DOMAIN stack' = 1..Len(stack')
    BY <1>2, LenProperties DEF Called
  <2>2. f.pc = pc /\ f.obj = Top.obj
    BY <1>1, PcType DEF Kept
  <2> QED
    BY <1>1, <1>2, <2>1, <2>2 DEF Called, Top
<1>4. \A d \in 1..(L + 1) : d = L + 1 \/ d = L \/ d \in 1..(L - 1)
  BY <1>2
<1>5. Going(g)'
  <2>1. g.pc \notin ObjPcs /\ "developed" \in ObjPcs /\ "last" \notin ObjPcs
    BY DEF ObjPcs, LoadPcs, Fresh, Unseen, Looking, Batch
  <2>2. ~Marks(g)'
    BY <2>1 DEF Marks, Within, ObjPcs
  <2> QED
    BY <2>1, <2>2 DEF Going
<1>6. ASSUME NEW d \in 1..(L + 1) PROVE Going(stack[d])'
  <2>1. CASE d \in 1..(L - 1)
    <3>1. PICK e \in FrameType : e = stack[d] /\ Going(e)'
      BY <1>2, <2>1, BelowStays
    <3>2. stack'[d] = e
      BY <1>3, <2>1, <3>1
    <3> QED
      BY <3>1, <3>2
  <2> QED
    BY <1>3, <1>4, <1>5, <1>6, <2>1
<1>7. ASSUME NEW d \in 1..(L + 1), d + 1 \in 1..(L + 1) PROVE Serves(stack[d], stack[d + 1])'
  <2>1. d = L \/ d \in 1..(L - 1)
    BY <1>2, <1>7
  <2>2. CASE d = L
    BY <1>3, <2>2
  <2>3. CASE d \in 1..(L - 1) /\ d + 1 = L
    <3>1. d = L - 1 /\ L > 1
      BY <1>2, <2>3
    <3>2. PICK e \in FrameType : e = stack[d] /\ Serves(e, f)'
      BY <1>2, <3>1
    <3> QED
      BY <1>3, <2>3, <3>2
  <2>4. CASE d \in 1..(L - 1) /\ d + 1 \in 1..(L - 1)
    BY <1>2, <1>3, <2>4, BelowStays
  <2>5. d \in 1..(L - 1) => d + 1 = L \/ d + 1 \in 1..(L - 1)
    BY <1>2
  <2> QED
    BY <2>1, <2>2, <2>3, <2>4, <2>5
<1>8. Asked(stack[1])'
  <2>1. CASE L = 1
    BY <1>2, <1>3, <2>1
  <2>2. CASE L # 1
    <3>1. 1 \in 1..(L - 1)
      BY <1>2, <2>2
    <3> QED
      BY <1>2, <1>3, <3>1, BelowStays
  <2> QED
    BY <2>1, <2>2
<1>9. Single'
  <2>1. SUFFICES ASSUME NEW c \in 1..(L + 1), NEW d \in 1..(L + 1), stack'[c].pc \in ObjPcs,
                        stack'[d].pc \in ObjPcs, stack'[c].obj = stack'[d].obj
                 PROVE  c = d
    BY <1>3 DEF Single
  <2>2. c # L + 1 /\ d # L + 1
    BY <1>3, <2>1
  <2>3. c \in 1..L /\ d \in 1..L
    BY <1>2, <2>2
  <2>4. \A e \in 1..L : stack'[e].pc \in ObjPcs => stack[e].pc \in ObjPcs /\ stack'[e].obj = stack[e].obj
    <3>1. \A e \in 1..L : e = L \/ e \in 1..(L - 1)
      BY <1>2
    <3> QED
      BY <1>1, <1>2, <1>3, <3>1
  <2> QED
    BY <1>3, <2>1, <2>3, <2>4 DEF Calls, Single
<1> QED
  BY <1>3, <1>6, <1>7, <1>8, <1>9 DEF Calls

\* The innermost call returns.
LEMMA PoppedCalls ==
  ASSUME Sound, Grows, Touches, Calls, UNCHANGED root, NEW rc \in RCs, Popped(rc),
         stack' \in Seq(FrameType), Top'.pc \in ObjPcs \cup {"devs", "last"} => (faults' = 0 => rc = 0)
  PROVE  Calls'
<1>1. /\ Len(stack) \in Nat \ {0} /\ DOMAIN stack = 1..Len(stack)
      /\ \A c \in DOMAIN stack : stack[c] \in FrameType
      /\ \A c \in DOMAIN stack : stack[c].pc \in ObjPcs => stack[c].obj \in DOMAIN pkgs
  BY TopType DEF Sound, Types, StackType
<1>2. PICK L \in Nat \ {0} : L = Len(stack)
  BY <1>1
<1>3. L > 1 /\ L - 1 \in 1..L /\ L - 1 \in 1..(L - 1)
  BY <1>2 DEF Popped
<1>4. PICK f \in FrameType : f = stack[L - 1]
  BY <1>1, <1>2, <1>3
<1>5. PICK g \in FrameType : g = [f EXCEPT !.rc = rc]
  BY RcType
<1>6. g.pc = f.pc /\ g.rc = rc /\ Kept(g, f)
  BY <1>5, RcType
<1>7. /\ DOMAIN stack' = 1..(L - 1) /\ stack'[L - 1] = g /\ Top' = g
      /\ \A d \in 1..(L - 2) : stack'[d] = stack[d]
  <2>1. Len(stack') = L - 1 /\ DOMAIN stack' = 1..Len(stack')
    BY <1>2, LenProperties DEF Popped
  <2> QED
    BY <1>2, <1>4, <1>5, <2>1 DEF Popped, Top
<1>8. f.pc \in ObjPcs => f.pc \in {"unpacked", "depsdone", "developed"}
  <2>1. Link(f, Top) /\ Len(stack) > 1
    BY <1>2, <1>3, <1>4, Caller
  <2> QED
    BY <2>1 DEF Link, ObjPcs, LoadPcs, Fresh, Unseen, Looking, Batch
<1>9. Going(f)' /\ (f.pc \in ObjPcs => f.obj \in DOMAIN pkgs)
  BY <1>1, <1>2, <1>3, <1>4, BelowStays
<1>10. Going(g)'
  <2>1. Marks(g)' => Marks(f)'
    <3>1. f.pc \in {"cleanup", "returned"} => f.pc \in ObjPcs
      BY DEF ObjPcs
    <3> QED
      BY <1>6, <1>8, <3>1 DEF Marks
  <2>2. pkgs'[g.obj] = pkgs'[f.obj] /\ DepsOf(g.obj)' = DepsOf(f.obj)'
    BY <1>6 DEF Kept, DepsOf
  <2>3. g.name = f.name
    BY <1>6 DEF Kept
  <2> QED
    BY <1>6, <1>7, <1>9, <2>1, <2>2, <2>3 DEF Going
<1>11. ASSUME NEW d \in 1..(L - 1) PROVE Going(stack[d])'
  <2>1. d = L - 1 \/ d \in 1..(L - 2)
    BY <1>2, <1>11
  <2> QED
    BY <1>2, <1>7, <1>10, <2>1, BelowStays
<1>12. \A e \in FrameType : Serves(e, f)' => Serves(e, g)'
  <2>1. Now(g)' = Now(f)' /\ g.kind = f.kind /\ g.todo = f.todo
    BY <1>6 DEF Now, Kept
  <2> HIDE DEF Now, Wanted
  <2> QED
    BY <1>6, <2>1 DEF Serves
<1>13. ASSUME NEW d \in 1..(L - 1), d + 1 \in 1..(L - 1) PROVE Serves(stack[d], stack[d + 1])'
  <2>1. d \in 1..(L - 2) /\ (d + 1 = L - 1 \/ d + 1 \in 1..(L - 2))
    BY <1>2, <1>13
  <2>2. PICK e \in FrameType, h \in FrameType : e = stack[d] /\ h = stack[d + 1] /\ Serves(e, h)'
    BY <1>2, <1>13, BelowStays
  <2> QED
    BY <1>4, <1>7, <1>12, <2>1, <2>2
<1>14. Asked(stack[1])'
  <2>1. PICK e \in FrameType : e = stack[1] /\ Asked(e)'
    <3>1. 1 \in 1..(L - 1)
      BY <1>2, <1>3
    <3> QED
      BY <1>2, <3>1, BelowStays
  <2>2. CASE L - 1 = 1
    <3>1. Asked(f)' /\ Now(g)' = Now(f)' /\ g.kind = f.kind /\ g.todo = f.todo
      BY <1>4, <1>6, <2>1, <2>2 DEF Now, Kept
    <3>2. Asked(g)'
      BY <1>6, <3>1 DEF Asked
    <3> QED
      BY <1>7, <2>2, <3>2
  <2>3. CASE L - 1 # 1
    <3>1. 1 \in 1..(L - 2)
      BY <1>2, <1>3, <2>3
    <3> QED
      BY <1>7, <2>1, <3>1
  <2> QED
    BY <2>2, <2>3
<1>15. Single'
  <2>1. \A d \in 1..(L - 1) : d \in 1..L /\ stack'[d].pc = stack[d].pc /\ stack'[d].obj = stack[d].obj
    <3>1. \A d \in 1..(L - 1) : d \in 1..L /\ (d = L - 1 \/ d \in 1..(L - 2))
      BY <1>2
    <3> QED
      BY <1>4, <1>6, <1>7, <3>1 DEF Kept
  <2> QED
    BY <1>1, <1>2, <1>7, <2>1 DEF Calls, Single
<1> QED
  BY <1>7, <1>11, <1>13, <1>14, <1>15 DEF Calls

\* What was seen stays so, if nobody forgot his package.
LEMMA SeenStays ==
  ASSUME Sound, Grows, Touches, Calls, Seen, failed \subseteq failed',
         \A d \in DOMAIN stack : stack[d].pc \in ObjPcs =>
             \/ \E e \in DOMAIN stack' : stack'[e].pc \in ObjPcs /\ stack'[e].obj = stack[d].obj
             \/ pkgs'[stack[d].obj].rc = 0
             \/ \E f \in failed' : f[1] = pkgs[stack[d].obj].pkg
  PROVE  \A p \in visited : Failed(p)' \/ \E o \in DOMAIN pkgs' :
             pkgs'[o].pkg = p /\ pkgs'[o].name # "none" /\ Counts(o)'
<1>1. SUFFICES ASSUME NEW p \in visited, ~Failed(p)'
               PROVE  \E o \in DOMAIN pkgs' : pkgs'[o].pkg = p /\ pkgs'[o].name # "none" /\ Counts(o)'
  OBVIOUS
<1>2. ~Failed(p)
  BY <1>1 DEF Failed
<1>3. PICK o \in DOMAIN pkgs : pkgs[o].pkg = p /\ pkgs[o].name # "none" /\ Counts(o)
  BY <1>1, <1>2 DEF Seen
<1>4. o \in DOMAIN pkgs' /\ pkgs'[o].pkg = p /\ pkgs'[o].name # "none"
  BY <1>3 DEF Touches
<1>5. Counts(o)'
  <2>1. CASE pkgs[o].rc = 0
    <3>1. Top.pc \in ObjPcs => pkgs[Top.obj].rc = -1
      BY TopType DEF Calls, Going, Sound, Types, StackType
    <3>2. ~(o = Top.obj /\ Top.pc \in ObjPcs)
      BY <2>1, <3>1
    <3> QED
      BY <1>3, <2>1, <3>2 DEF Touches, Counts
  <2>2. CASE \E d \in DOMAIN stack : stack[d].pc \in ObjPcs /\ stack[d].obj = o
    BY <1>1, <1>3, <2>2 DEF Counts, Failed
  <2> QED
    BY <1>3, <2>1, <2>2 DEF Counts
<1> QED
  BY <1>4, <1>5

\* When no call is about a package that has no result, all that was visited is
\* installed or has failed.
LEMMA SeenAtLast ==
  ASSUME Sound, Grows, Touches, Calls, Seen, failed \subseteq failed',
         \A d \in DOMAIN stack : stack[d].pc \in ObjPcs =>
             \/ pkgs'[stack[d].obj].rc = 0
             \/ \E f \in failed' : f[1] = pkgs[stack[d].obj].pkg
  PROVE  \A p \in visited : (Installed(p) \/ Failed(p))'
<1>1. SUFFICES ASSUME NEW p \in visited, ~Failed(p)'
               PROVE  Installed(p)'
  OBVIOUS
<1>2. ~Failed(p)
  BY <1>1 DEF Failed
<1>3. PICK o \in DOMAIN pkgs : pkgs[o].pkg = p /\ pkgs[o].name # "none" /\ Counts(o)
  BY <1>1, <1>2 DEF Seen
<1>4. o \in DOMAIN pkgs' /\ pkgs'[o].pkg = p /\ pkgs'[o].name # "none"
  BY <1>3 DEF Touches
<1>5. pkgs'[o].rc = 0
  <2>1. CASE pkgs[o].rc = 0
    <3>1. Top.pc \in ObjPcs => pkgs[Top.obj].rc = -1
      BY TopType DEF Calls, Going, Sound, Types, StackType
    <3>2. ~(o = Top.obj /\ Top.pc \in ObjPcs)
      BY <2>1, <3>1
    <3> QED
      BY <1>3, <2>1, <3>2 DEF Touches
  <2>2. CASE \E d \in DOMAIN stack : stack[d].pc \in ObjPcs /\ stack[d].obj = o
    BY <1>1, <1>3, <2>2 DEF Failed
  <2> QED
    BY <1>3, <2>1, <2>2 DEF Counts
<1> QED
  BY <1>4, <1>5 DEF Installed, InstalledBy

\* What was installed stays so, and what is new is looked at.
LEMMA ClosedStays ==
  ASSUME Sound, Grows, Touches, Closed, \A o \in DOMAIN pkgs' \ DOMAIN pkgs : pkgs'[o].rc # 0,
         Top.pc \in ObjPcs /\ pkgs'[Top.obj].rc = 0 /\ pkgs'[Top.obj].name # "none"
             => DepsOf(Top.obj) \subseteq visited'
  PROVE  Closed'
<1>1. SUFFICES ASSUME NEW o \in DOMAIN pkgs', pkgs'[o].rc = 0, pkgs'[o].name # "none"
               PROVE  DepsOf(o)' \subseteq visited'
  BY DEF Closed, InstalledBy
<1>2. o \in DOMAIN pkgs
  BY <1>1
<1>3. DepsOf(o)' = DepsOf(o) /\ visited \subseteq visited'
  BY <1>2 DEF DepsOf, Grows
<1>4. CASE o = Top.obj /\ Top.pc \in ObjPcs
  BY <1>1, <1>3, <1>4
<1>5. CASE ~(o = Top.obj /\ Top.pc \in ObjPcs)
  <2>1. pkgs[o].rc = 0 /\ pkgs[o].name # "none"
    BY <1>1, <1>2, <1>5 DEF Touches
  <2>2. DepsOf(o) \subseteq visited
    BY <1>2, <2>1 DEF Closed, InstalledBy
  <2> QED
    BY <1>3, <2>2
<1> QED
  BY <1>4, <1>5

\* What was saved was installed, and stays so.
SavedOf(p) ==
    /\ \E o \in DOMAIN pkgs : pkgs[o].pkg = p /\ pkgs[o].rc = 0
    /\ Failed(p) \/ (Installed(p) /\ ListOf(cat[p].deps) \subseteq visited)

\* A package that was saved stays installed.
LEMMA SavedStays ==
  ASSUME Sound, Grows, Touches, Top.pc \in ObjPcs => pkgs[Top.obj].rc = -1,
         NEW p, SavedOf(p), failed \subseteq failed'
  PROVE  SavedOf(p)'
<1>1. ASSUME NEW o \in DOMAIN pkgs, pkgs[o].rc = 0
      PROVE  o \in DOMAIN pkgs' /\ pkgs'[o].pkg = pkgs[o].pkg /\ pkgs'[o].rc = 0 /\ pkgs'[o].name = pkgs[o].name
  <2>1. ~(o = Top.obj /\ Top.pc \in ObjPcs)
    BY <1>1
  <2> QED
    BY <1>1, <2>1 DEF Touches
<1>2. \E o \in DOMAIN pkgs' : pkgs'[o].pkg = p /\ pkgs'[o].rc = 0
  BY <1>1 DEF SavedOf
<1>3. Installed(p) => Installed(p)'
  BY <1>1 DEF Installed, InstalledBy
<1>4. Failed(p) => Failed(p)'
  BY DEF Failed
<1>5. cat' = cat /\ visited \subseteq visited'
  BY DEF Grows
<1> HIDE DEF Failed, Installed
<1> QED
  BY <1>2, <1>3, <1>4, <1>5 DEF SavedOf

\* So do all of them.
LEMMA SavedStill ==
  ASSUME Sound, Grows, Touches, SavedInstalled, UNCHANGED root, failed \subseteq failed',
         Top.pc \in ObjPcs => pkgs[Top.obj].rc = -1
  PROVE  SavedInstalled'
<1>1. \A p : SavedOf(p) => SavedOf(p)'
  BY SavedStays
<1>2. cmd' = cmd
  BY DEF Grows
<1>3. \A list \in DOMAIN root : \A p \in ListOf(root[list]) \ ListOf(cmd.given[list]) : SavedOf(p)
  BY DEF SavedInstalled, SavedOf
<1>4. \A list \in DOMAIN root : \A p \in ListOf(root[list]) \ ListOf(cmd.given[list]) : SavedOf(p)'
  BY <1>1, <1>3
<1> QED
  BY <1>2, <1>4 DEF SavedInstalled, SavedOf

-----------------------------------------------------------------------------
(* Steps that leave the calls alone.                                       *)

\* Status 0 says what it says.
Ended ==
    code = <<0>> =>
        /\ ListOf(cmd.args) \cap Pkgs \subseteq visited
        /\ ListOf(cmd.args) \subseteq Pkgs => \A f \in failed : f[2] # -1
        /\ cmd.args = <<>> => ListOf(root.deps) \subseteq visited
        /\ \A p \in visited : Installed(p) \/ Failed(p)

Claims == Underway /\ Closed /\ SavedInstalled /\ Ended /\ Chosen /\ Faultless

\* What fails no more is no news.
LEMMA FaultlessStays ==
  ASSUME Claims, Grows, UNCHANGED failed
  PROVE  Faultless' /\ failed \subseteq failed'
BY DEF Claims, Faultless, Grows

\* The result of an installation is told among the failures.
LEMMA Resulted ==
  ASSUME NEW p, NEW rc, Result(p, rc)
  PROVE  /\ failed \subseteq failed'
         /\ rc # 0 => \E f \in failed' : f[1] = p
         /\ rc # -1 => ((\E f \in failed' : f[2] = -1) => \E f \in failed : f[2] = -1)
         /\ rc = 0 => failed' = failed
<1>1. PICK f : f = <<p, rc>>
  OBVIOUS
<1>2. f[1] = p /\ f[2] = rc
  BY <1>1
<1>3. failed' = (IF rc = 0 THEN failed ELSE failed \cup {f})
  BY <1>1 DEF Result
<1> QED
  BY <1>2, <1>3

\* The manifests stay supplied.
LEMMA SuppliedStays ==
  ASSUME Supplied, Grows, UNCHANGED json,
         get'[Main] = get[Main] \/ (get[Main].pc # "saving" /\ get'[Main].pc # "null")
  PROVE  Supplied'
BY DEF Supplied, Grows

\* The library finds no manifest in part but the one it writes.
LEMMA SuppliedMade ==
  ASSUME Sound, Supplied, Library
  PROVE  Supplied'
<1>1. MakePackage(Main)
  BY DEF Library
<1>2. /\ get \in [Callers -> Call] /\ Main \in Callers /\ get[Main].pkg \in Pkgs /\ get[Main] \in Call
      /\ json \in [Pkgs -> Entry] /\ faults \in Nat
  <2>1. get \in [Callers -> Call] /\ Main \in Callers /\ json \in [Pkgs -> Entry] /\ faults \in Nat
    BY MainAssumption DEF Sound, Types, CallType
  <2>2. get[Main] \in Call
    BY <2>1
  <2> QED
    BY <2>1, <2>2 DEF Call
<1>3. \A v : Goto(Main, v) => get'[Main].pc = v /\ get'[Main].pkg = get[Main].pkg
  BY <1>2 DEF Goto, Call
<1>4. get[Main].pc # "saving" => \A p \in Pkgs : json[p] # "part"
  BY DEF Supplied
<1>5. Fault => faults' # 0
  BY FaultIs
<1>6. CASE Lock(Main) \/ Receive(Main)
  BY <1>3, <1>4, <1>6 DEF Lock, Receive, Supplied, At
<1>7. CASE Hit(Main)
  <2>1. json[get[Main].pkg] # "part" /\ get[Main].pc = "held"
    BY <1>2, <1>4, <1>7 DEF Hit, At
  <2> QED
    BY <1>3, <1>4, <1>7, <2>1 DEF Hit, Supplied
<1>8. CASE Expire(Main) \/ Miss(Main)
  <2>1. \A p \in Pkgs : json'[p] # "part"
    BY <1>2, <1>4, <1>8 DEF Expire, Miss, At
  <2>2. get'[Main].pc = "get"
    BY <1>3, <1>8 DEF Expire, Miss
  <2> QED
    BY <2>1, <2>2 DEF Supplied
<1>9. CASE Garbage(Main) \/ Refused(Main)
  BY <1>4, <1>5, <1>9 DEF Garbage, Refused, Supplied, At
<1>10. CASE Save(Main)
  <2>1. \A p \in Pkgs : json'[p] = "part" => p = get[Main].pkg
    BY <1>2, <1>4, <1>10 DEF Save, At
  <2>2. get'[Main].pc = "saving" /\ get'[Main].pkg = get[Main].pkg
    BY <1>3, <1>10 DEF Save
  <2> QED
    BY <2>1, <2>2 DEF Supplied
<1>11. CASE Saved(Main)
  <2>1. \A p \in Pkgs : json'[p] # "part"
    BY <1>2, <1>11 DEF Saved, Supplied
  <2>2. get'[Main].pc = "ok"
    BY <1>3, <1>11 DEF Saved
  <2> QED
    BY <2>1, <2>2 DEF Supplied
<1> QED
  BY <1>1, <1>6, <1>7, <1>8, <1>9, <1>10, <1>11 DEF MakePackage

\* Main stands still.
Still ==
    /\ UNCHANGED <<stack, visited, root, code, failed>>
    /\ DOMAIN pkgs' = DOMAIN pkgs
    /\ \A q \in DOMAIN pkgs :
           pkgs'[q].pkg = pkgs[q].pkg /\ pkgs'[q].name = pkgs[q].name /\ pkgs'[q].rc = pkgs[q].rc

\* Calls that stand still claim what they did.
LEMMA StillCalls ==
  ASSUME Sound, Grows, Calls, Still
  PROVE  Calls'
<1>1. /\ Len(stack) \in Nat \ {0} /\ DOMAIN stack = 1..Len(stack) /\ Top \in FrameType
      /\ Top = stack[Len(stack)] /\ Len(stack) \in DOMAIN stack
      /\ \A c \in DOMAIN stack : stack[c] \in FrameType
      /\ \A c \in DOMAIN stack : stack[c].pc \in ObjPcs => stack[c].obj \in DOMAIN pkgs
  BY TopType DEF Sound, Types, StackType
<1>2. stack' = stack /\ root' = root
  BY DEF Still
<1>3. ASSUME NEW d \in DOMAIN stack PROVE Going(stack[d])'
  <2>1. PICK f \in FrameType : f = stack[d]
    BY <1>1
  <2>2. f.pc \in ObjPcs => /\ f.obj \in DOMAIN pkgs
                           /\ pkgs'[f.obj].rc = pkgs[f.obj].rc /\ pkgs'[f.obj].name = pkgs[f.obj].name
    BY <1>1, <2>1 DEF Still
  <2>3. Going(f)
    BY <2>1 DEF Calls
  <2>4. Going(f)'
    BY <1>2, <2>2, <2>3, GoingStays
  <2> QED
    BY <1>2, <2>1, <2>4
<1>4. ASSUME NEW d \in DOMAIN stack, d + 1 \in DOMAIN stack PROVE Serves(stack[d], stack[d + 1])'
  <2>1. PICK f \in FrameType, g \in FrameType : f = stack[d] /\ g = stack[d + 1]
    BY <1>1, <1>4
  <2>2. /\ f.pc \in ObjPcs => f.obj \in DOMAIN pkgs
        /\ g.pc \in ObjPcs => g.obj \in DOMAIN pkgs
        /\ Serves(f, g)
    BY <1>1, <1>4, <2>1 DEF Calls
  <2>3. Serves(f, g)'
    BY <1>2, <2>2, ServesStays
  <2> QED
    BY <1>2, <2>1, <2>3
<1>5. Asked(stack[1])'
  <2>1. 1 \in DOMAIN stack
    BY <1>1
  <2>2. PICK f \in FrameType : f = stack[1]
    BY <1>1, <2>1
  <2>3. Asked(f) /\ (f.pc \in ObjPcs => f.obj \in DOMAIN pkgs)
    BY <1>1, <2>1, <2>2 DEF Calls
  <2>4. Asked(f)'
    BY <2>3, AskedStays
  <2> QED
    BY <1>2, <2>2, <2>4
<1>6. Single'
  BY <1>2 DEF Calls, Single
<1> QED
  BY <1>2, <1>3, <1>4, <1>5, <1>6 DEF Calls

\* So does the command.
LEMMA StillClaims ==
  ASSUME Sound, Grows, Claims, Running, Still, Supplied', faults' \in Nat
  PROVE  Claims'
<1>1. Calls /\ Back(Top) /\ Lost /\ Seen /\ Closed /\ SavedInstalled /\ Chosen
  BY DEF Claims, Underway
<1>2. /\ Top \in FrameType /\ (Top.pc \in ObjPcs => Top.obj \in DOMAIN pkgs) /\ Len(stack) \in DOMAIN stack
      /\ Top = stack[Len(stack)]
  BY TopType DEF Sound, Types, StackType
<1>3. Top' = Top /\ Running' /\ UNCHANGED <<cmd, cat, root, visited, failed, code, stack>>
  BY DEF Still, Top, Running, Grows
<1>4. Touches
  BY DEF Touches, Still
<1>5. Calls'
  BY <1>1, StillCalls
<1>6. PICK f \in FrameType : f = Top
  BY <1>2
<1>7. Back(Top)'
  <2>1. {"depsdone", "cleanup", "returned"} \subseteq ObjPcs
    BY DEF ObjPcs
  <2>2. f.pc \in ObjPcs => DepsOf(f.obj)' = DepsOf(f.obj) /\ pkgs'[f.obj].name = pkgs[f.obj].name
    BY <1>2, <1>6, NowStays DEF Still
  <2>3. Back(f)'
    BY <1>1, <1>3, <1>6, <2>1, <2>2 DEF Back
  <2> QED
    BY <1>3, <1>6, <2>3
<1>8. Lost'
  BY <1>1, <1>3 DEF Lost, Failing
<1>9. Seen'
  BY <1>1, <1>3, <1>4, SeenStays DEF Seen
<1>10. Top.pc \in ObjPcs => pkgs[Top.obj].rc = -1
  BY <1>1, <1>2 DEF Calls, Going
<1>11. Closed'
  <2>1. Top.pc \in ObjPcs => pkgs'[Top.obj].rc # 0
    BY <1>2, <1>10 DEF Still
  <2> QED
    BY <1>1, <1>4, <2>1, ClosedStays DEF Still
<1>12. SavedInstalled'
  BY <1>1, <1>3, <1>4, <1>10, SavedStill
<1>13. Ended' /\ Chosen'
  BY <1>1, <1>3 DEF Ended, Chosen, Running
<1>14. Faultless'
  BY <1>3, FaultlessStays
<1> QED
  BY <1>3, <1>5, <1>7, <1>8, <1>9, <1>11, <1>12, <1>13, <1>14 DEF Claims, Underway

-----------------------------------------------------------------------------
(* Main goes on inside clib_package_install.                               *)

\* From where to where, and with which result.
Passage ==
    \/ Top.pc \in Unmarked /\ Top'.pc \in Unmarked /\ Top'.rc = Top.rc
    \/ /\ Top.pc = "tested" /\ Top'.pc = "returned" /\ Top'.rc = Top.rc
       /\ Pkg \in visited /\ pkgs'[Top.obj].name = "none"
    \/ Top.pc = "prepare" /\ Top'.pc = "cleanup" /\ Top'.rc = -1 /\ faults' # 0
    \/ Top.pc \in Within /\ Top'.pc \in Within /\ Top'.rc = Top.rc /\ (Top.pc = "unpacked" => Top.rc # -1)
    \/ /\ Top.pc \in Within /\ Top'.pc = "cleanup" /\ Top'.rc # 0 /\ (faults' # 0 \/ Top.rc = -1)
       /\ Top.pc = "unpacked" /\ Top.rc = -1 => Top'.rc = -1
    \/ Top.pc = "depsdone" /\ Top'.pc = "cleanup" /\ Top'.rc = Top.rc
    \/ Top.pc = "cleanup" /\ Top'.pc = "returned" /\ Top'.rc = Top.rc

\* The package is entered among the visited.
Entered ==
    /\ Top.pc = "marked" /\ Top'.pc \in Within /\ Top'.rc = Top.rc
    /\ visited' = visited \cup {Pkg} /\ pkgs'[Top.obj].name # "none"

Passes ==
    /\ Top.pc \in ObjPcs /\ Turned(Top') /\ Top' \in FrameType /\ Same(Top', Top)
    /\ stack' \in Seq(FrameType) /\ stack' # <<>>
    /\ UNCHANGED <<root, code, failed, get, json>> /\ faults' \in Nat
    /\ DOMAIN pkgs' = DOMAIN pkgs
    /\ \A q \in DOMAIN pkgs :
           /\ pkgs'[q].pkg = pkgs[q].pkg /\ pkgs'[q].rc = pkgs[q].rc
           /\ pkgs'[q].name = pkgs[q].name \/ (q = Top.obj /\ pkgs'[q].name # "none")
    /\ Entered \/ (UNCHANGED visited /\ Passage)

\* The points of a passage.
LEMMA PassPoints ==
  /\ Unmarked \subseteq ObjPcs /\ Within \subseteq ObjPcs
  /\ \A pc \in Within : pc \notin Unmarked \cup Leaving
  /\ "end" \notin ObjPcs /\ "slug" \notin ObjPcs /\ "devs" \notin ObjPcs /\ "last" \notin ObjPcs
  /\ "alone" \notin ObjPcs /\ "next" \notin ObjPcs
  /\ Leaving \subseteq ObjPcs /\ Leaving = {"depsdone", "cleanup", "returned", "developed"}
  /\ Unmarked = {"test", "tested", "prepare", "mark", "marked"}
BY DEF Unmarked, Within, Leaving, ObjPcs, LoadPcs, Fresh, Unseen, Looking, Batch

\* The call of a package after a passage, by itself.
LEMMA PassGoing ==
  ASSUME Sound, Grows, Claims, Running, Passes
  PROVE  Going(Top)' /\ Back(Top)' /\ (Failing(Top) => Failing(Top)')
<1>1. Calls /\ Back(Top) /\ Top.pc \in ObjPcs
  BY DEF Claims, Underway, Passes
<1>2. /\ Top \in FrameType /\ Top.obj \in DOMAIN pkgs /\ Len(stack) \in DOMAIN stack
      /\ Top = stack[Len(stack)]
  BY <1>1, TopType DEF Sound, Types, StackType
<1>3. PICK f \in FrameType : f = Top
  BY <1>2
<1>4. PICK g \in FrameType : g = Top'
  BY DEF Passes
<1>5. Going(f) /\ Back(f)
  BY <1>1, <1>2, <1>3 DEF Calls
<1>6. /\ g.obj = f.obj /\ f.obj \in DOMAIN pkgs /\ pkgs'[f.obj].pkg = pkgs[f.obj].pkg
      /\ pkgs'[f.obj].rc = pkgs[f.obj].rc /\ pkgs[f.obj].rc = -1
      /\ pkgs'[f.obj].name = pkgs[f.obj].name \/ pkgs'[f.obj].name # "none"
  BY <1>1, <1>2, <1>3, <1>4, <1>5 DEF Passes, Same, Going
<1>7. DepsOf(g.obj)' = DepsOf(f.obj) /\ visited \subseteq visited' /\ (faults' = 0 => faults = 0)
  BY <1>6 DEF DepsOf, Grows
<1>8. faults = 0 => f.rc = 0
  BY <1>1, <1>3, <1>5 DEF Going
<1>9. \/ /\ f.pc = "marked" /\ g.pc \in Within /\ g.rc = f.rc /\ pkgs[f.obj].pkg \in visited'
      \/ f.pc \in Unmarked /\ g.pc \in Unmarked /\ g.rc = f.rc
      \/ /\ f.pc = "tested" /\ g.pc = "returned" /\ g.rc = f.rc
         /\ pkgs[f.obj].pkg \in visited /\ pkgs'[f.obj].name = "none"
      \/ f.pc = "prepare" /\ g.pc = "cleanup" /\ g.rc = -1 /\ faults' # 0
      \/ f.pc \in Within /\ g.pc \in Within /\ g.rc = f.rc /\ (f.pc = "unpacked" => f.rc # -1)
      \/ /\ f.pc \in Within /\ g.pc = "cleanup" /\ g.rc # 0 /\ (faults' # 0 \/ f.rc = -1)
         /\ f.pc = "unpacked" /\ f.rc = -1 => g.rc = -1
      \/ f.pc = "depsdone" /\ g.pc = "cleanup" /\ g.rc = f.rc
      \/ f.pc = "cleanup" /\ g.pc = "returned" /\ g.rc = f.rc
  BY <1>3, <1>4, <1>6 DEF Passes, Entered, Passage, Pkg
<1>10. Marks(g) => pkgs[f.obj].pkg \in visited'
  <2>1. Marks(f) => pkgs[f.obj].pkg \in visited'
    BY <1>5, <1>7 DEF Going
  <2>2. g.pc # "depsdone" /\ g.pc # "developed"
    BY <1>9, PassPoints
  <2>3. f.pc \in Within => Marks(f)
    BY DEF Marks
  <2>4. g.pc \in Unmarked => ~Marks(g)
    BY PassPoints DEF Marks
  <2> QED
    BY <1>7, <1>9, <2>1, <2>2, <2>3, <2>4, PassPoints DEF Marks
<1>11. g.pc \in ObjPcs /\ g.pc \notin {"developed", "depsdone", "devs", "last", "end", "alone"}
  BY <1>9, PassPoints
<1>12. Going(g)'
  <2>1. Marks(g)' = Marks(g)
    BY DEF Marks
  <2>2. faults' = 0 => g.rc = 0
    BY <1>7, <1>8, <1>9
  <2> QED
    BY <1>6, <1>10, <1>11, <2>1, <2>2 DEF Going
<1>13. Back(g)'
  <2>1. g.pc = "cleanup" /\ g.rc = 0 => f.pc = "depsdone" /\ f.rc = 0
    BY <1>9, PassPoints
  <2>2. g.pc = "returned" /\ g.rc = 0 /\ pkgs'[g.obj].name # "none" => f.pc = "cleanup" /\ f.rc = 0
    BY <1>6, <1>9, PassPoints
  <2> QED
    BY <1>5, <1>7, <1>11, <2>1, <2>2 DEF Back
<1>14. Failing(f) => Failing(g)'
  <2>1. SUFFICES ASSUME Failing(f) PROVE Failing(g)'
    OBVIOUS
  <2>2. f.rc = -1 /\ f.pc \in {"unpacked", "depsdone", "cleanup"}
    BY <1>1, <1>3, <1>9, <2>1, PassPoints DEF Failing
  <2>3. g.rc = -1 /\ g.pc \in {"cleanup", "returned"}
    BY <1>9, <2>2, PassPoints
  <2> QED
    BY <2>3 DEF Failing
<1> QED
  BY <1>3, <1>4, <1>12, <1>13, <1>14

\* The caller is served as before, and the command's call is the one it was.
LEMMA PassServes ==
  ASSUME Sound, Grows, Claims, Running, Passes
  PROVE  /\ Len(stack) > 1 => \E f \in FrameType : f = stack[Len(stack) - 1] /\ Serves(f, Top)'
         /\ Len(stack) = 1 => Asked(Top)'
<1>1. Calls /\ Top.pc \in ObjPcs /\ UNCHANGED root
  BY DEF Claims, Underway, Passes
<1>2. /\ Top \in FrameType /\ Top.obj \in DOMAIN pkgs /\ Len(stack) \in DOMAIN stack
      /\ Top = stack[Len(stack)] /\ Len(stack) \in Nat \ {0} /\ DOMAIN stack = 1..Len(stack)
      /\ \A c \in DOMAIN stack : stack[c] \in FrameType
      /\ \A c \in DOMAIN stack : stack[c].pc \in ObjPcs => stack[c].obj \in DOMAIN pkgs
  BY <1>1, TopType DEF Sound, Types, StackType
<1>3. PICK f \in FrameType : f = Top
  BY <1>2
<1>4. PICK g \in FrameType : g = Top'
  BY DEF Passes
<1>5. g.kind = f.kind /\ g.todo = f.todo /\ g.obj = f.obj /\ f.pc \in ObjPcs /\ g.pc \in ObjPcs
  BY <1>1, <1>3, <1>4, PassPoints DEF Passes, Same, Entered, Passage
<1>6. Now(g)' = Now(f)'
  BY <1>5 DEF Now
<1>7. f.pc # "end"
  BY <1>5, PassPoints
<1>8. ASSUME Len(stack) > 1 PROVE \E e \in FrameType : e = stack[Len(stack) - 1] /\ Serves(e, Top)'
  <2>1. PICK L \in Nat \ {0} : L = Len(stack)
    BY <1>2
  <2>2. L - 1 \in 1..L /\ (L - 1) + 1 = L /\ L \in 1..L
    BY <1>8, <2>1
  <2>3. PICK e \in FrameType : e = stack[L - 1]
    BY <1>2, <2>1, <2>2
  <2>4. Serves(e, f) /\ (e.pc \in ObjPcs => e.obj \in DOMAIN pkgs)
    BY <1>1, <1>2, <1>3, <2>1, <2>2, <2>3 DEF Calls
  <2>5. Serves(e, f)'
    BY <1>1, <1>2, <1>3, <2>4, ServesStays
  <2>6. Serves(e, g)'
    <3> HIDE DEF Wanted, Now
    <3> QED
      BY <1>5, <1>6, <1>7, <2>5 DEF Serves
  <2> QED
    BY <1>4, <2>1, <2>3, <2>6
<1>9. ASSUME Len(stack) = 1 PROVE Asked(Top)'
  <2>1. Asked(f)
    BY <1>1, <1>2, <1>3, <1>9 DEF Calls
  <2>2. Asked(f)'
    BY <1>2, <1>3, <2>1, AskedStays
  <2>3. Asked(g)'
    <3> HIDE DEF Now
    <3> QED
      BY <1>5, <1>6, <2>2 DEF Asked
  <2> QED
    BY <1>4, <2>3
<1> QED
  BY <1>8, <1>9

\* A passage keeps what the command claims.
LEMMA PassesClaims ==
  ASSUME Sound, Grows, Claims, Running, Passes
  PROVE  Claims'
<1>1. Calls /\ Lost /\ Seen /\ Supplied /\ Closed /\ SavedInstalled /\ Chosen /\ Top.pc \in ObjPcs
  BY DEF Claims, Underway, Passes
<1>2. /\ Top \in FrameType /\ Top.obj \in DOMAIN pkgs /\ Len(stack) \in DOMAIN stack
      /\ Top = stack[Len(stack)] /\ Len(stack) \in Nat \ {0} /\ DOMAIN stack = 1..Len(stack)
  BY <1>1, TopType DEF Sound, Types, StackType
<1>3. /\ Running' /\ UNCHANGED <<cmd, cat, root, failed, code, get, json>> /\ faults' \in Nat
      /\ Top'.obj = Top.obj /\ Top'.pc \in ObjPcs
  <2>1. Top'.obj = Top.obj /\ Top'.pc \in ObjPcs
    BY PassPoints DEF Passes, Same, Entered, Passage
  <2> QED
    BY <2>1 DEF Passes, Running, Grows
<1>4. Touches
  BY <1>1 DEF Touches, Passes
<1>5. Going(Top)' /\ Back(Top)' /\ (Failing(Top) => Failing(Top)')
  BY PassGoing
<1>6. Calls'
  BY <1>1, <1>3, <1>4, <1>5, PassServes, TurnedCalls DEF Passes
<1>7. Lost'
  BY <1>1, <1>3, <1>5 DEF Lost
<1>8. pkgs[Top.obj].rc = -1 /\ pkgs'[Top.obj].rc = -1
  BY <1>1, <1>2 DEF Calls, Going, Passes
<1>9. Closed'
  <2>1. \A o \in DOMAIN pkgs' \ DOMAIN pkgs : pkgs'[o].rc # 0
    BY DEF Passes
  <2> QED
    BY <1>1, <1>4, <1>8, <2>1, ClosedStays
<1>10. SavedInstalled'
  BY <1>1, <1>3, <1>4, <1>8, SavedStill
<1>11. Supplied'
  BY <1>1, <1>3, SuppliedStays
<1>12. Ended' /\ Chosen'
  BY <1>1, <1>3 DEF Ended, Chosen, Running
<1>13. DOMAIN stack' = DOMAIN stack /\ \A d \in DOMAIN stack : d # Len(stack) => stack'[d] = stack[d]
  <2>1. PICK L \in Nat \ {0} : L = Len(stack)
    BY <1>2
  <2>2. \A d \in 1..L : d # L => d \in 1..(L - 1)
    BY <2>1
  <2>3. DOMAIN stack' = 1..L
    BY <2>1, LenProperties DEF Passes, Turned
  <2> QED
    BY <1>2, <2>1, <2>2, <2>3 DEF Passes, Turned
<1>14. stack'[Len(stack)] = Top'
  BY DEF Passes, Turned, Top
<1>15. Seen'
  <2>1. ASSUME NEW d \in DOMAIN stack, stack[d].pc \in ObjPcs
        PROVE  \E e \in DOMAIN stack' : stack'[e].pc \in ObjPcs /\ stack'[e].obj = stack[d].obj
    BY <1>2, <1>3, <1>13, <1>14, <2>1
  <2>2. \A p \in visited : Failed(p)' \/ \E o \in DOMAIN pkgs' :
            pkgs'[o].pkg = p /\ pkgs'[o].name # "none" /\ Counts(o)'
    BY <1>1, <1>3, <1>4, <2>1, SeenStays
  <2>3. CASE UNCHANGED visited
    BY <2>2, <2>3 DEF Seen
  <2>4. CASE Entered
    <3>1. PICK q \in DOMAIN pkgs : q = Top.obj
      BY <1>2
    <3>2. /\ q \in DOMAIN pkgs' /\ pkgs'[q].pkg = Pkg /\ pkgs'[q].name # "none"
          /\ visited' = visited \cup {Pkg} /\ Counts(q)'
      <4>1. /\ q \in DOMAIN pkgs' /\ pkgs'[q].pkg = Pkg /\ pkgs'[q].name # "none"
            /\ visited' = visited \cup {Pkg}
        BY <2>4, <3>1 DEF Entered, Passes, Pkg
      <4>2. Counts(q)'
        BY <1>2, <1>3, <1>13, <1>14, <3>1 DEF Counts
      <4> QED
        BY <4>1, <4>2
    <3>3. ASSUME NEW p \in visited'
          PROVE  Failed(p)' \/ \E o \in DOMAIN pkgs' : pkgs'[o].pkg = p /\ pkgs'[o].name # "none" /\ Counts(o)'
      <4>1. CASE p \in visited
        BY <2>2, <3>3, <4>1
      <4>2. CASE p = Pkg
        BY <3>2, <4>2
      <4> QED
        BY <3>2, <3>3, <4>1, <4>2
    <3> HIDE DEF Counts, Failed
    <3> QED
      BY <3>3 DEF Seen
  <2> QED
    BY <2>3, <2>4 DEF Passes
<1>16. Faultless'
  BY <1>3, FaultlessStays
<1> QED
  BY <1>3, <1>5, <1>6, <1>7, <1>9, <1>10, <1>11, <1>12, <1>15, <1>16 DEF Claims, Underway

\* The points of the installation.
LEMMA WithinPoints ==
  Within = {"make", "makefetch", "makewait", "look", "looked", "download", "fetch", "drain",
            "store", "stored", "configure", "exec", "unpacked", "deps"}
BY DEF Within, Unmarked, Leaving, ObjPcs, LoadPcs, Fresh, Unseen, Looking, Batch

\* A passage that leaves the packages' objects alone.
LEMMA PlainPasses ==
  ASSUME Sound, Advanced, Top.pc \in ObjPcs, faults' \in Nat, Passage,
         UNCHANGED <<root, code, failed, get, json, pkgs, visited>>
  PROVE  Passes
BY DEF Passes, Advanced, Kept, Same

\* The sections are passed through.
LEMMA SectionsPass ==
  ASSUME Sound, Loading, EnterSection \/ Tested \/ Marked \/ Looked \/ Stored
  PROVE  Passes
<1>1. faults \in Nat
  BY DEF Sound, Types, CallType
<1>2. CASE EnterSection
  <2>1. /\ Advanced /\ Top'.rc = Top.rc /\ Top.pc \in ObjPcs
        /\ \/ Top.pc = "test" /\ Top'.pc = "tested"
           \/ Top.pc = "mark" /\ Top'.pc = "marked"
           \/ Top.pc = "look" /\ Top'.pc = "looked"
           \/ Top.pc = "store" /\ Top'.pc = "stored"
        /\ UNCHANGED <<root, code, failed, get, json, pkgs, visited, faults>>
    BY <1>2, EnterSectionIs DEF Went
  <2>2. Passage
    BY <2>1, PassPoints, WithinPoints DEF Passage
  <2> QED
    BY <1>1, <2>1, <2>2, PlainPasses
<1>3. CASE Tested
  <2>1. /\ Advanced /\ Top'.rc = Top.rc /\ Top.pc \in ObjPcs /\ Top.pc = "tested"
        /\ (Pkg \in visited /\ Top'.pc = "returned") \/ Top'.pc = "prepare"
        /\ UNCHANGED <<root, code, failed, get, json, pkgs, visited, faults>>
    BY <1>3, TestedIs DEF Went
  <2>2. pkgs[Top.obj].name = "none"
    BY <2>1, LoadPoints DEF Loading, Owns
  <2>3. Passage
    BY <2>1, <2>2, PassPoints DEF Passage
  <2> QED
    BY <1>1, <2>1, <2>3, PlainPasses
<1>4. CASE Looked \/ Stored
  <2>1. /\ Advanced /\ Top'.rc = Top.rc /\ Top.pc \in ObjPcs /\ Top.pc \in {"looked", "stored"}
        /\ Top'.pc \in {"download", "configure"} /\ faults' \in Nat
        /\ UNCHANGED <<root, code, failed, get, json, pkgs, visited>>
    BY <1>1, <1>4, LookedIs, StoredIs DEF Went
  <2>2. Passage
    BY <2>1, WithinPoints DEF Passage
  <2> QED
    BY <2>1, <2>2, PlainPasses
<1>5. CASE Marked
  <2>1. /\ Advanced /\ Top'.rc = Top.rc /\ Top.pc \in ObjPcs /\ Top.pc = "marked"
        /\ Top'.pc \in {"make", "configure", "look"} /\ visited' = visited \cup {Pkg}
        /\ UNCHANGED <<root, code, failed, get, json, pkgs, faults>>
    BY <1>5, MarkedIs, SourcesIs DEF Went
  <2>2. pkgs[Top.obj].name = "live"
    BY <2>1, LoadPoints DEF Loading, Owns
  <2>3. Entered
    BY <2>1, <2>2, WithinPoints DEF Entered
  <2> QED
    BY <1>1, <2>1, <2>3 DEF Passes, Advanced, Kept, Same
<1> QED
  BY <1>2, <1>3, <1>4, <1>5

\* The directory, the commands and what comes after them.
LEMMA CommandsPass ==
  ASSUME Sound, Prepare \/ Configure \/ RunInstall \/ DependenciesDone \/ Cleanup
  PROVE  Passes
<1>1. faults \in Nat
  BY DEF Sound, Types, CallType
<1>2. CASE Prepare
  <2>1. /\ Advanced /\ Top.pc \in ObjPcs /\ Top.pc = "prepare" /\ Top.obj \in DOMAIN pkgs
        /\ (Top'.pc = "mark" /\ Top'.rc = Top.rc) \/ (Top'.pc = "cleanup" /\ Top'.rc = -1 /\ faults' # 0)
        /\ UNCHANGED <<root, code, failed, get, json, visited>> /\ faults' \in Nat
    BY <1>2, PrepareIs, FaultIs DEF Went
  <2>2. Passage
    BY <2>1, PassPoints DEF Passage
  <2>3. /\ DOMAIN pkgs' = DOMAIN pkgs /\ \A q \in DOMAIN pkgs : q # Top.obj => pkgs'[q] = pkgs[q]
        /\ pkgs'[Top.obj].pkg = pkgs[Top.obj].pkg /\ pkgs'[Top.obj].rc = pkgs[Top.obj].rc
        /\ pkgs'[Top.obj].name # "none"
    <3>1. /\ DOMAIN pkgs' = DOMAIN pkgs /\ \A q \in DOMAIN pkgs : q # Top.obj => pkgs'[q] = pkgs[q]
          /\ pkgs'[Top.obj] = [pkgs[Top.obj] EXCEPT !.name = "live"] /\ pkgs[Top.obj] \in ObjectType
      BY <1>2, <2>1, PrepareIs, Inside
    <3> QED
      BY <3>1 DEF ObjectType
  <2> QED
    BY <2>1, <2>2, <2>3 DEF Passes, Advanced, Kept, Same
<1>3. CASE Configure
  <2>1. /\ Advanced /\ Top.pc \in ObjPcs /\ Top.pc = "configure"
        /\ \/ Top'.pc = "exec" /\ Top'.rc = Top.rc
           \/ Top'.pc = "cleanup" /\ Top'.rc \in {-1, 256} /\ faults' # 0
        /\ UNCHANGED <<root, code, failed, get, json, visited, pkgs>> /\ faults' \in Nat
    BY <1>3, ConfigureIs, FaultIs
  <2>2. Passage
    BY <2>1, WithinPoints DEF Passage
  <2> QED
    BY <2>1, <2>2, PlainPasses
<1>4. CASE RunInstall
  <2>1. /\ Advanced /\ Top.pc \in ObjPcs /\ Top.pc = "unpacked"
        /\ \/ Top'.pc = "cleanup" /\ Top'.rc = -1 /\ Top.rc = -1
           \/ Top'.pc = "deps" /\ Top'.rc = Top.rc /\ Top.rc # -1
           \/ Top'.pc = "cleanup" /\ Top'.rc \in {-1, 256} /\ faults' # 0 /\ Top.rc # -1
        /\ UNCHANGED <<root, code, failed, get, json, visited, pkgs>> /\ faults' \in Nat
    BY <1>4, RunInstallIs, FaultIs
  <2>2. Passage
    BY <2>1, WithinPoints DEF Passage
  <2> QED
    BY <2>1, <2>2, PlainPasses
<1>5. CASE DependenciesDone
  <2>1. /\ Advanced /\ Top.pc \in ObjPcs /\ Top.pc = "depsdone" /\ Top'.pc = "cleanup" /\ Top'.rc = Top.rc
        /\ UNCHANGED <<root, code, failed, get, json, visited, pkgs, faults>>
    BY <1>5, DependenciesDoneIs DEF pkgVars
  <2>2. Passage
    BY <2>1 DEF Passage
  <2> QED
    BY <1>1, <2>1, <2>2, PlainPasses
<1>6. CASE Cleanup
  <2>1. /\ Advanced /\ Top.pc \in ObjPcs /\ Top.pc = "cleanup" /\ Top'.pc = "returned" /\ Top'.rc = Top.rc
        /\ UNCHANGED <<root, code, failed, get, json, visited, faults>> /\ Top.obj \in DOMAIN pkgs
    BY <1>6, CleanupIs DEF pkgVars
  <2>2. Passage
    BY <2>1 DEF Passage
  <2>3. /\ DOMAIN pkgs' = DOMAIN pkgs /\ \A q \in DOMAIN pkgs : q # Top.obj => pkgs'[q] = pkgs[q]
        /\ pkgs'[Top.obj].pkg = pkgs[Top.obj].pkg /\ pkgs'[Top.obj].rc = pkgs[Top.obj].rc
        /\ pkgs'[Top.obj].name # "none"
    <3>1. /\ DOMAIN pkgs' = DOMAIN pkgs /\ \A q \in DOMAIN pkgs : q # Top.obj => pkgs'[q] = pkgs[q]
          /\ pkgs'[Top.obj] = [pkgs[Top.obj] EXCEPT !.name = "freed"] /\ pkgs[Top.obj] \in ObjectType
      BY <1>6, <2>1, CleanupIs, Inside
    <3> QED
      BY <3>1 DEF ObjectType
  <2> QED
    BY <1>1, <2>1, <2>2, <2>3 DEF Passes, Advanced, Kept, Same
<1> QED
  BY <1>2, <1>3, <1>4, <1>5, <1>6

\* The threads are made and waited for.
LEMMA ThreadsPass ==
  ASSUME Sound, Pathed, Reference \/ FetchMakefile \/ JoinMakefile \/ Download \/ Join
  PROVE  Passes
<1>1. faults \in Nat
  BY DEF Sound, Types, CallType
<1>2. CASE Reference \/ JoinMakefile \/ Join
  <2>1. /\ Turned(Top') /\ Top' \in FrameType /\ Same(Top', Top) /\ stack' \in Seq(FrameType)
        /\ stack' # <<>> /\ Top'.rc = Top.rc /\ Top.pc \in ObjPcs
        /\ Top.pc \in {"make", "download", "makewait", "drain"}
        /\ Top'.pc \in {"makefetch", "fetch", "configure", "look", "drain", "download", "store"}
        /\ UNCHANGED <<get, json, visited, faults, pkgs>>
    <3>1. CASE Reference
      BY <3>1, ReferenceIs DEF pkgVars
    <3>2. CASE JoinMakefile
      BY <3>2, JoinMakefileIs, SourcesIs DEF pkgVars
    <3>3. CASE Join
      BY <3>3, JoinIs DEF pkgVars
    <3> QED
      BY <1>2, <3>1, <3>2, <3>3
  <2>2. UNCHANGED <<root, code, failed>>
    BY <1>2 DEF Reference, JoinMakefile, Join, Installing
  <2>3. Passage
    BY <2>1, WithinPoints DEF Passage
  <2> QED
    BY <1>1, <2>1, <2>2, <2>3 DEF Passes
<1>3. CASE FetchMakefile \/ Download
  <2>1. UNCHANGED <<root, code, failed, get, json, visited, lock>>
    BY <1>3 DEF FetchMakefile, Download, Installing
  <2>2. \E path \in Paths :
          /\ Turned(Top') /\ Top' \in FrameType /\ Same(Top', Top) /\ stack' \in Seq(FrameType)
          /\ stack' # <<>> /\ Top.pc \in ObjPcs /\ Top.pc \in {"makefetch", "fetch"}
          /\ \/ NewFetch(path) /\ Top'.rc = Top.rc /\ Top'.pc \in {"makewait", "download", "drain"}
             \/ NoFetch /\ Top'.pc = "cleanup" /\ Top'.rc # 0
    <3>1. CASE FetchMakefile
      <4>1. cat[Pkg].makefile \in Paths
        BY <3>1, PathsAre, FetchMakefileIs
      <4> QED
        BY <3>1, <4>1, FetchMakefileIs
    <3>2. CASE Download
      <4>1. Src(Pkg)[Top.k] \in Paths
        BY <3>2, PathsAre, DownloadIs
      <4> QED
        BY <3>2, <4>1, DownloadIs
    <3> QED
      BY <1>3, <3>1, <3>2
  <2>3. PICK path \in Paths :
          \/ NewFetch(path) /\ Top'.rc = Top.rc /\ Top'.pc \in {"makewait", "download", "drain"}
          \/ NoFetch /\ Top'.pc = "cleanup" /\ Top'.rc # 0
    BY <2>2
  <2>4. Top.pc \in ObjPcs
    BY <2>2
  <2>5. Passage
    <3>1. NoFetch => faults' # 0
      BY FaultIs DEF NoFetch
    <3> QED
      BY <2>2, <2>3, <3>1, WithinPoints DEF Passage
  <2>6. faults' \in Nat
    BY <1>1, <2>3, FaultIs DEF NewFetch, NoFetch
  <2>7. /\ DOMAIN pkgs' = DOMAIN pkgs /\ \A q \in DOMAIN pkgs : q # Top.obj => pkgs'[q] = pkgs[q]
        /\ \E r : pkgs'[Top.obj] = [pkgs[Top.obj] EXCEPT !.refs = r]
    BY <2>1, <2>3, <2>4, NewThreadSound, NoThreadSound
  <2>8. /\ pkgs'[Top.obj].pkg = pkgs[Top.obj].pkg /\ pkgs'[Top.obj].rc = pkgs[Top.obj].rc
        /\ pkgs'[Top.obj].name = pkgs[Top.obj].name
    <3>1. pkgs[Top.obj] \in ObjectType
      BY <2>4, Inside
    <3> QED
      BY <2>7, <3>1 DEF ObjectType
  <2> QED
    BY <2>1, <2>2, <2>5, <2>6, <2>7, <2>8 DEF Passes
<1> QED
  BY <1>2, <1>3

-----------------------------------------------------------------------------
(* The other steps of the innermost call.                                  *)

\* The threads and the library's package maker leave main's calls alone.
LEMMA StillSteps ==
  ASSUME Sound, Grows, Claims, Library \/ \E n \in DOMAIN fetch : FetchFile(n)
  PROVE  Claims'
<1>1. Supplied /\ faults \in Nat
  <2>1. Running
    BY StepsRun DEF Next, MainStep
  <2> QED
    BY <2>1 DEF Claims, Underway, Sound, Types, CallType
<1>2. CASE Library
  <2>1. Running /\ Still /\ faults' \in Nat
    BY <1>2, LibraryIs DEF Library, Still, Made, installVars
  <2> QED
    BY <1>1, <1>2, <2>1, SuppliedMade, StillClaims
<1>3. ASSUME NEW n \in DOMAIN fetch, FetchFile(n) PROVE Claims'
  <2>1. Running /\ Still /\ faults' \in Nat /\ UNCHANGED <<get, json>>
    BY <1>3, FetchFileIs DEF Still, Released
  <2>2. Supplied'
    BY <1>1, <2>1, SuppliedStays
  <2> QED
    BY <2>1, <2>2, StillClaims
<1> QED
  BY <1>2, <1>3

\* The caller is served by what becomes of the innermost call.
LEMMA TurnedServes ==
  ASSUME Sound, Grows, Calls, UNCHANGED root, NEW g \in FrameType, g.kind = Top.kind,
         g.kind = "list" /\ g.pc # "end" =>
             Top.pc # "end" /\ ListOf(Top.todo) \cup Now(Top) \subseteq visited' \cup ListOf(g.todo) \cup Now(g)'
  PROVE  Len(stack) > 1 => \E f \in FrameType : f = stack[Len(stack) - 1] /\ Serves(f, g)'
<1>1. SUFFICES ASSUME Len(stack) > 1
               PROVE  \E f \in FrameType : f = stack[Len(stack) - 1] /\ Serves(f, g)'
  OBVIOUS
<1>2. /\ Top \in FrameType /\ Len(stack) \in DOMAIN stack
      /\ Top = stack[Len(stack)] /\ Len(stack) \in Nat \ {0} /\ DOMAIN stack = 1..Len(stack)
      /\ \A c \in DOMAIN stack : stack[c] \in FrameType
      /\ \A c \in DOMAIN stack : stack[c].pc \in ObjPcs => stack[c].obj \in DOMAIN pkgs
  BY TopType DEF Sound, Types, StackType
<1>3. PICK t \in FrameType : t = Top
  BY <1>2
<1>4. PICK L \in Nat \ {0} : L = Len(stack)
  BY <1>2
<1>5. L - 1 \in 1..L /\ (L - 1) + 1 = L /\ L \in 1..L
  BY <1>1, <1>4
<1>6. PICK f \in FrameType : f = stack[L - 1]
  BY <1>2, <1>4, <1>5
<1>7. /\ Serves(f, t) /\ (f.pc \in ObjPcs => f.obj \in DOMAIN pkgs)
      /\ (t.pc \in ObjPcs => t.obj \in DOMAIN pkgs)
  BY <1>2, <1>3, <1>4, <1>5, <1>6 DEF Calls
<1>8. Wanted(f)' = Wanted(f) /\ visited \subseteq visited' /\ cmd' = cmd
  BY <1>7, WantedStays DEF Grows
<1>9. Serves(f, g)'
  <2> HIDE DEF Wanted, Now
  <2>1. g.kind = "list" /\ g.pc # "end" => Wanted(f) \subseteq visited' \cup ListOf(g.todo) \cup Now(g)'
    <3>1. SUFFICES ASSUME g.kind = "list", g.pc # "end"
                   PROVE  Wanted(f) \subseteq visited' \cup ListOf(g.todo) \cup Now(g)'
      OBVIOUS
    <3>2. Wanted(f) \subseteq visited \cup ListOf(t.todo) \cup Now(t)
      BY <1>3, <1>7, <3>1 DEF Serves
    <3>3. ListOf(t.todo) \cup Now(t) \subseteq visited' \cup ListOf(g.todo) \cup Now(g)'
      BY <1>3, <3>1
    <3> QED
      BY <1>8, <3>2, <3>3
  <2>2. f.kind = "command" /\ g.kind = "local" => ~(ListOf(cmd.args) \subseteq Pkgs)
    BY <1>3, <1>7 DEF Serves
  <2> QED
    BY <1>8, <2>1, <2>2 DEF Serves
<1> QED
  BY <1>4, <1>6, <1>9

\* What is left to show of a step that only moves the innermost call.
LEMMA TurnedClaims ==
  ASSUME Sound, Grows, Touches, Claims, Running, UNCHANGED <<code, visited>>, failed \subseteq failed',
         UNCHANGED root \/ (Len(stack) = 1 /\ SavedInstalled'),
         Turned(Top'), Top' \in FrameType, stack' \in Seq(FrameType), stack' # <<>>,
         Going(Top)', Back(Top)', Lost', Supplied', Faultless',
         Len(stack) > 1 => \E f \in FrameType : f = stack[Len(stack) - 1] /\ Serves(f, Top)',
         Len(stack) = 1 => Asked(Top)',
         Top'.pc \in ObjPcs => (Top.pc \in ObjPcs /\ Top'.obj = Top.obj) \/ Top'.obj \notin DOMAIN pkgs,
         \A o \in DOMAIN pkgs' \ DOMAIN pkgs : pkgs'[o].rc # 0,
         Top.pc \in ObjPcs =>
             \/ Top'.pc \in ObjPcs /\ Top'.obj = Top.obj
             \/ pkgs'[Top.obj].rc = 0
             \/ \E f \in failed' : f[1] = pkgs[Top.obj].pkg,
         Top.pc \in ObjPcs /\ pkgs'[Top.obj].rc = 0 /\ pkgs'[Top.obj].name # "none"
             => DepsOf(Top.obj) \subseteq visited'
  PROVE  Claims'
<1>1. Calls /\ Seen /\ Closed /\ SavedInstalled /\ Chosen
  BY DEF Claims, Underway
<1>2. /\ Top \in FrameType /\ Len(stack) \in DOMAIN stack
      /\ Top = stack[Len(stack)] /\ Len(stack) \in Nat \ {0} /\ DOMAIN stack = 1..Len(stack)
  BY <1>1, TopType DEF Sound, Types, StackType
<1>3. Running' /\ UNCHANGED <<cmd, cat, code>>
  BY DEF Running, Grows
<1>4. Calls'
  BY <1>1, <1>3, TurnedCalls
<1>5. Top.pc \in ObjPcs => pkgs[Top.obj].rc = -1
  BY <1>1, <1>2 DEF Calls, Going
<1>6. Closed' /\ SavedInstalled'
  BY <1>1, <1>3, <1>5, ClosedStays, SavedStill
<1>7. Ended' /\ Chosen'
  BY <1>1, <1>3 DEF Ended, Chosen, Running
<1>8. DOMAIN stack' = DOMAIN stack /\ \A d \in DOMAIN stack : d # Len(stack) => stack'[d] = stack[d]
  <2>1. PICK L \in Nat \ {0} : L = Len(stack)
    BY <1>2
  <2>2. \A d \in 1..L : d # L => d \in 1..(L - 1)
    BY <2>1
  <2>3. DOMAIN stack' = 1..L
    BY <2>1, LenProperties DEF Turned
  <2> QED
    BY <1>2, <2>1, <2>2, <2>3 DEF Turned
<1>9. stack'[Len(stack)] = Top'
  BY DEF Turned, Top
<1>10. Seen'
  <2>1. ASSUME NEW d \in DOMAIN stack, stack[d].pc \in ObjPcs
        PROVE  \/ \E e \in DOMAIN stack' : stack'[e].pc \in ObjPcs /\ stack'[e].obj = stack[d].obj
               \/ pkgs'[stack[d].obj].rc = 0
               \/ \E f \in failed' : f[1] = pkgs[stack[d].obj].pkg
    <3>1. CASE d = Len(stack)
      BY <1>2, <1>8, <1>9, <2>1, <3>1
    <3>2. CASE d # Len(stack)
      BY <1>8, <2>1, <3>2
    <3> QED
      BY <3>1, <3>2
  <2> QED
    BY <1>1, <2>1, SeenStays DEF Seen
<1> QED
  BY <1>3, <1>4, <1>6, <1>7, <1>10 DEF Claims, Underway

\* Between packages there is nothing to say of a call.
LEMMA Quiet ==
  ASSUME NEW f \in FrameType, f.pc \in {"next", "slug"}
  PROVE  Going(f)' /\ Back(f)' /\ (f.kind \in {"list", "command"} => ~Failing(f))
<1>1. f.pc \notin ObjPcs /\ ~Marks(f)'
  BY PassPoints, WithinPoints DEF Marks
<1> QED
  BY <1>1, PassPoints DEF Going, Back, Failing

\* The next package of a list or of the arguments.
LEMMA NextPackageClaims ==
  ASSUME Sound, Grows, Claims, Running, NextPackage
  PROVE  Claims'
<1>1. /\ Top.pc = "next" /\ Top.kind \in {"list", "command"} /\ Advanced /\ Top'.pc = "slug"
      /\ get'[Main].pc = "ask" /\ get[Main].pc = "idle"
      /\ UNCHANGED <<cat, cmd, root, code, failed, pkgs, visited, json, faults>>
  BY NextPackageIs
<1>2. Calls /\ Lost /\ Supplied /\ faults \in Nat
  BY DEF Claims, Underway, Sound, Types, CallType
<1>3. Top \in FrameType /\ Top = stack[Len(stack)]
  BY TopType DEF Sound, Types
<1>4. PICK f \in FrameType : f = Top
  BY <1>3
<1>5. PICK g \in FrameType : g = Top'
  BY <1>1 DEF Advanced
<1>6. g.kind = f.kind /\ g.todo = f.todo /\ f.pc = "next" /\ g.pc = "slug" /\ f.kind \in {"list", "command"}
  BY <1>1, <1>4, <1>5 DEF Advanced, Kept
<1>7. Now(f) = {} /\ Now(g)' = {} /\ Now(f)' = {}
  BY <1>6, PassPoints DEF Now
<1>8. Going(Top)' /\ Back(Top)'
  BY <1>5, <1>6, Quiet
<1>9. ~Failing(Top)
  BY <1>4, <1>6, Quiet
<1>10. Len(stack) > 1 => \E e \in FrameType : e = stack[Len(stack) - 1] /\ Serves(e, g)'
  BY <1>1, <1>2, <1>4, <1>6, <1>7, TurnedServes
<1>11. Len(stack) = 1 => Asked(g)'
  <2>1. SUFFICES ASSUME Len(stack) = 1 PROVE Asked(g)'
    OBVIOUS
  <2>2. Asked(f)'
    BY <1>2, <1>3, <1>4, <1>6, <2>1, AskedStays, PassPoints DEF Calls
  <2> HIDE DEF Now
  <2> QED
    BY <1>6, <1>7, <2>2, PassPoints DEF Asked
<1>12. Lost'
  BY <1>1, <1>2, <1>9 DEF Lost
<1>13. Supplied'
  BY <1>1, <1>2, SuppliedStays
<1>14. Touches
  BY <1>1 DEF Touches
<1>15. Top.pc \notin ObjPcs /\ Top'.pc \notin ObjPcs
  BY <1>1, PassPoints
<1>16. Faultless' /\ failed \subseteq failed'
  BY <1>1, FaultlessStays
<1> QED
  BY <1>1, <1>16, <1>2, <1>5, <1>8, <1>10, <1>11, <1>12, <1>13, <1>14, <1>15, TurnedClaims DEF Advanced

\* The package is made, and its installation begins.
LEMMA GotPackageClaims ==
  ASSUME Sound, Grows, Claims, Running, GotPackage
  PROVE  Claims'
<1>1. /\ Top.pc = "slug" /\ Top.kind \in {"list", "command"} /\ Top.todo # <<>>
      /\ stack' \in Seq(FrameType) /\ stack' # <<>> /\ Turned(Top') /\ Top' \in FrameType
      /\ Top'.pc \in {"prepare", "test"} /\ Top'.kind = Top.kind /\ Top'.todo = Tail(Top.todo)
      /\ Top'.obj = Len(pkgs) + 1 /\ Top'.rc = 0 /\ Len(pkgs) \in Nat
      /\ DOMAIN pkgs = 1..Len(pkgs) /\ DOMAIN pkgs' = 1..(Len(pkgs) + 1)
      /\ \A o \in DOMAIN pkgs : pkgs'[o] = pkgs[o]
      /\ pkgs'[Len(pkgs) + 1] = NewObject(Head(Top.todo), Top.dir)
      /\ UNCHANGED <<root, code, failed, visited>> /\ Return(Main)
  BY GotPackageIs
<1>2. Calls /\ Lost /\ Supplied /\ faults \in Nat
  BY DEF Claims, Underway, Sound, Types, CallType
<1>3. Top \in FrameType /\ Top = stack[Len(stack)]
  BY TopType DEF Sound, Types
<1>4. PICK f \in FrameType : f = Top
  BY <1>3
<1>5. PICK g \in FrameType : g = Top'
  BY <1>1
<1>6. /\ g.kind = f.kind /\ g.todo = Tail(f.todo) /\ f.pc = "slug" /\ g.pc \in {"prepare", "test"}
      /\ f.kind \in {"list", "command"} /\ f.todo # <<>> /\ g.rc = 0
      /\ pkgs'[g.obj].pkg = Head(f.todo) /\ pkgs'[g.obj].rc = -1
  BY <1>1, <1>4, <1>5 DEF NewObject
<1>7. g.pc \in ObjPcs /\ f.pc \notin ObjPcs /\ g.pc \in Unmarked
  BY <1>6, PassPoints
<1>8. Now(f) = {} /\ Now(f)' = {} /\ Now(g)' = {Head(f.todo)}
  BY <1>6, <1>7 DEF Now
<1>9. ListOf(f.todo) = {Head(f.todo)} \cup ListOf(g.todo) /\ (Len(f.todo) <= 1 => g.todo = <<>>)
  <2>1. f.todo \in Seq(Pkgs \cup {"here", "file"})
    BY Fields
  <2> QED
    BY <1>6, <2>1, ListIn
<1>10. Going(g)'
  <2>1. ~Marks(g)'
    BY <1>6, <1>7, PassPoints DEF Marks
  <2> QED
    BY <1>6, <2>1 DEF Going
<1>11. Back(g)'
  BY <1>6 DEF Back
<1>12. ~Failing(Top)
  BY <1>4, <1>6, Quiet
<1>13. Len(stack) > 1 => \E e \in FrameType : e = stack[Len(stack) - 1] /\ Serves(e, g)'
  <2> HIDE DEF Now
  <2>1. f.pc # "end" /\ ListOf(f.todo) \cup Now(f) \subseteq visited' \cup ListOf(g.todo) \cup Now(g)'
    BY <1>6, <1>8, <1>9
  <2> QED
    BY <1>1, <1>2, <1>4, <1>6, <2>1, TurnedServes
<1>14. Len(stack) = 1 => Asked(g)'
  <2>1. SUFFICES ASSUME Len(stack) = 1 PROVE Asked(g)'
    OBVIOUS
  <2>2. Asked(f)'
    BY <1>2, <1>3, <1>4, <1>7, <2>1, AskedStays DEF Calls
  <2>3. Len(<<>>) = 0
    OBVIOUS
  <2> HIDE DEF Now, ListOf
  <2> QED
    BY <1>6, <1>8, <1>9, <2>2, <2>3 DEF Asked
<1>15. Lost'
  BY <1>1, <1>2, <1>12 DEF Lost, Grows
<1>16. Supplied' /\ faults' \in Nat
  <2>1. get'[Main].pc = "idle" /\ get[Main].pc \in {"ok", "null"} /\ UNCHANGED <<json, faults>>
    BY <1>1, ReturnCall
  <2> QED
    BY <1>2, <2>1, SuppliedStays
<1>17. Touches
  <2>1. DOMAIN pkgs \subseteq DOMAIN pkgs'
    BY <1>1
  <2> QED
    BY <1>1, <2>1 DEF Touches
<1>18. g.obj \notin DOMAIN pkgs /\ \A o \in DOMAIN pkgs' \ DOMAIN pkgs : o = g.obj
  BY <1>1, <1>5
<1>19. Faultless' /\ failed \subseteq failed'
  BY <1>1, FaultlessStays
<1> QED
  BY <1>1, <1>19, <1>2, <1>4, <1>5, <1>6, <1>7, <1>10, <1>11, <1>13, <1>14, <1>15, <1>16, <1>17, <1>18, TurnedClaims

\* A command that ends.
LEMMA StoppedClaims ==
  ASSUME Grows, Claims, code' # <<>>, Closed', SavedInstalled', Ended', Faultless'
  PROVE  Claims'
<1>1. Chosen'
  BY DEF Claims, Chosen, Grows
<1> QED
  BY <1>1 DEF Claims, Underway, Running

\* No package: the list fails, or the command ends.
LEMMA NoPackageClaims ==
  ASSUME Sound, Grows, Claims, Running, NoPackage
  PROVE  Claims'
<1>1. /\ Top.pc = "slug" /\ Top.kind \in {"list", "command"} /\ get[Main].pc = "null"
      /\ UNCHANGED <<root, pkgs, visited, json, faults>> /\ get'[Main].pc = "idle"
      /\ Result(Head(Top.todo), -1)
  BY NoPackageIs
<1>2. Calls /\ Supplied /\ Closed /\ SavedInstalled /\ faults \in Nat
  BY DEF Claims, Underway, Sound, Types, CallType
<1>3. faults # 0 /\ Supplied'
  BY <1>1, <1>2, SuppliedStays DEF Supplied
<1>4. Touches /\ Top.pc \notin ObjPcs
  BY <1>1, PassPoints DEF Touches
<1>7. Faultless' /\ failed \subseteq failed'
  BY <1>1, <1>3, Resulted DEF Faultless
<1>5. CASE Top.kind = "command"
  <2>1. code' \in {<<1>>, <<255>>}
    BY <1>5, NoPackageIs
  <2>2. code' # <<>> /\ Ended'
    BY <2>1 DEF Ended
  <2>3. Closed' /\ SavedInstalled'
    BY <1>1, <1>2, <1>4, <1>7, ClosedStays, SavedStill
  <2> QED
    BY <1>7, <2>2, <2>3, StoppedClaims
<1>6. CASE Top.kind = "list"
  <2>1. Advanced /\ Top'.pc = "end" /\ Top'.rc = -1 /\ UNCHANGED code /\ Len(stack) > 1
    BY <1>6, NoPackageIs, Bottom
  <2>2. PICK g \in FrameType : g = Top'
    BY <2>1 DEF Advanced
  <2>3. g.pc = "end" /\ g.kind = Top.kind
    BY <2>1, <2>2 DEF Advanced, Kept
  <2>4. Going(g)'
    <3>1. ~Marks(g)' /\ g.pc \notin ObjPcs
      BY <2>3, PassPoints, WithinPoints DEF Marks
    <3> QED
      BY <1>1, <1>3, <2>3, <3>1 DEF Going
  <2>5. Back(g)' /\ Failing(g)'
    BY <2>3 DEF Back, Failing
  <2>6. Lost'
    BY <2>2, <2>5 DEF Lost
  <2>7. Len(stack) > 1 => \E e \in FrameType : e = stack[Len(stack) - 1] /\ Serves(e, g)'
    BY <1>1, <1>2, <2>3, TurnedServes
  <2>8. Len(stack) # 1 /\ g.pc \notin ObjPcs
    <3>1. Len(stack) \in Nat
      BY TopType DEF Sound, Types
    <3> QED
      BY <2>1, <2>3, <3>1, PassPoints
  <2> QED
    BY <1>1, <1>2, <1>3, <1>4, <1>7, <2>1, <2>2, <2>4, <2>5, <2>6, <2>7, <2>8, TurnedClaims DEF Advanced
<1> QED
  BY <1>1, <1>5, <1>6

\* A list goes on behind a package, or fails with it.
LEMMA ListReturnedClaims ==
  ASSUME Sound, Grows, Claims, Running, ListReturned
  PROVE  Claims'
<1>1. /\ Top.pc = "returned" /\ Top.kind = "list" /\ Top.obj \in DOMAIN pkgs /\ Settled(Top.obj, Top.rc)
      /\ stack' \in Seq(FrameType) /\ stack' # <<>> /\ Turned(Top') /\ Top' \in FrameType
      /\ Top'.kind = Top.kind /\ Top'.todo = Top.todo
      /\ Top'.pc = (IF Top.rc = -1 THEN "end" ELSE "next")
      /\ UNCHANGED <<root, code, visited, get, json, faults>> /\ Result(Pkg, Top.rc)
  BY ListReturnedIs DEF pkgVars
<1>2. Calls /\ Back(Top) /\ Lost /\ Supplied /\ faults \in Nat
  BY DEF Claims, Underway, Sound, Types, CallType
<1>3. Top \in FrameType /\ Top = stack[Len(stack)] /\ Len(stack) \in DOMAIN stack
  BY TopType DEF Sound, Types
<1>4. PICK f \in FrameType : f = Top
  BY <1>3
<1>5. PICK g \in FrameType : g = Top'
  BY <1>1
<1>6. /\ f.pc = "returned" /\ g.kind = f.kind /\ g.todo = f.todo /\ f.kind = "list"
      /\ (f.rc = -1 /\ g.pc = "end") \/ (f.rc # -1 /\ g.pc = "next")
  BY <1>1, <1>4, <1>5
<1>7. f.pc \in ObjPcs /\ g.pc \notin ObjPcs
  BY <1>6, PassPoints
<1>8. Going(f) /\ Back(f)
  BY <1>2, <1>3, <1>4 DEF Calls
<1>9. faults = 0 => f.rc = 0
  BY <1>7, <1>8 DEF Going
<1>10. Now(f) = {pkgs[f.obj].pkg} /\ (f.rc # -1 => Now(f) \subseteq visited)
  <2>1. f.rc # -1 => Marks(f)
    BY <1>6 DEF Marks
  <2> QED
    BY <1>7, <1>8, <2>1 DEF Now, Going
<1>11. Going(g)' /\ Back(g)'
  <2>1. CASE g.pc = "next"
    BY <2>1, Quiet
  <2>2. CASE g.pc = "end"
    <3>1. ~Marks(g)'
      BY <1>7, <2>2, PassPoints, WithinPoints DEF Marks
    <3>2. faults' # 0
      BY <1>1, <1>6, <1>9, <2>2
    <3> QED
      BY <1>7, <2>2, <3>1, <3>2, PassPoints DEF Going, Back
  <2> QED
    BY <1>6, <2>1, <2>2
<1>12. Lost'
  <2>1. Failing(f) => g.pc = "end"
    BY <1>6 DEF Failing
  <2>2. Failing(f) => Failing(g)'
    BY <2>1 DEF Failing
  <2> QED
    <3>1. CASE f.rc = -1
      BY <1>5, <1>6, <3>1 DEF Lost, Failing
    <3>2. CASE f.rc # -1
      <4>1. (\E e \in failed' : e[2] = -1) => \E e \in failed : e[2] = -1
        BY <1>1, <1>4, <3>2, Resulted
      <4> QED
        BY <1>1, <1>2, <1>4, <1>5, <2>2, <4>1 DEF Lost, Grows
    <3> QED
      BY <3>1, <3>2
<1>13. Len(stack) > 1 => \E e \in FrameType : e = stack[Len(stack) - 1] /\ Serves(e, g)'
  <2> HIDE DEF Now
  <2>1. g.pc # "end" => f.pc # "end" /\ ListOf(f.todo) \cup Now(f) \subseteq visited' \cup ListOf(g.todo) \cup Now(g)'
    BY <1>1, <1>6, <1>10
  <2> QED
    BY <1>1, <1>2, <1>4, <1>6, <2>1, TurnedServes
<1>14. Len(stack) # 1
  <2>1. PICK L \in Nat : L = Len(stack)
    BY TopType DEF Sound, Types
  <2>2. L > 1
    BY <1>1, <2>1, Bottom
  <2>3. L # 1
    BY <2>2
  <2> QED
    BY <2>1, <2>3
<1>15. Supplied'
  BY <1>1, <1>2, SuppliedStays
<1>16. Touches
  BY <1>1, <1>4, <1>7 DEF Touches, Settled
<1>17. /\ DOMAIN pkgs' = DOMAIN pkgs /\ pkgs'[f.obj].rc = f.rc /\ pkgs'[f.obj].name = pkgs[f.obj].name
  BY <1>1, <1>4 DEF Settled
<1>18. pkgs'[f.obj].rc = 0 /\ pkgs'[f.obj].name # "none" => DepsOf(f.obj) \subseteq visited'
  BY <1>1, <1>6, <1>8, <1>17 DEF Back
<1>19. pkgs'[f.obj].rc = 0 \/ \E e \in failed' : e[1] = pkgs[f.obj].pkg
  BY <1>1, <1>4, <1>17, Resulted DEF Pkg
<1>20. Faultless' /\ failed \subseteq failed'
  BY <1>1, <1>4, <1>9, Resulted DEF Claims, Faultless
<1> QED
  BY <1>1, <1>2, <1>4, <1>5, <1>7, <1>11, <1>12, <1>13, <1>14, <1>15, <1>16, <1>17, <1>18, <1>19, <1>20, TurnedClaims

-----------------------------------------------------------------------------
(* Main calls and returns.                                                 *)

\* What is left to show when the innermost call returns.
LEMMA PoppedClaims ==
  ASSUME Sound, Grows, Touches, Claims, Running, UNCHANGED <<root, code, visited, get, json, failed>>,
         faults' \in Nat, NEW rc \in RCs, Popped(rc), stack' \in Seq(FrameType),
         Top.pc \notin ObjPcs, DOMAIN pkgs' = DOMAIN pkgs,
         faults' = 0 /\ Top'.pc \in ObjPcs \cup {"devs", "last"} => rc = 0,
         Back(Top)', Lost'
  PROVE  Claims'
<1>1. Calls /\ Seen /\ Supplied /\ Closed /\ SavedInstalled /\ Chosen
  BY DEF Claims, Underway
<1>2. Running' /\ UNCHANGED <<cmd, cat>>
  BY DEF Running, Grows
<1>3. Calls'
  BY <1>1, PoppedCalls
<1>4. Closed' /\ SavedInstalled'
  BY <1>1, ClosedStays, SavedStill
<1>5. Supplied'
  BY <1>1, SuppliedStays
<1>6. Ended' /\ Chosen'
  BY <1>1, <1>2 DEF Ended, Chosen, Running
<1>7. /\ Len(stack) \in Nat \ {0} /\ DOMAIN stack = 1..Len(stack) /\ Top = stack[Len(stack)]
      /\ \A c \in DOMAIN stack : stack[c] \in FrameType
  BY TopType DEF Sound, Types, StackType
<1>8. PICK L \in Nat \ {0} : L = Len(stack)
  BY <1>7
<1>9. L > 1 /\ L - 1 \in 1..L /\ \A d \in 1..L : d = L \/ d = L - 1 \/ d \in 1..(L - 2)
  BY <1>8 DEF Popped
<1>10. DOMAIN stack' = 1..(L - 1) /\ stack'[L - 1] = Top' /\ \A d \in 1..(L - 2) : stack'[d] = stack[d]
  <2>1. Len(stack') = L - 1 /\ DOMAIN stack' = 1..Len(stack')
    BY <1>8, LenProperties DEF Popped
  <2> QED
    BY <1>8, <2>1 DEF Popped, Top
<1>11. Top'.pc = stack[L - 1].pc /\ Top'.obj = stack[L - 1].obj
  BY <1>8, PoppedOuter DEF Kept
<1>12. Seen'
  <2>1. ASSUME NEW d \in DOMAIN stack, stack[d].pc \in ObjPcs
        PROVE  \E e \in DOMAIN stack' : stack'[e].pc \in ObjPcs /\ stack'[e].obj = stack[d].obj
    <3>1. d # L
      BY <1>7, <1>8, <2>1
    <3>2. d \in 1..(L - 1)
      BY <1>7, <1>8, <2>1, <3>1
    <3>3. stack'[d].pc = stack[d].pc /\ stack'[d].obj = stack[d].obj
      BY <1>7, <1>8, <1>9, <1>10, <1>11, <3>1
    <3> QED
      BY <1>10, <2>1, <3>2, <3>3
  <2> QED
    BY <1>1, <2>1, SeenStays DEF Seen
<1>13. Faultless'
  BY FaultlessStays
<1> QED
  BY <1>2, <1>3, <1>4, <1>5, <1>6, <1>12, <1>13 DEF Claims, Underway

\* What is left to show when it calls another.
LEMMA CalledClaims ==
  ASSUME Sound, Grows, Claims, Running, UNCHANGED <<root, code, visited, get, json, pkgs, failed>>,
         faults' \in Nat,
         NEW pc \in Pcs, NEW f \in FrameType, f = [Top EXCEPT !.pc = pc], NEW g \in FrameType,
         Called(pc, g), stack' \in Seq(FrameType),
         pc \in ObjPcs <=> Top.pc \in ObjPcs, g.pc = "next",
         Going(f)', Len(stack) > 1 => \E e \in FrameType : e = stack[Len(stack) - 1] /\ Serves(e, f)',
         Len(stack) = 1 => Asked(f)', Serves(f, g)', Lost'
  PROVE  Claims'
<1>1. Calls /\ Seen /\ Supplied /\ Closed /\ SavedInstalled /\ Chosen
  BY DEF Claims, Underway
<1>2. Running' /\ UNCHANGED <<cmd, cat>> /\ Touches
  BY DEF Running, Grows, Touches
<1>3. Calls'
  <2>1. g.pc \notin ObjPcs \cup {"devs", "last", "end"}
    BY PassPoints
  <2> QED
    BY <1>1, <1>2, <2>1, CalledCalls
<1>4. /\ Len(stack) \in Nat \ {0} /\ DOMAIN stack = 1..Len(stack) /\ Top = stack[Len(stack)]
      /\ \A c \in DOMAIN stack : stack[c] \in FrameType
      /\ Len(stack) \in DOMAIN stack /\ Top.pc \in ObjPcs => Top.obj \in DOMAIN pkgs
  BY TopType DEF Sound, Types, StackType
<1>5. Top.pc \in ObjPcs => pkgs[Top.obj].rc = -1
  BY <1>1, <1>4, TopType DEF Calls, Going, Sound, Types
<1>6. Closed' /\ SavedInstalled'
  BY <1>1, <1>2, <1>5, ClosedStays, SavedStill
<1>7. Supplied'
  BY <1>1, SuppliedStays
<1>8. Ended' /\ Chosen'
  BY <1>1, <1>2 DEF Ended, Chosen, Running
<1>9. PICK L \in Nat \ {0} : L = Len(stack)
  BY <1>4
<1>10. /\ DOMAIN stack' = 1..(L + 1) /\ stack'[L] = f /\ f.pc = pc /\ f.obj = Top.obj
       /\ \A d \in 1..(L - 1) : stack'[d] = stack[d]
  <2>1. Len(stack') = L + 1 /\ DOMAIN stack' = 1..Len(stack')
    BY <1>9, LenProperties DEF Called
  <2>2. f.pc = pc /\ f.obj = Top.obj
    BY PcType, TopType DEF Kept, Sound, Types
  <2> QED
    BY <1>9, <2>1, <2>2 DEF Called
<1>11. Seen'
  <2>1. ASSUME NEW d \in DOMAIN stack, stack[d].pc \in ObjPcs
        PROVE  \E e \in DOMAIN stack' : stack'[e].pc \in ObjPcs /\ stack'[e].obj = stack[d].obj
    <3>1. d \in 1..L /\ d \in 1..(L + 1) /\ (d = L \/ d \in 1..(L - 1))
      BY <1>4, <1>9
    <3>2. stack'[d].pc \in ObjPcs /\ stack'[d].obj = stack[d].obj
      BY <1>4, <1>9, <1>10, <2>1, <3>1
    <3> QED
      BY <1>10, <3>1, <3>2
  <2> QED
    BY <1>1, <1>2, <2>1, SeenStays DEF Seen
<1>12. Back(Top)'
  <2>1. Top' = g
    BY DEF Called
  <2> QED
    BY <2>1, Quiet
<1>13. Faultless'
  BY FaultlessStays
<1> QED
  BY <1>2, <1>3, <1>6, <1>7, <1>8, <1>11, <1>12, <1>13 DEF Claims, Underway

\* The call that waits for the innermost one.
LEMMA Waiting ==
  ASSUME Sound, Calls, Len(stack) > 1
  PROVE  \E e \in FrameType :
            /\ e = stack[Len(stack) - 1] /\ Serves(e, Top) /\ Link(e, Top) /\ Going(e)
            /\ e.pc \in ObjPcs => e.obj \in DOMAIN pkgs
<1>1. /\ Len(stack) \in Nat \ {0} /\ DOMAIN stack = 1..Len(stack) /\ Top = stack[Len(stack)]
      /\ \A c \in DOMAIN stack : stack[c] \in FrameType
      /\ \A c \in DOMAIN stack : stack[c].pc \in ObjPcs => stack[c].obj \in DOMAIN pkgs
  BY TopType DEF Sound, Types, StackType
<1>2. PICK L \in Nat \ {0} : L = Len(stack)
  BY <1>1
<1>3. L - 1 \in 1..L /\ (L - 1) + 1 = L /\ L \in 1..L
  BY <1>2
<1>4. PICK e \in FrameType : e = stack[L - 1]
  BY <1>1, <1>2, <1>3
<1>5. Serves(e, Top) /\ Going(e) /\ (e.pc \in ObjPcs => e.obj \in DOMAIN pkgs)
  BY <1>1, <1>2, <1>3, <1>4 DEF Calls
<1>6. Link(e, Top)
  BY <1>2, <1>4, Caller
<1> QED
  BY <1>2, <1>4, <1>5, <1>6

\* A list returns: its caller has what it wanted, or the failure.
LEMMA EndOfListClaims ==
  ASSUME Sound, Grows, Claims, Running, EndOfList
  PROVE  Claims'
<1>1. /\ Top.kind = "list" /\ (Top.pc = "end" \/ (Top.pc = "next" /\ Top.todo = <<>>))
      /\ Len(stack) > 1 /\ Popped(IF Top.pc = "end" THEN -1 ELSE 0)
      /\ stack' \in Seq(FrameType) /\ stack' # <<>> /\ Settled(0, 0)
      /\ UNCHANGED <<cat, cmd, root, code, failed, visited, get, json, faults>>
  BY EndOfListIs DEF pkgVars
<1>2. Calls /\ Lost /\ faults \in Nat
  BY DEF Claims, Underway, Sound, Types, CallType
<1>3. Top \in FrameType /\ Top = stack[Len(stack)] /\ Len(stack) \in DOMAIN stack
  BY TopType DEF Sound, Types
<1>4. PICK f \in FrameType : f = Top
  BY <1>3
<1>5. PICK rc \in RCs : rc = (IF Top.pc = "end" THEN -1 ELSE 0)
  BY DEF RCs
<1>6. PICK e \in FrameType :
        /\ e = stack[Len(stack) - 1] /\ Serves(e, Top) /\ Link(e, Top) /\ Going(e)
        /\ e.pc \in ObjPcs => e.obj \in DOMAIN pkgs
  BY <1>1, <1>2, Waiting
<1>7. Top'.pc = e.pc /\ Top'.rc = rc /\ Kept(Top', e) /\ Popped(rc)
  BY <1>1, <1>5, <1>6, PoppedOuter
<1>8. e.pc \in {"unpacked", "depsdone", "developed", "devs", "last"}
  BY <1>1, <1>6 DEF Link
<1>9. rc = 0 => Wanted(e) \subseteq visited
  <2>1. SUFFICES ASSUME rc = 0 PROVE Wanted(e) \subseteq visited
    OBVIOUS
  <2>2. f.pc = "next" /\ f.todo = <<>> /\ f.kind = "list"
    BY <1>1, <1>4, <1>5, <2>1
  <2>3. Now(f) = {}
    BY <2>2, PassPoints DEF Now
  <2>4. ListOf(f.todo) = {}
    BY <2>2, Fields, ListIn
  <2>5. Serves(e, f)
    BY <1>4, <1>6
  <2> HIDE DEF Wanted, Now, ListOf
  <2> QED
    BY <2>2, <2>3, <2>4, <2>5 DEF Serves
<1>10. DOMAIN pkgs' = DOMAIN pkgs /\ \A q \in DOMAIN pkgs :
           pkgs'[q].pkg = pkgs[q].pkg /\ pkgs'[q].name = pkgs[q].name /\ pkgs'[q].rc = pkgs[q].rc
  <2>1. 0 \notin DOMAIN pkgs
    BY DEF Sound, Types
  <2> QED
    BY <1>1, <2>1 DEF Settled
<1>11. Touches
  BY <1>10 DEF Touches
<1>12. faults = 0 => rc = 0
  <2>1. faults = 0 => f.pc # "end"
    BY <1>2, <1>3, <1>4 DEF Calls, Going
  <2> QED
    BY <1>4, <1>5, <2>1
<1>13. PICK h : h = Top'
  OBVIOUS
<1>14. h.pc = e.pc /\ h.rc = rc /\ h.obj = e.obj
  BY <1>7, <1>13 DEF Kept
<1>15. Back(h)'
  <2>1. e.pc = "depsdone" => DepsOf(h.obj)' = DepsOf(e.obj) /\ Wanted(e) = DepsOf(e.obj)
    <3>1. "depsdone" \in ObjPcs
      BY PassPoints
    <3> QED
      BY <1>1, <1>6, <1>10, <1>14, <3>1 DEF DepsOf, Wanted
  <2>2. e.pc = "devs" => Wanted(e) = ListOf(root.deps)
    BY DEF Wanted
  <2>3. rc = 0 \/ rc = -1
    BY <1>5
  <2> QED
    BY <1>1, <1>8, <1>9, <1>14, <2>1, <2>2, <2>3 DEF Back
<1>16. Lost'
  <2>1. Failing(f) => rc = -1
    BY <1>1, <1>4, <1>5 DEF Failing
  <2>2. rc = -1 => Failing(h)'
    BY <1>8, <1>14 DEF Failing
  <2> QED
    BY <1>1, <1>2, <1>4, <1>13, <2>1, <2>2 DEF Lost
<1>17. Top.pc \notin ObjPcs
  BY <1>1, PassPoints
<1> QED
  BY <1>1, <1>2, <1>7, <1>10, <1>11, <1>12, <1>13, <1>15, <1>16, <1>17, PoppedClaims

\* A call inside clib_package_install, for the dependencies or the development.
LEMMA ListClaims ==
  ASSUME Sound, Grows, Claims, Running,
         UNCHANGED <<root, code, visited, get, json, pkgs, failed>>, faults' \in Nat,
         NEW pc, NEW dir \in Dirs, NEW list \in Seq(Pkgs), InstallList(pc, dir, list),
         \/ Top.pc \in {"exec", "deps"} /\ pc \in {"unpacked", "depsdone"} /\ list = cat[Pkg].deps
         \/ Top.pc = "returned" /\ Top.rc = 0 /\ pc = "developed"
  PROVE  Claims'
<1>1. /\ Top \in FrameType /\ Top.pc \in ObjPcs /\ Top.obj \in DOMAIN pkgs /\ Len(stack) \in DOMAIN stack
      /\ Top = stack[Len(stack)] /\ pc \in Pcs /\ pc \in ObjPcs
  <2>1. Top.pc \in ObjPcs /\ pc \in ObjPcs /\ ObjPcs \subseteq Pcs
    BY PassPoints, WithinPoints DEF Pcs
  <2> QED
    BY <2>1, TopType DEF Sound, Types
<1>2. Calls /\ Back(Top) /\ Lost
  BY DEF Claims, Underway
<1>3. PICK t \in FrameType : t = Top
  BY <1>1
<1>4. PICK f \in FrameType : f = [Top EXCEPT !.pc = pc]
  BY <1>1, PcType
<1>5. f.pc = pc /\ f.rc = t.rc /\ f.kind = t.kind /\ f.todo = t.todo /\ f.obj = t.obj
  BY <1>1, <1>3, <1>4, PcType DEF Kept
<1>6. PICK g \in FrameType : g = Frame("list", dir, list) /\ Called(pc, g)
  BY <1>1, ListIs
<1>7. g.kind = "list" /\ g.pc = "next" /\ g.todo = list /\ stack' \in Seq(FrameType) /\ stack' # <<>>
  BY <1>1, <1>6, ListIs
<1>8. Going(t) /\ Back(t)
  BY <1>1, <1>2, <1>3 DEF Calls
<1>9. UNCHANGED <<cat, cmd>> /\ (faults' = 0 => faults = 0)
  BY DEF Grows
<1>10. \/ t.pc \in {"exec", "deps"} /\ pc \in {"unpacked", "depsdone"} /\ list = cat[pkgs[t.obj].pkg].deps
       \/ t.pc = "returned" /\ t.rc = 0 /\ pc = "developed"
  BY <1>3 DEF Pkg
<1>11. t.pc \in ObjPcs /\ t.obj \in DOMAIN pkgs
  BY <1>1, <1>3
<1>12. Going(f)'
  <2>1. Marks(t)
    BY <1>10, WithinPoints DEF Marks
  <2>2. pkgs[t.obj].pkg \in visited /\ pkgs[t.obj].rc = -1 /\ (faults = 0 => t.rc = 0)
    BY <1>8, <1>11, <2>1 DEF Going
  <2>3. pc = "developed" /\ pkgs[t.obj].name # "none" => DepsOf(t.obj) \subseteq visited
    BY <1>8, <1>10 DEF Back
  <2>4. DepsOf(f.obj)' = DepsOf(t.obj) /\ pkgs'[f.obj] = pkgs[t.obj]
    BY <1>5, <1>9 DEF DepsOf
  <2>5. pc \notin {"devs", "last", "end"}
    BY <1>10
  <2> QED
    BY <1>1, <1>5, <1>9, <2>2, <2>3, <2>4, <2>5 DEF Going
<1>13. Now(f)' = Now(t) /\ Now(f)' = Now(t)'
  BY <1>1, <1>5, <1>11 DEF Now
<1>14. Len(stack) > 1 => \E e \in FrameType : e = stack[Len(stack) - 1] /\ Serves(e, f)'
  <2> HIDE DEF Now
  <2>1. t.pc # "end" /\ ListOf(t.todo) \cup Now(t) \subseteq visited' \cup ListOf(f.todo) \cup Now(f)'
    BY <1>5, <1>10, <1>13
  <2> QED
    BY <1>2, <1>3, <1>5, <2>1, TurnedServes
<1>15. Len(stack) = 1 => Asked(f)'
  <2>1. SUFFICES ASSUME Len(stack) = 1 PROVE Asked(f)'
    OBVIOUS
  <2>2. Asked(t)'
    BY <1>1, <1>2, <1>3, <1>11, <2>1, AskedStays DEF Calls
  <2> HIDE DEF Now
  <2> QED
    BY <1>5, <1>11, <1>13, <2>2 DEF Asked
<1>16. Serves(f, g)'
  <2>1. Wanted(f)' \subseteq ListOf(list)
    <3>1. CASE pc \in {"unpacked", "depsdone"}
      <4>1. DepsOf(f.obj)' = ListOf(list)
        BY <1>5, <1>9, <1>10, <3>1 DEF DepsOf
      <4> QED
        BY <1>5, <3>1, <4>1 DEF Wanted
    <3>2. CASE pc = "developed"
      BY <1>5, <3>2 DEF Wanted
    <3> QED
      BY <1>10, <3>1, <3>2
  <2> HIDE DEF Wanted, Now
  <2> QED
    BY <1>7, <2>1 DEF Serves
<1>17. Lost'
  <2>1. ~Failing(t)
    BY <1>10 DEF Failing
  <2> QED
    BY <1>2, <1>3, <1>9, <2>1 DEF Lost
<1> QED
  BY <1>1, <1>4, <1>6, <1>7, <1>12, <1>14, <1>15, <1>16, <1>17, CalledClaims

\* The archive is unpacked and the dependencies are installed for it, or it fails.
LEMMA UnpackClaims ==
  ASSUME Sound, Grows, Claims, Running, Unpack
  PROVE  Claims'
<1>1. /\ Top.pc = "exec" /\ Top.pc \in ObjPcs /\ faults' \in Nat
      /\ \/ InstallList("unpacked", "unpacked", cat[Pkg].deps)
         \/ Advanced /\ Fault /\ Top'.pc = "cleanup" /\ Top'.rc \in {-1, 256}
      /\ UNCHANGED <<root, code, failed, pkgs, visited, get, json>>
  BY UnpackIs
<1>2. CASE InstallList("unpacked", "unpacked", cat[Pkg].deps)
  <2>1. cat[Pkg].deps \in Seq(Pkgs) /\ "unpacked" \in Dirs
    BY <1>1, Inside, DepsType DEF Dirs
  <2> QED
    BY <1>1, <1>2, <2>1, ListClaims
<1>3. CASE Advanced /\ Fault /\ Top'.pc = "cleanup" /\ Top'.rc \in {-1, 256}
  <2>1. faults' # 0
    BY <1>3, FaultIs
  <2>2. Passage
    BY <1>1, <1>3, <2>1, WithinPoints DEF Passage
  <2> QED
    BY <1>1, <1>3, <2>2, PlainPasses, PassesClaims
<1> QED
  BY <1>1, <1>2, <1>3

\* The dependencies are installed.
LEMMA DependenciesClaims ==
  ASSUME Sound, Grows, Claims, Running, Dependencies
  PROVE  Claims'
<1>1. /\ Top.pc \in {"deps", "exec"} /\ Top.dir \in Dirs /\ InstallList("depsdone", Top.dir, cat[Pkg].deps)
      /\ cat[Pkg].deps \in Seq(Pkgs) /\ UNCHANGED <<root, code, failed, pkgs, visited, get, json, faults>>
  BY DependenciesIs DEF pkgVars
<1>2. faults' \in Nat
  BY <1>1 DEF Sound, Types, CallType
<1>3. PICK dir \in Dirs : dir = Top.dir
  BY <1>1
<1>4. PICK list \in Seq(Pkgs) : list = cat[Pkg].deps
  BY <1>1
<1> QED
  BY <1>1, <1>2, <1>3, <1>4, ListClaims

\* The result goes to the package's object: what is installed has its dependencies.
LEMMA CommandBack ==
  ASSUME Sound, Grows, Claims, Running, Top.pc \in {"returned", "developed"}, Settled(Top.obj, Top.rc)
  PROVE  /\ Touches /\ Closed' /\ Top.pc \in ObjPcs /\ Top.obj \in DOMAIN pkgs /\ pkgs[Top.obj].rc = -1
         /\ faults = 0 => Top.rc = 0
         /\ Top.rc # -1 => Pkg \in visited
<1>1. /\ Top \in FrameType /\ Top.pc \in ObjPcs /\ Top.obj \in DOMAIN pkgs /\ Len(stack) \in DOMAIN stack
      /\ Top = stack[Len(stack)]
  BY TopType, PassPoints DEF Sound, Types
<1>2. Calls /\ Back(Top) /\ Closed
  BY DEF Claims, Underway
<1>3. PICK f \in FrameType : f = Top
  BY <1>1
<1>4. Going(f) /\ Back(f)
  BY <1>1, <1>2, <1>3 DEF Calls
<1>5. Touches
  BY <1>1 DEF Touches, Settled
<1>6. pkgs'[f.obj].rc = f.rc /\ pkgs'[f.obj].name = pkgs[f.obj].name /\ DOMAIN pkgs' = DOMAIN pkgs
  BY <1>1, <1>3 DEF Settled
<1>7. f.rc # -1 => Marks(f)
  BY <1>3 DEF Marks
<1>8. pkgs[f.obj].rc = -1 /\ (faults = 0 => f.rc = 0) /\ (f.rc # -1 => pkgs[f.obj].pkg \in visited)
  BY <1>1, <1>3, <1>4, <1>7 DEF Going
<1>9. pkgs'[f.obj].rc = 0 /\ pkgs'[f.obj].name # "none" => DepsOf(f.obj) \subseteq visited'
  <2>1. pkgs'[f.obj].rc = 0 /\ pkgs'[f.obj].name # "none" => DepsOf(f.obj) \subseteq visited
    BY <1>3, <1>4, <1>6 DEF Going, Back
  <2> QED
    BY <2>1 DEF Grows
<1>10. Closed'
  BY <1>2, <1>3, <1>5, <1>6, <1>9, ClosedStays
<1> QED
  BY <1>1, <1>3, <1>5, <1>8, <1>10 DEF Pkg

\* A package that succeeded is saved: it or an earlier object of it is installed.
LEMMA SavesInstalled ==
  ASSUME Sound, Grows, Claims, Running, Top.pc \in {"returned", "developed"}, Len(stack) = 1,
         LeftWith(Top.rc)
  PROVE  SavedInstalled'
<1>1. /\ Settled(Top.obj, Top.rc) /\ failed \subseteq failed'
      /\ root' = (IF Top.rc = 0 /\ cmd.save # "no" THEN SaveTo(cmd.save) ELSE root)
  BY Resulted DEF LeftWith
<1>2. /\ Touches /\ Closed' /\ Top.pc \in ObjPcs /\ Top.obj \in DOMAIN pkgs /\ pkgs[Top.obj].rc = -1
      /\ Top.rc # -1 => Pkg \in visited
  BY <1>1, CommandBack
<1>3. Seen /\ SavedInstalled /\ Closed /\ faults \in Nat /\ cmd \in Invocation
  BY DEF Claims, Underway, Sound, Types, CallType, GivenType
<1>4. UNCHANGED <<cat, cmd>> /\ visited \subseteq visited'
  BY DEF Grows
<1>5. CASE ~(Top.rc = 0 /\ cmd.save # "no")
  BY <1>1, <1>2, <1>3, <1>5, SavedStill
<1>6. CASE Top.rc = 0 /\ cmd.save # "no"
  <2>1. cmd.save \in {"deps", "dev"}
    BY <1>3, <1>6 DEF Invocation
  <2>2. root' \in [deps : Seq(Pkgs), dev : Seq(Pkgs)] /\ root \in [deps : Seq(Pkgs), dev : Seq(Pkgs)]
    BY <1>1, <1>2, <1>6, <2>1, SaveToIs DEF Sound, Types, DataType
  <2>3. DOMAIN root' = {"deps", "dev"} /\ DOMAIN root = {"deps", "dev"}
    BY <2>2
  <2>4. \A l \in {"deps", "dev"} : ListOf(root'[l]) \subseteq ListOf(root[l]) \cup {Pkg}
    BY <1>1, <1>2, <1>6, <2>1, SaveToIs
  <2>5. \A p : SavedOf(p) => SavedOf(p)'
    BY <1>1, <1>2, SavedStays
  <2>6. \A l \in {"deps", "dev"} : \A p \in ListOf(root[l]) \ ListOf(cmd.given[l]) : SavedOf(p)'
    BY <1>3, <2>3, <2>5 DEF SavedInstalled, SavedOf
  <2>7. PICK p : p = Pkg
    OBVIOUS
  <2>8. PICK o \in DOMAIN pkgs : o = Top.obj
    BY <1>2
  <2>9. o \in DOMAIN pkgs' /\ pkgs'[o].pkg = p /\ pkgs'[o].rc = 0 /\ pkgs[o].rc = -1 /\ pkgs[o].pkg = p
        /\ pkgs'[o].name = pkgs[o].name
    BY <1>1, <1>2, <1>6, <2>7, <2>8 DEF Settled, Pkg
  <2>10. ASSUME NEW q \in DOMAIN pkgs', pkgs'[q].pkg = p, pkgs'[q].rc = 0, pkgs'[q].name # "none"
         PROVE  SavedOf(p)'
    <3>1. InstalledBy(q)'
      BY <2>10 DEF InstalledBy
    <3>2. DepsOf(q)' \subseteq visited' /\ DepsOf(q)' = ListOf(cat'[p].deps)
      BY <1>2, <2>10, <3>1 DEF Closed, DepsOf
    <3> QED
      BY <2>10, <3>1, <3>2 DEF SavedOf, Installed
  <2>11. SavedOf(p)'
    <3>1. CASE pkgs[o].name # "none"
      BY <2>9, <2>10, <3>1
    <3>2. CASE Failed(p)
      <4>1. Failed(p)'
        BY <1>1, <3>2 DEF Failed
      <4> QED
        BY <2>9, <4>1 DEF SavedOf
    <3>3. CASE pkgs[o].name = "none" /\ ~Failed(p)
      <4>1. p \in visited
        BY <1>2, <1>6, <2>7
      <4>2. PICK q \in DOMAIN pkgs : pkgs[q].pkg = p /\ pkgs[q].name # "none" /\ Counts(q)
        BY <1>3, <3>3, <4>1 DEF Seen
      <4>3. q # o
        BY <3>3, <4>2
      <4>4. pkgs[q].rc = 0
        <5>1. \A d \in DOMAIN stack : stack[d] = Top
          <6>1. DOMAIN stack = 1..1 /\ Top = stack[1]
            BY TopType DEF Sound, Types
          <6> QED
            BY <6>1
        <5> QED
          BY <2>8, <4>2, <4>3, <5>1 DEF Counts
      <4>5. q \in DOMAIN pkgs' /\ pkgs'[q].pkg = p /\ pkgs'[q].rc = 0 /\ pkgs'[q].name # "none"
        BY <1>2, <2>8, <4>2, <4>3, <4>4 DEF Touches
      <4> QED
        BY <2>10, <4>5
    <3> QED
      BY <3>1, <3>2, <3>3
  <2>12. \A l \in {"deps", "dev"} : \A r \in ListOf(root'[l]) \ ListOf(cmd.given[l]) : SavedOf(r)'
    BY <2>4, <2>6, <2>7, <2>11
  <2> QED
    BY <1>4, <2>3, <2>12 DEF SavedInstalled, SavedOf
<1> QED
  BY <1>5, <1>6

\* The command goes on behind a package, or ends with its failure.
LEMMA LeftClaims ==
  ASSUME Sound, Grows, Claims, Running, Top.kind = "command", Top.pc \in {"returned", "developed"},
         LeftWith(Top.rc), UNCHANGED <<visited, get, json, faults>>
  PROVE  Claims'
<1>1. /\ Settled(Top.obj, Top.rc) /\ Result(Pkg, Top.rc)
      /\ \/ Top.rc = -1 /\ code' = <<1>> /\ UNCHANGED stack
         \/ Top.rc # -1 /\ Advanced /\ Top'.pc = "next" /\ Top'.rc = Top.rc /\ UNCHANGED code
  BY DEF LeftWith
<1>2. /\ Touches /\ Closed' /\ Top.pc \in ObjPcs /\ Top.obj \in DOMAIN pkgs
      /\ faults = 0 => Top.rc = 0
      /\ Top.rc # -1 => Pkg \in visited
  BY <1>1, CommandBack
<1>3. Calls /\ Lost /\ Supplied /\ faults \in Nat /\ faults' \in Nat
  BY DEF Claims, Underway, Sound, Types, CallType
<1>4. Len(stack) = 1
  BY Bottom
<1>5. SavedInstalled'
  BY <1>3, <1>4, SavesInstalled
<1>8. Faultless' /\ failed \subseteq failed'
  BY <1>1, <1>2, Resulted DEF Claims, Faultless
<1>6. CASE Top.rc = -1 /\ code' = <<1>>
  <2>1. code' # <<>> /\ Ended'
    BY <1>6 DEF Ended
  <2> QED
    BY <1>2, <1>5, <1>8, <2>1, StoppedClaims
<1>7. CASE Top.rc # -1 /\ Advanced /\ Top'.pc = "next" /\ Top'.rc = Top.rc /\ UNCHANGED code
  <2>1. Top \in FrameType /\ Top = stack[Len(stack)]
    BY TopType DEF Sound, Types
  <2>2. PICK f \in FrameType : f = Top
    BY <2>1
  <2>3. PICK g \in FrameType : g = Top'
    BY <1>7 DEF Advanced
  <2>4. g.kind = "command" /\ f.kind = "command" /\ g.todo = f.todo /\ g.pc = "next" /\ f.rc # -1
    BY <1>7, <2>2, <2>3 DEF Advanced, Kept
  <2>5. Going(g)' /\ Back(g)'
    BY <2>4, Quiet
  <2>6. ~Failing(f)
    BY <2>2, <2>4, PassPoints DEF Failing
  <2>7. Lost'
    <3>1. (\E e \in failed' : e[2] = -1) => \E e \in failed : e[2] = -1
      BY <1>1, <1>7, Resulted
    <3> QED
      BY <1>3, <2>2, <2>6, <3>1 DEF Lost, Grows
  <2>8. Supplied'
    BY <1>3, SuppliedStays
  <2>9. Asked(g)'
    <3>1. Asked(f)'
      BY <1>2, <1>3, <1>4, <2>1, <2>2, AskedStays DEF Calls
    <3>2. Now(f)' \subseteq visited'
      <4>1. pkgs'[f.obj].pkg \in visited'
        BY <1>1, <1>2, <2>2, <2>4 DEF Settled, Pkg, Grows
      <4> QED
        BY <4>1 DEF Now
    <3>3. g.pc \notin ObjPcs
      BY <2>4, PassPoints
    <3> HIDE DEF Now, ListOf
    <3> QED
      BY <2>4, <3>1, <3>2, <3>3 DEF Asked
  <2>10. /\ DOMAIN pkgs' = DOMAIN pkgs
         /\ pkgs'[Top.obj].rc = 0 \/ \E e \in failed' : e[1] = pkgs[Top.obj].pkg
    BY <1>1, <1>2, Resulted DEF Settled, Pkg
  <2>11. ~(Len(stack) > 1) /\ Top'.pc \notin ObjPcs
    BY <1>4, <1>7, PassPoints
  <2>12. pkgs'[Top.obj].rc = 0 /\ pkgs'[Top.obj].name # "none" => DepsOf(Top.obj) \subseteq visited'
    <3>1. PICK o \in DOMAIN pkgs : o = Top.obj
      BY <1>2
    <3>2. DepsOf(o)' = DepsOf(o)
      BY DEF DepsOf, Grows
    <3> QED
      BY <1>2, <2>10, <3>1, <3>2 DEF Closed, InstalledBy
  <2> QED
    BY <1>2, <1>3, <1>4, <1>5, <1>7, <1>8, <2>3, <2>5, <2>7, <2>8, <2>9, <2>10, <2>11, <2>12, TurnedClaims
       DEF Advanced
<1> QED
  BY <1>1, <1>6, <1>7

\* install_package is back: the development follows, or the command goes on.
LEMMA PackageReturnedClaims ==
  ASSUME Sound, Grows, Claims, Running, PackageReturned
  PROVE  Claims'
<1>1. /\ Top.pc = "returned" /\ Top.kind = "command" /\ Top.pc \in ObjPcs
      /\ \/ /\ Top.rc = 0 /\ cat[Pkg].dev \in Seq(Pkgs)
            /\ InstallList("developed", "deps", cat[Pkg].dev) /\ UNCHANGED <<pkgs, root, code, failed>>
         \/ LeftWith(Top.rc)
      /\ UNCHANGED <<visited, get, json, faults>>
  BY PackageReturnedIs DEF pkgVars
<1>2. CASE LeftWith(Top.rc)
  BY <1>1, <1>2, LeftClaims
<1>3. CASE /\ Top.rc = 0 /\ cat[Pkg].dev \in Seq(Pkgs)
           /\ InstallList("developed", "deps", cat[Pkg].dev) /\ UNCHANGED <<pkgs, root, code, failed>>
  <2>1. faults' \in Nat /\ "deps" \in Dirs
    BY <1>1 DEF Sound, Types, CallType, Dirs
  <2>2. PICK list \in Seq(Pkgs) : list = cat[Pkg].dev
    BY <1>3
  <2> QED
    BY <1>1, <1>3, <2>1, <2>2, ListClaims
<1> QED
  BY <1>1, <1>2, <1>3

\* The development is installed: the command goes on.
LEMMA DevelopedClaims ==
  ASSUME Sound, Grows, Claims, Running, Developed
  PROVE  Claims'
<1>1. /\ Top.pc = "developed" /\ Top.kind = "command" /\ LeftWith(Top.rc)
      /\ UNCHANGED <<visited, get, json, faults>>
  BY DevelopedIs DEF pkgVars
<1> QED
  BY <1>1, LeftClaims

\* `clib upgrade` ends with its package.
LEMMA UpgradedClaims ==
  ASSUME Sound, Grows, Claims, Running, Upgraded
  PROVE  Claims'
<1>1. /\ Top.pc = "returned" /\ Top.kind = "command" /\ cmd.program = "upgrade"
      /\ Settled(Top.obj, Top.rc) /\ code' = ExitStatus(Top.rc)
      /\ UNCHANGED <<visited, root, cmd, faults>> /\ Result(Pkg, Top.rc)
  BY UpgradedIs DEF pkgVars
<1>2. /\ Touches /\ Closed' /\ Top.pc \in ObjPcs /\ Top.obj \in DOMAIN pkgs /\ pkgs[Top.obj].rc = -1
      /\ Top.rc # -1 => Pkg \in visited
      /\ faults = 0 => Top.rc = 0
  BY <1>1, CommandBack
<1>3. Calls /\ Lost /\ Seen /\ SavedInstalled /\ faults' \in Nat
  BY <1>1 DEF Claims, Underway, Sound, Types, CallType
<1>8. Faultless' /\ failed \subseteq failed'
  BY <1>1, <1>2, Resulted DEF Claims, Faultless
<1>4. SavedInstalled'
  BY <1>1, <1>2, <1>3, <1>8, SavedStill
<1>5. /\ Top \in FrameType /\ Top = stack[Len(stack)] /\ Len(stack) = 1 /\ Top.rc \in RCs
  BY <1>1, Bottom, TopType, Fields DEF Sound, Types
<1>6. code' # <<>>
  <2>1. code' \in {<<0>>, <<1>>, <<11>>, <<255>>}
    BY UpgradedIs
  <2> QED
    BY <2>1
<1>7. Ended'
  <2>1. SUFFICES ASSUME code' = << 0 >>
                 PROVE  /\ ListOf(cmd.args) \cap Pkgs \subseteq visited
                        /\ ListOf(cmd.args) \subseteq Pkgs => \A f \in failed' : f[2] # -1
                        /\ cmd.args # <<>>
                        /\ \A p \in visited : (Installed(p) \/ Failed(p))'
    BY <1>1 DEF Ended
  <2>2. Top.rc # -1
    <3>1. <<0>> # <<255>>
      OBVIOUS
    <3>2. PICK r : r = Top.rc
      OBVIOUS
    <3>3. code' = ExitStatus(r)
      BY <1>1, <3>2
    <3>4. SUFFICES ASSUME r = -1 PROVE FALSE
      BY <3>2
    <3>5. ExitStatus(r) = <<255>>
      BY <3>4, StatusIs
    <3> QED
      BY <2>1, <3>1, <3>3, <3>5
  <2>3. PICK f \in FrameType : f = Top
    BY <1>5
  <2>4. Asked(f)
    BY <1>3, <1>5, <2>3 DEF Calls
  <2>5. Now(f) \subseteq visited /\ ListOf(f.todo) = {} /\ f.kind = "command"
    <3>1. f.todo = <<>> /\ f.kind = "command"
      BY <1>1, <1>2, <2>3, <2>4 DEF Asked
    <3>2. ListOf(f.todo) = {}
      BY <3>1, Fields, ListIn
    <3> QED
      BY <1>2, <2>2, <2>3, <3>1, <3>2 DEF Now, Pkg
  <2>6. ListOf(cmd.args) \cap Pkgs \subseteq visited /\ cmd.args # <<>>
    <3> HIDE DEF Now, ListOf
    <3> QED
      BY <2>4, <2>5 DEF Asked
  <2>7. ~Failing(f)
    BY <1>1, <2>2, <2>3 DEF Failing
  <2>8. ListOf(cmd.args) \subseteq Pkgs => \A e \in failed' : e[2] # -1
    <3>1. (\E e \in failed' : e[2] = -1) => \E e \in failed : e[2] = -1
      BY <1>1, <2>2, Resulted
    <3> QED
      BY <1>3, <2>3, <2>7, <3>1 DEF Lost
  <2>9. \A p \in visited : (Installed(p) \/ Failed(p))'
    <3>1. /\ DOMAIN stack = 1..1 /\ Top = stack[1] /\ DOMAIN pkgs' = DOMAIN pkgs
          /\ pkgs'[Top.obj].rc = 0 \/ \E e \in failed' : e[1] = pkgs[Top.obj].pkg
      BY <1>1, <1>2, <1>5, TopType, Resulted DEF Sound, Types, Settled, Pkg
    <3>2. \A d \in DOMAIN stack : stack[d] = Top
      BY <3>1
    <3> QED
      BY <1>2, <1>3, <1>8, <3>1, <3>2, SeenAtLast
  <2> QED
    BY <2>6, <2>8, <2>9
<1> QED
  BY <1>2, <1>4, <1>6, <1>7, <1>8, StoppedClaims

\* The command ends when its arguments are done.
LEMMA EndOfCommandClaims ==
  ASSUME Sound, Grows, Claims, Running, EndOfCommand
  PROVE  Claims'
<1>1. /\ Top.pc = "next" /\ Top.kind = "command" /\ Top.todo = <<>> /\ code' = <<0>>
      /\ UNCHANGED <<failed, visited, root, cmd, faults, pkgs>>
  BY EndOfCommandIs DEF pkgVars
<1>2. Calls /\ Lost /\ Seen /\ SavedInstalled /\ Closed /\ faults' \in Nat
  BY <1>1 DEF Claims, Underway, Sound, Types, CallType
<1>3. Top.pc \notin ObjPcs /\ Touches
  BY <1>1, PassPoints DEF Touches
<1>12. Faultless' /\ failed \subseteq failed'
  BY <1>1, FaultlessStays
<1>4. SavedInstalled' /\ Closed'
  BY <1>1, <1>2, <1>3, <1>12, SavedStill, ClosedStays
<1>5. /\ Top \in FrameType /\ Top = stack[Len(stack)] /\ Len(stack) = 1
  BY <1>1, Bottom, TopType DEF Sound, Types
<1>6. PICK f \in FrameType : f = Top
  BY <1>5
<1>7. Asked(f)
  BY <1>2, <1>5, <1>6 DEF Calls
<1>8. Now(f) = {} /\ ListOf(f.todo) = {} /\ f.kind = "command" /\ f.pc = "next"
  BY <1>1, <1>3, <1>6, Fields, ListIn DEF Now
<1>9. ListOf(cmd.args) \cap Pkgs \subseteq visited /\ cmd.args # <<>>
  <2> HIDE DEF Now, ListOf
  <2> QED
    BY <1>7, <1>8 DEF Asked
<1>10. ~Failing(f)
  BY <1>8, Quiet
<1>13. \A p \in visited : (Installed(p) \/ Failed(p))'
  <2>1. \A d \in DOMAIN stack : stack[d].pc \notin ObjPcs
    <3>1. DOMAIN stack = 1..1 /\ Top = stack[1]
      BY <1>5, TopType DEF Sound, Types
    <3> QED
      BY <1>3, <3>1
  <2> QED
    BY <1>2, <1>3, <1>12, <2>1, SeenAtLast
<1>11. Ended'
  <2>1. ListOf(cmd.args) \subseteq Pkgs => \A e \in failed : e[2] # -1
    BY <1>2, <1>6, <1>10 DEF Lost
  <2> HIDE DEF ListOf, Installed, Failed
  <2> QED
    BY <1>1, <1>9, <1>13, <2>1 DEF Ended
<1> QED
  BY <1>1, <1>4, <1>11, <1>12, StoppedClaims

-----------------------------------------------------------------------------
(* The manifests of `pwd`.                                                 *)

\* No argument names nothing.
LEMMA NoArguments ==
  ASSUME NEW s, s = <<>>
  PROVE  ListOf(s) = {}
<1>1. <<>> \in Seq(Pkgs \cup {"here", "file"})
  OBVIOUS
<1> QED
  BY <1>1, ListIn

\* `clib install` without arguments: a call for `pwd`, then its status.
LEMMA AloneClaims ==
  ASSUME Sound, Grows, Claims, Running, Alone
  PROVE  Claims'
<1>1. /\ Top.kind = "alone" /\ Len(stack) = 1
      /\ \/ \E g \in FrameType :
               /\ Top.pc = "next" /\ Called("alone", g) /\ g.kind = "local" /\ g.pc = "next"
               /\ g.rc = 0 /\ UNCHANGED code
         \/ Top.pc = "alone" /\ code' = <<Top.rc>> /\ Top.rc \in {0, 1} /\ UNCHANGED stack
      /\ stack' \in Seq(FrameType) /\ stack' # <<>>
      /\ UNCHANGED <<cat, cmd, root, failed, pkgs, visited, get, json, faults>>
  BY AloneIs DEF pkgVars
<1>2. /\ Calls /\ Back(Top) /\ Lost /\ Seen /\ SavedInstalled /\ Closed /\ faults' \in Nat
  BY <1>1 DEF Claims, Underway, Sound, Types, CallType
<1>3. /\ Top \in FrameType /\ Top = stack[Len(stack)]
  BY TopType DEF Sound, Types
<1>4. PICK t \in FrameType : t = Top
  BY <1>3
<1>5. Asked(t) /\ Back(t) /\ t.kind = "alone"
  BY <1>1, <1>2, <1>3, <1>4 DEF Calls
<1>6. CASE \E g \in FrameType :
             /\ Top.pc = "next" /\ Called("alone", g) /\ g.kind = "local" /\ g.pc = "next"
             /\ g.rc = 0 /\ UNCHANGED code
  <2>1. PICK g \in FrameType :
             /\ Top.pc = "next" /\ Called("alone", g) /\ g.kind = "local" /\ g.pc = "next"
             /\ UNCHANGED code
    BY <1>6
  <2>2. "alone" \in Pcs
    BY DEF Pcs
  <2>3. PICK f \in FrameType : f = [t EXCEPT !.pc = "alone"]
    BY <2>2, PcType
  <2>4. f.pc = "alone" /\ f.kind = "alone"
    BY <1>5, <2>2, <2>3, PcType DEF Kept
  <2>5. "alone" \notin ObjPcs /\ Top.pc \notin ObjPcs /\ t.pc \notin ObjPcs
    BY <1>4, <2>1, PassPoints
  <2>6. Going(f)'
    <3>1. ~Marks(f)'
      BY <2>4, WithinPoints DEF Marks
    <3> QED
      BY <2>4, <2>5, <3>1 DEF Going
  <2>7. Asked(f)'
    BY <1>1, <1>5, <2>4 DEF Asked
  <2>8. Serves(f, g)'
    BY <2>1, <2>4 DEF Serves
  <2>9. Lost'
    <3>1. ~Failing(t)
      BY <1>4, <1>5, <2>1 DEF Failing
    <3> QED
      BY <1>1, <1>2, <1>4, <3>1 DEF Lost
  <2> QED
    BY <1>1, <1>2, <1>4, <2>1, <2>2, <2>3, <2>5, <2>6, <2>7, <2>8, <2>9, CalledClaims
<1>7. CASE Top.pc = "alone" /\ code' = <<Top.rc>> /\ Top.rc \in {0, 1} /\ UNCHANGED stack
  <2>1. Top.pc \notin ObjPcs /\ Touches
    BY <1>1, <1>7, PassPoints DEF Touches
  <2>7. Faultless' /\ failed \subseteq failed'
    BY <1>1, FaultlessStays
  <2>2. SavedInstalled' /\ Closed'
    BY <1>1, <1>2, <2>1, <2>7, SavedStill, ClosedStays
  <2>3. PICK r : r = t.rc
    OBVIOUS
  <2>4. code' = <<r>>
    BY <1>4, <1>7, <2>3
  <2>5. code' # <<>>
    BY <2>4
  <2>6. Ended'
    <3>1. SUFFICES ASSUME code' = << 0 >>
                   PROVE  /\ ListOf(cmd.args) \cap Pkgs \subseteq visited
                          /\ ListOf(cmd.args) \subseteq Pkgs => \A f \in failed : f[2] # -1
                          /\ cmd.args = <<>> => ListOf(root.deps) \subseteq visited
                          /\ \A p \in visited : (Installed(p) \/ Failed(p))'
      BY <1>1 DEF Ended
    <3>2. r = 0
      BY <2>4, <3>1
    <3>3. ListOf(cmd.args) = {}
      BY <1>5, NoArguments DEF Asked
    <3>4. t.pc = "alone" /\ t.rc = 0
      BY <1>4, <1>7, <2>3, <3>2
    <3>5. ~Failing(t)
      BY <1>5, <3>4 DEF Failing
    <3>6. ListOf(root.deps) \subseteq visited
      BY <1>5, <3>4 DEF Back
    <3>7. \A p \in visited : (Installed(p) \/ Failed(p))'
      <4>1. \A d \in DOMAIN stack : stack[d].pc \notin ObjPcs
        <5>1. DOMAIN stack = 1..1 /\ Top = stack[1]
          BY <1>1, TopType DEF Sound, Types
        <5> QED
          BY <2>1, <5>1
      <4> QED
        BY <1>2, <2>1, <2>7, <4>1, SeenAtLast
    <3> HIDE DEF ListOf, Installed, Failed
    <3> QED
      BY <1>2, <1>4, <3>3, <3>5, <3>6, <3>7 DEF Lost
  <2> QED
    BY <2>2, <2>5, <2>6, <2>7, StoppedClaims
<1> QED
  BY <1>1, <1>6, <1>7

\* What the command's call says after an argument that is no package.
LEMMA PassedBy ==
  ASSUME Sound, NEW f \in FrameType, NEW t \in FrameType, Asked(t),
         t.kind = "command" /\ t.pc = "next" /\ t.todo # <<>> /\ Head(t.todo) \in {"here", "file"},
         f.kind = "command" /\ f.pc = "next" /\ f.todo = Tail(t.todo),
         UNCHANGED <<cmd, visited>>
  PROVE  Asked(f)' /\ ~(ListOf(cmd.args) \subseteq Pkgs)
<1>1. t.todo \in Seq(Pkgs \cup {"here", "file"})
  BY Fields
<1>2. ListOf(t.todo) = {Head(t.todo)} \cup ListOf(f.todo) /\ (Len(t.todo) <= 1 => f.todo = <<>>)
  BY <1>1, ListIn
<1>3. Head(t.todo) \notin Pkgs
  BY NamesAssumption
<1>4. Now(f)' = {} /\ Now(t) = {} /\ f.pc \notin ObjPcs
  BY PassPoints DEF Now
<1>5. Len(<<>>) = 0
  OBVIOUS
<1>6. Head(t.todo) \in ListOf(t.todo)
  BY <1>2
<1> HIDE DEF Now, ListOf
<1> QED
  BY <1>2, <1>3, <1>4, <1>5, <1>6 DEF Asked

\* An argument that is no package.
LEMMA LocalArgumentClaims ==
  ASSUME Sound, Grows, Claims, Running, LocalArgument
  PROVE  Claims'
<1>1. /\ Top.pc = "next" /\ Top.kind = "command" /\ Len(stack) = 1
      /\ Top.todo # <<>> /\ Head(Top.todo) \in {"here", "file"}
      /\ stack' \in Seq(FrameType) /\ stack' # <<>> /\ Len(stack') = 2
      /\ stack'[1].kind = "command" /\ stack'[1].pc = "next" /\ stack'[1].todo = Tail(Top.todo)
      /\ Top' = stack'[2] /\ Top'.kind = "local" /\ Top'.pc = "next"
      /\ UNCHANGED <<cat, cmd, root, code, failed, pkgs, visited, get, json, faults>>
  BY LocalArgumentIs DEF pkgVars
<1>2. /\ Calls /\ Seen /\ Supplied /\ Lost /\ SavedInstalled /\ Closed /\ Chosen /\ faults' \in Nat
  BY <1>1 DEF Claims, Underway, Sound, Types, CallType
<1>3. /\ Top \in FrameType /\ Top = stack[1] /\ DOMAIN stack = 1..1
  BY <1>1, TopType DEF Sound, Types
<1>4. PICK t \in FrameType : t = Top
  BY <1>3
<1>5. DOMAIN stack' = 1..2 /\ stack'[1] \in FrameType /\ stack'[2] \in FrameType
  <2>1. 1 \in 1..2 /\ 2 \in 1..2
    OBVIOUS
  <2> QED
    BY <1>1, <2>1, LenProperties, ElementOfSeq
<1>6. PICK f \in FrameType, g \in FrameType : f = stack'[1] /\ g = stack'[2]
  BY <1>5
<1>7. Asked(f)' /\ ~(ListOf(cmd.args) \subseteq Pkgs)
  <2>1. Asked(t)
    BY <1>2, <1>3, <1>4 DEF Calls
  <2> QED
    BY <1>1, <1>4, <1>6, <2>1, PassedBy
<1>8. Going(f)' /\ Going(g)' /\ Back(g)'
  BY <1>1, <1>6, Quiet
<1>9. Serves(f, g)'
  BY <1>1, <1>6, <1>7 DEF Serves
<1>10. f.pc \notin ObjPcs /\ g.pc \notin ObjPcs
  BY <1>1, <1>6, PassPoints
<1>11. Calls'
  <2>1. \A d \in 1..2 : d = 1 \/ d = 2
    OBVIOUS
  <2>2. \A d \in DOMAIN stack' : Going(stack[d])'
    BY <1>5, <1>6, <1>8, <2>1
  <2>3. \A d \in DOMAIN stack' : d + 1 \in DOMAIN stack' => Serves(stack[d], stack[d + 1])'
    <3>1. \A d \in 1..2 : d + 1 \in 1..2 => d = 1 /\ d + 1 = 2
      OBVIOUS
    <3> QED
      BY <1>5, <1>6, <1>9, <3>1
  <2>4. Single'
    BY <1>5, <1>6, <1>10, <2>1 DEF Single
  <2> QED
    BY <1>6, <1>7, <2>2, <2>3, <2>4 DEF Calls
<1>12. Touches /\ Top.pc \notin ObjPcs
  BY <1>1, PassPoints DEF Touches
<1>18. Faultless' /\ failed \subseteq failed'
  BY <1>1, FaultlessStays
<1>13. Closed' /\ SavedInstalled'
  BY <1>1, <1>2, <1>12, <1>18, ClosedStays, SavedStill
<1>14. Seen'
  <2>1. \A d \in DOMAIN stack : stack[d].pc \notin ObjPcs
    BY <1>3, <1>12
  <2> QED
    BY <1>1, <1>2, <1>12, <1>18, <2>1, SeenStays DEF Seen
<1>15. Supplied'
  BY <1>1, <1>2, SuppliedStays
<1>16. Back(Top)' /\ Lost'
  BY <1>1, <1>6, <1>7, <1>8 DEF Lost
<1>17. Running' /\ Ended' /\ Chosen'
  BY <1>1, <1>2 DEF Running, Ended, Chosen
<1> QED
  BY <1>11, <1>13, <1>14, <1>15, <1>16, <1>17, <1>18 DEF Claims, Underway

\* The other manifest is tried.
LEMMA OtherManifestClaims ==
  ASSUME Sound, Grows, Claims, Running, Top.kind = "local", Top.pc \in {"next", "devs", "last"},
         UNCHANGED <<cat, cmd, root, code, failed, pkgs, visited, get, json, faults>>,
         stack' \in Seq(FrameType), stack' # <<>>,
         Top.name < 2, Turned(Top'), Top' \in FrameType,
         Top'.kind = Top.kind, Top'.pc = "next", Top'.name = Top.name + 1,
         Failing(Top) => cmd.manifests[2] # "good"
  PROVE  Claims'
<1>1. Calls /\ Lost /\ Supplied /\ faults' \in Nat
  BY DEF Claims, Underway, Sound, Types, CallType
<1>2. Top \in FrameType /\ Len(stack) > 1 /\ Top.name \in 1..2
  BY TopType, Bottom, Fields DEF Sound, Types
<1>3. PICK L \in Nat : L = Len(stack)
  BY TopType DEF Sound, Types
<1>4. ~(L = 1)
  <2>1. L > 1
    BY <1>2, <1>3
  <2> QED
    BY <2>1
<1>5. PICK g \in FrameType : g = Top'
  OBVIOUS
<1>6. g.kind = "local" /\ g.pc = "next" /\ g.name = 2
  BY <1>2, <1>5
<1>7. Going(g)' /\ Back(g)'
  BY <1>6, Quiet
<1>8. Lost'
  <2>1. Failing(Top) => Failing(g)'
    BY <1>6 DEF Failing
  <2> QED
    BY <1>1, <1>5, <2>1 DEF Lost
<1>9. Supplied'
  BY <1>1, SuppliedStays
<1>10. Len(stack) > 1 => \E f \in FrameType : f = stack[Len(stack) - 1] /\ Serves(f, g)'
  BY <1>1, <1>6, TurnedServes
<1>11. Touches /\ Top.pc \notin ObjPcs /\ Top'.pc \notin ObjPcs
  BY PassPoints DEF Touches
<1>12. Faultless' /\ failed \subseteq failed'
  BY FaultlessStays
<1> QED
  BY <1>1, <1>12, <1>3, <1>4, <1>5, <1>7, <1>8, <1>9, <1>10, <1>11, TurnedClaims

\* The manifests are done with: the command has the result.
LEMMA DoneLocalClaims ==
  ASSUME Sound, Grows, Claims, Running, Top.kind = "local", Top.pc \in {"next", "devs", "last"},
         UNCHANGED <<cat, cmd, root, code, failed, pkgs, visited, get, json, faults>>,
         stack' \in Seq(FrameType), NEW rc \in {0, 1}, Popped(rc),
         rc = 0 => ListOf(root.deps) \subseteq visited /\ ~Failing(Top)
  PROVE  Claims'
<1>1. Calls /\ Lost /\ Supplied /\ faults' \in Nat
  BY DEF Claims, Underway, Sound, Types, CallType
<1>2. rc \in RCs /\ Len(stack) > 1
  BY DEF RCs, Popped
<1>3. PICK e \in FrameType : e = stack[Len(stack) - 1] /\ Serves(e, Top) /\ Link(e, Top)
  BY <1>1, <1>2, Waiting
<1>4. PICK h : h = Top'
  OBVIOUS
<1>5. h.pc = e.pc /\ h.rc = rc /\ h.kind = e.kind
  BY <1>2, <1>3, <1>4, PoppedOuter DEF Kept
<1>6. (h.kind = "alone" /\ h.pc = "alone") \/ (h.kind = "command" /\ h.pc = "next")
  BY <1>3, <1>5 DEF Link
<1>7. h.pc \notin ObjPcs \cup {"devs", "last"} /\ Top.pc \notin ObjPcs /\ Touches
  BY <1>6, PassPoints DEF Touches
<1>8. Back(h)'
  BY <1>5, <1>6 DEF Back
<1>9. Lost'
  <2>1. CASE h.kind = "alone" /\ h.pc = "alone"
    <3>1. rc = 1 => Failing(h)'
      BY <1>5, <2>1 DEF Failing
    <3>2. Failing(Top) => rc = 1
      OBVIOUS
    <3> QED
      BY <1>1, <1>4, <3>1, <3>2 DEF Lost
  <2>2. CASE h.kind = "command" /\ h.pc = "next"
    <3>1. ~(ListOf(cmd.args) \subseteq Pkgs)
      BY <1>3, <1>5, <2>2 DEF Serves
    <3> QED
      BY <3>1 DEF Lost
  <2> QED
    BY <1>6, <2>1, <2>2
<1> QED
  BY <1>1, <1>2, <1>4, <1>7, <1>8, <1>9, PoppedClaims

\* An attempt at a manifest is left.
LEMMA LeftLocalClaims ==
  ASSUME Sound, Grows, Claims, Running, Top.kind = "local", Top.pc \in {"next", "devs", "last"},
         UNCHANGED <<cat, cmd, root, code, failed, pkgs, visited, get, json, faults>>,
         NEW rc \in {0, 1}, LeftLocal(rc),
         rc = 0 => ListOf(root.deps) \subseteq visited /\ ~Failing(Top),
         Failing(Top) /\ Top.name < 2 => cmd.manifests[2] # "good"
  PROVE  Claims'
  BY OtherManifestClaims, DoneLocalClaims DEF LeftLocal

\* The packages of the manifest are asked for, the development's after them.
LEMMA LocalListClaims ==
  ASSUME Sound, Grows, Claims, Running, Top.kind = "local",
         UNCHANGED <<cat, cmd, root, code, failed, pkgs, visited, get, json, faults>>,
         NEW pc, NEW list \in Seq(Pkgs), InstallList(pc, "deps", list),
         cmd.manifests[Top.name] = "good", Top.pc \in {"next", "devs"}, ~Failing(Top),
         \/ pc = "devs" /\ list = root.deps
         \/ pc = "last" /\ ListOf(root.deps) \subseteq visited
  PROVE  Claims'
<1>1. Calls /\ Lost /\ faults' \in Nat
  BY DEF Claims, Underway, Sound, Types, CallType
<1>2. pc \in Pcs /\ pc \notin ObjPcs /\ Top.pc \notin ObjPcs /\ "deps" \in Dirs /\ pc \in {"devs", "last"}
  BY PassPoints DEF Pcs, Dirs
<1>3. Top \in FrameType /\ Len(stack) > 1
  BY TopType, Bottom DEF Sound, Types
<1>4. PICK L \in Nat : L = Len(stack)
  BY TopType DEF Sound, Types
<1>5. ~(L = 1)
  <2>1. L > 1
    BY <1>3, <1>4
  <2> QED
    BY <2>1
<1>6. PICK t \in FrameType : t = Top
  BY <1>3
<1>7. PICK f \in FrameType : f = [t EXCEPT !.pc = pc]
  BY <1>2, PcType
<1>8. f.pc = pc /\ f.kind = "local" /\ f.name = t.name
  BY <1>2, <1>6, <1>7, PcType DEF Kept
<1>9. PICK g \in FrameType : g = Frame("list", "deps", list) /\ Called(pc, g)
  BY <1>2, ListIs
<1>10. g.kind = "list" /\ g.pc = "next" /\ g.todo = list /\ stack' \in Seq(FrameType) /\ stack' # <<>>
  BY <1>2, <1>9, ListIs
<1>11. Going(f)'
  <2>1. ~Marks(f)'
    BY <1>2, <1>8, WithinPoints DEF Marks
  <2> QED
    BY <1>2, <1>6, <1>8, <2>1 DEF Going
<1>12. Len(stack) > 1 => \E e \in FrameType : e = stack[Len(stack) - 1] /\ Serves(e, f)'
  BY <1>1, <1>8, TurnedServes
<1>13. Serves(f, g)'
  <2>1. Wanted(f)' \subseteq ListOf(list)
    BY <1>2, <1>8 DEF Wanted
  <2> HIDE DEF Wanted, Now
  <2> QED
    BY <1>8, <1>10, <2>1 DEF Serves
<1>14. Lost'
  BY <1>1 DEF Lost
<1> QED
  BY <1>1, <1>2, <1>4, <1>5, <1>6, <1>7, <1>9, <1>10, <1>11, <1>12, <1>13, <1>14, CalledClaims

\* The call for `pwd`.
LEMMA LocalClaims ==
  ASSUME Sound, Grows, Claims, Running, Local
  PROVE  Claims'
<1>1. /\ Top.kind = "local" /\ Top.pc \in {"next", "devs", "last"}
      /\ root.deps \in Seq(Pkgs) /\ root.dev \in Seq(Pkgs)
      /\ \/ Top.pc = "next" /\ cmd.manifests[Top.name] = "good" /\ InstallList("devs", "deps", root.deps)
         \/ Top.pc = "next" /\ cmd.manifests[Top.name] # "good" /\ LeftLocal(1)
         \/ Top.pc = "devs" /\ Top.rc # -1 /\ InstallList("last", "deps", root.dev)
         \/ Top.pc = "devs" /\ Top.rc # -1 /\ LeftLocal(0)
         \/ Top.pc = "last" /\ Top.rc # -1 /\ LeftLocal(0)
         \/ Top.pc \in {"devs", "last"} /\ Top.rc = -1 /\ LeftLocal(1)
      /\ UNCHANGED <<cat, cmd, root, code, failed, pkgs, visited, get, json, faults>>
  BY LocalIs DEF pkgVars
<1>2. Top \in FrameType /\ Top.name \in 1..2 /\ Top = stack[Len(stack)] /\ Len(stack) \in DOMAIN stack
  BY TopType, Fields DEF Sound, Types
<1>3. PICK t \in FrameType : t = Top
  BY <1>2
<1>4. Going(t) /\ Back(t) /\ Chosen
  BY <1>2, <1>3 DEF Claims, Underway, Calls
<1>5. CASE Top.pc = "next" /\ cmd.manifests[Top.name] = "good" /\ InstallList("devs", "deps", root.deps)
  <2>1. ~Failing(Top)
    BY <1>1, <1>5 DEF Failing
  <2>2. PICK list \in Seq(Pkgs) : list = root.deps
    BY <1>1
  <2> QED
    BY <1>1, <1>5, <2>1, <2>2, LocalListClaims
<1>6. CASE Top.pc = "next" /\ LeftLocal(1)
  <2>1. Failing(Top) => Top.name = 2
    BY <1>1, <1>6 DEF Failing
  <2>2. ~(Top.name = 2 /\ Top.name < 2)
    BY <1>2
  <2> QED
    BY <1>1, <1>6, <2>1, <2>2, LeftLocalClaims
<1>7. CASE Top.pc = "devs" /\ Top.rc # -1 /\ InstallList("last", "deps", root.dev)
  <2>1. ~Failing(t)
    BY <1>1, <1>3, <1>7 DEF Failing
  <2>2. cmd.manifests[t.name] = "good" /\ ListOf(root.deps) \subseteq visited
    BY <1>3, <1>4, <1>7 DEF Going, Back
  <2>3. PICK list \in Seq(Pkgs) : list = root.dev
    BY <1>1
  <2> QED
    BY <1>1, <1>3, <1>7, <2>1, <2>2, <2>3, LocalListClaims
<1>8. CASE Top.pc \in {"devs", "last"} /\ Top.rc # -1 /\ LeftLocal(0)
  <2>1. ~Failing(t)
    BY <1>1, <1>3, <1>8 DEF Failing
  <2>2. ListOf(root.deps) \subseteq visited
    BY <1>3, <1>4, <1>8 DEF Going, Back
  <2> QED
    BY <1>1, <1>3, <1>8, <2>1, <2>2, LeftLocalClaims
<1>9. CASE Top.pc \in {"devs", "last"} /\ Top.rc = -1 /\ LeftLocal(1)
  <2>1. cmd.manifests[t.name] = "good"
    BY <1>3, <1>4, <1>9 DEF Going
  <2>2. t.name < 2 => cmd.manifests[2] # "good"
    <3>1. t.name < 2 => t.name = 1
      BY <1>2, <1>3
    <3>2. 1 \in DOMAIN ManifestNames /\ 2 \in DOMAIN ManifestNames
      BY DEF ManifestNames
    <3> QED
      BY <1>4, <2>1, <3>1, <3>2 DEF Chosen
  <2> QED
    BY <1>1, <1>3, <1>9, <2>2, LeftLocalClaims
<1> QED
  BY <1>1, <1>5, <1>6, <1>7, <1>8, <1>9

-----------------------------------------------------------------------------
(* Status 0 means what it says.                                            *)

\* The command's first call.
LEMMA FirstCall ==
  ASSUME Init
  PROVE  \E f \in FrameType :
            /\ stack = <<f>> /\ f.pc = "next" /\ f.todo = cmd.args
            /\ f.kind = (IF cmd.args = <<>> THEN "alone" ELSE "command")
<1>1. PICK kind \in {"alone", "command"}, dir \in Dirs, todo \in Seq(Pkgs \cup {"here", "file"}) :
         /\ stack = <<Frame(kind, dir, todo)>> /\ todo = cmd.args
         /\ kind = (IF cmd.args = <<>> THEN "alone" ELSE "command")
  BY InitIs
<1>2. PICK f \in FrameType : f = Frame(kind, dir, todo) /\ f.kind = kind /\ f.pc = "next"
  BY NewFrame DEF Kinds
<1>3. f.todo = todo
  BY <1>2 DEF Frame
<1> QED
  BY <1>1, <1>2, <1>3

\* A run begins with nothing to claim.
LEMMA ClaimsInit ==
  ASSUME Init, Pkgs # {}
  PROVE  Claims
<1>1. PICK f \in FrameType :
            /\ stack = <<f>> /\ f.pc = "next" /\ f.todo = cmd.args
            /\ f.kind = (IF cmd.args = <<>> THEN "alone" ELSE "command")
  BY FirstCall
<1>2. DOMAIN stack = 1..1 /\ stack[1] = f /\ Len(stack) = 1
  BY <1>1
<1>3. Top = f
  BY <1>2 DEF Top
<1>4. /\ json \in [Pkgs -> {"none", "fresh", "old"}]
      /\ root = cmd.given /\ pkgs = <<>> /\ visited = {} /\ code = <<>> /\ failed = {}
      /\ cmd.program = "upgrade" => Len(cmd.args) = 1
  BY InitIs
<1>5. Chosen
  BY InitIs DEF Chosen
<1>6. get[Main].pc = "idle"
  BY InitSound DEF Sound, Slugs
<1>7. f.pc \notin ObjPcs /\ ~Marks(f)
  BY <1>1, PassPoints, WithinPoints DEF Marks
<1>8. Going(f) /\ Back(f)
  BY <1>1, <1>7 DEF Going, Back
<1>9. Asked(f)
  <2>1. f.kind = "alone" <=> cmd.args = <<>>
    BY <1>1
  <2>2. cmd.program = "upgrade" => Len(f.todo) <= 1
    <3>1. PICK n : n = Len(f.todo)
      OBVIOUS
    <3>2. cmd.program = "upgrade" => n = 1
      BY <1>1, <1>4, <3>1
    <3>3. n = 1 => n <= 1
      OBVIOUS
    <3> QED
      BY <3>1, <3>2, <3>3
  <2> QED
    BY <1>1, <1>7, <2>1, <2>2 DEF Asked
<1>10. Calls
  <2>1. \A d \in 1..1 : d = 1 /\ d + 1 \notin 1..1
    OBVIOUS
  <2> QED
    BY <1>2, <1>7, <1>8, <1>9, <2>1 DEF Calls, Single
<1>11. Lost /\ Seen /\ Supplied
  BY <1>4, <1>6 DEF Lost, Seen, Supplied
<1>12. Closed
  <2>1. DOMAIN pkgs = {}
    BY <1>4
  <2> QED
    BY <2>1 DEF Closed
<1>13. SavedInstalled
  BY <1>4 DEF SavedInstalled
<1>15. Faultless
  BY <1>4 DEF Faultless
<1>14. Ended
  <2>1. code # <<0>>
    BY <1>4
  <2> QED
    BY <2>1 DEF Ended
<1> QED
  BY <1>3, <1>5, <1>8, <1>10, <1>11, <1>12, <1>13, <1>14, <1>15 DEF Claims, Underway

\* Main's steps.
LEMMA MainClaims ==
  ASSUME Sound, Loading, Grows, Claims, Running, MainStep
  PROVE  Claims'
<1>1. CASE \/ NextPackage \/ GotPackage \/ NoPackage \/ ListReturned \/ EndOfList
           \/ PackageReturned \/ Upgraded \/ Developed
  BY <1>1, NextPackageClaims, GotPackageClaims, NoPackageClaims, ListReturnedClaims, EndOfListClaims,
     PackageReturnedClaims, UpgradedClaims, DevelopedClaims
<1>2. CASE LocalArgument \/ Alone \/ Local \/ EndOfCommand \/ Unpack \/ Dependencies \/ Library
  BY <1>2, LocalArgumentClaims, AloneClaims, LocalClaims, EndOfCommandClaims, UnpackClaims,
     DependenciesClaims, StillSteps
<1>3. CASE \/ EnterSection \/ Tested \/ Prepare \/ Marked \/ Reference \/ FetchMakefile \/ JoinMakefile
           \/ Looked \/ Download \/ Join \/ Stored \/ Configure \/ RunInstall
           \/ DependenciesDone \/ Cleanup
  <2>1. Pathed
    BY DEF Loading
  <2>2. Passes
    BY <1>3, <2>1, SectionsPass, CommandsPass, ThreadsPass
  <2> QED
    BY <2>2, PassesClaims
<1> QED
  BY <1>1, <1>2, <1>3 DEF MainStep

\* What a run keeps of its claims.
LEMMA ClaimsStep ==
  ASSUME Contained, Claims, [Next]_vars
  PROVE  Claims'
<1>1. Sound /\ Loading /\ Pathed
  BY DEF Contained, Loading
<1>2. CASE Next
  <2>1. Running /\ Grows
    BY <1>1, <1>2, StepsRun, StepGrows
  <2> QED
    BY <1>1, <1>2, <2>1, MainClaims, StillSteps DEF Next
<1>3. CASE UNCHANGED vars
  <2>1. UNCHANGED <<cat, cmd, opts, fetch, pkgs, stack, visited, faults, unmade, root, code, failed,
                    get, json>>
    BY <1>3 DEF vars, installVars, pkgVars
  <2>2. Grows /\ Still
    BY <2>1 DEF Grows, Still
  <2>3. CASE Running
    <3>1. Supplied' /\ faults' \in Nat
      BY <1>1, <2>1, <2>2, <2>3, SuppliedStays DEF Claims, Underway, Sound, Types, CallType
    <3> QED
      BY <1>1, <2>2, <2>3, <3>1, StillClaims
  <2>4. CASE ~Running
    <3>1. ~Running'
      BY <2>1, <2>4 DEF Running
    <3>2. \A o \in DOMAIN pkgs : DepsOf(o)' = DepsOf(o) /\ InstalledBy(o)' = InstalledBy(o)
      BY <2>1 DEF DepsOf, InstalledBy
    <3>3. Closed' /\ Ended' /\ Chosen' /\ Faultless'
      BY <2>1, <3>2 DEF Claims, Closed, Ended, Chosen, Faultless, Installed, Failed
    <3>4. SavedInstalled'
      BY <2>1, <3>2 DEF Claims, SavedInstalled, Installed, Failed
    <3> QED
      BY <3>1, <3>3, <3>4 DEF Claims, Underway
  <2> QED
    BY <2>3, <2>4
<1> QED
  BY <1>2, <1>3

\* Whatever is asked for and whatever fails: when a command ends with status 0,
\* every package it was given, and every dependency of one that is installed, is
\* installed, or its installation was tried and failed, with another result than
\* -1; nothing fails of itself; and what was added to the manifest of `pwd` had
\* an installation that ended with 0, and has its dependencies visited if none of
\* it failed (clib-install.c:60-134, :174-263, :314-347, clib-package.c:1138-1263,
\* :1611-1637).
THEOREM InstallTold ==
  ASSUME Pkgs # {}
  PROVE  Spec => []InstalledAsTold
<1>1. Init => Contained /\ Claims
  BY ContainedInit, ClaimsInit
<1>2. Contained /\ Claims /\ [Next]_vars => Contained' /\ Claims'
  BY ContainedStep, ClaimsStep
<1>3. Claims => InstalledAsTold
  <2>1. Closed /\ Ended /\ Faultless => Complete
    <3>1. Closed => \A o \in DOMAIN pkgs : InstalledBy(o) => ListOf(cat[pkgs[o].pkg].deps) \subseteq visited
      BY DEF Closed, DepsOf
    <3>2. Closed /\ code = <<0>> /\ Ended => Needed \subseteq visited
      <4> HIDE DEF ListOf, InstalledBy
      <4> QED
        BY <3>1 DEF Needed, Ended
    <3> HIDE DEF ListOf, InstalledBy, Installed, Failed, Needed
    <3> QED
      BY <3>2 DEF Ended, Complete, Faultless
  <2> QED
    BY <2>1 DEF Claims, InstalledAsTold
<1> QED
  BY <1>1, <1>2, <1>3, PTL DEF Spec
=============================================================================
