-------------------------- MODULE ClibInstallProofs --------------------------
(***************************************************************************)
(* Proofs about ClibInstall, for any packages and files, any retries and   *)
(* faults, and whatever is to be installed.                                *)
(***************************************************************************)
EXTENDS ClibInstall, SequenceTheorems, FiniteSetTheorems, TLAPS

-----------------------------------------------------------------------------
(* Types.                                                                  *)

Sections == {"tested", "marked", "looked", "stored"}

\* The points of clib_package_install, in its order: before a thread is made for
\* the package, while the makefile is fetched, before the sources, and with them.
Unseen == {"test", "tested", "prepare"}
Fresh == Unseen \cup {"mark", "marked", "make", "makefetch"}
Looking == {"look", "looked"}
Batch == {"download", "fetch", "drain", "store", "stored"}
LoadPcs == Fresh \cup {"makewait"} \cup Looking \cup Batch
ObjPcs == LoadPcs \cup {"configure", "exec", "unpacked", "deps", "depsdone", "cleanup",
                        "returned", "developed"}
Pcs == ObjPcs \cup {"next", "slug", "end", "alone", "devs", "last"}

Kinds == {"alone", "command", "local", "list"}
RCs == {-1, 0, 1, 11, 256}

FrameType == [kind : Kinds, dir : Dirs, todo : Seq(Pkgs \cup {"here", "file"}), pc : Pcs,
              owned : SUBSET Nat, obj : Nat, i : Int, k : Nat \ {0}, slots : Seq(Nat),
              rc : RCs, name : DOMAIN ManifestNames, seen : Int]

ThreadPcs == {"start", "check", "checked", "open", "get", "log", "logged", "drop",
              "dropping", "done"}

ThreadType == [obj : Nat, path : Paths, pc : ThreadPcs, seen : Int]

ObjectType == [pkg : Pkgs, refs : Int, dir : Dirs, name : {"none", "live", "freed"},
               freed : BOOLEAN, rc : RCs]

GivenType ==
    /\ cat \in [Pkgs -> Manifest]
    /\ cmd \in Invocation
    /\ opts \in Options /\ opts.concurrency \in Nat

DataType ==
    /\ visited \subseteq Pkgs
    /\ disk \in [Dirs \X Pkgs -> [Paths -> FileState]]
    /\ cache \in [Pkgs -> Copy]
    /\ root \in [deps : Seq(Pkgs), dev : Seq(Pkgs)]
    /\ code \in {<<>>, <<0>>, <<1>>, <<11>>, <<255>>}
    /\ unmade \in BOOLEAN /\ stale \in BOOLEAN /\ raced \in BOOLEAN

CallType ==
    /\ get \in [Callers -> Call] /\ json \in [Pkgs -> Entry]
    /\ faults \in Nat /\ retried \in BOOLEAN

StackType ==
    /\ stack \in Seq(FrameType) /\ stack # <<>>
    /\ \A d \in DOMAIN stack : stack[d].pc \in ObjPcs => stack[d].obj \in DOMAIN pkgs

ThreadsType ==
    /\ fetch \in Seq(ThreadType)
    /\ \A n \in DOMAIN fetch : fetch[n].obj \in DOMAIN pkgs
    /\ lock \in {NoThread, Main} \cup DOMAIN fetch

Types == GivenType /\ DataType /\ CallType /\ StackType /\ ThreadsType /\ pkgs \in Seq(ObjectType)

\* Where each kind of call may be.
PcOf(kind) ==
    CASE kind = "alone" -> {"next", "alone"}
      [] kind = "local" -> {"next", "devs", "last"}
      [] kind = "list" -> {"next", "slug", "end"} \cup (ObjPcs \ {"developed"})
      [] kind = "command" -> {"next", "slug"} \cup ObjPcs

\* Call f waits for the call g it has made.
Link(f, g) ==
    \/ f.kind = "alone" /\ f.pc = "alone" /\ g.kind = "local"
    \/ f.kind = "command" /\ f.pc = "next" /\ g.kind = "local"
    \/ f.kind \in {"command", "list"} /\ f.pc \in {"unpacked", "depsdone"} /\ g.kind = "list"
    \/ f.kind = "command" /\ f.pc = "developed" /\ g.kind = "list"
    \/ f.kind = "local" /\ f.pc \in {"devs", "last"} /\ g.kind = "list"

\* The frame at depth d.
Framed(f, d) ==
    /\ f.pc \in PcOf(f.kind)
    /\ d = 1 <=> f.kind \in {"command", "alone"}
    /\ f.kind = "local" => d = 2
    /\ f.kind = "alone" => f.rc \in {0, 1}
    /\ f.pc = "slug" => f.todo # <<>> /\ Head(f.todo) \in Pkgs

\* The command is the first call, and each call but the last waits for the next.
Shape ==
    /\ \A d \in DOMAIN stack : Framed(stack[d], d)
    /\ \A d \in DOMAIN stack : d + 1 \in DOMAIN stack => Link(stack[d], stack[d + 1])

\* Main is in the library's package maker, or that is idle.
Slugs == Top.pc # "slug" => get[Main].pc = "idle"

Sound == Types /\ Shape /\ Slugs

-----------------------------------------------------------------------------
(* The stack.                                                              *)

\* What the three ways to change the stack leave.
Turned(f) ==
    /\ Len(stack') = Len(stack) /\ Top' = f
    /\ \A d \in 1..(Len(stack) - 1) : stack'[d] = stack[d]

Called(pc, f) ==
    /\ Len(stack') = Len(stack) + 1 /\ Top' = f
    /\ stack'[Len(stack)] = [Top EXCEPT !.pc = pc]
    /\ \A d \in 1..(Len(stack) - 1) : stack'[d] = stack[d]

Popped(rc) ==
    /\ Len(stack) > 1 /\ Len(stack') = Len(stack) - 1
    /\ Top' = [stack[Len(stack) - 1] EXCEPT !.rc = rc]
    /\ \A d \in 1..(Len(stack) - 2) : stack'[d] = stack[d]

\* There is an innermost call.
LEMMA TopType ==
  ASSUME StackType
  PROVE  /\ Len(stack) \in Nat \ {0} /\ Len(stack) \in DOMAIN stack /\ DOMAIN stack = 1..Len(stack)
         /\ Top \in FrameType /\ Top = stack[Len(stack)]
         /\ Top.pc \in ObjPcs => Top.obj \in DOMAIN pkgs
         /\ \A d \in DOMAIN stack : stack[d] \in FrameType
<1>1. stack \in Seq(FrameType) /\ stack # <<>>
  BY DEF StackType
<1>2. Len(stack) \in Nat \ {0} /\ DOMAIN stack = 1..Len(stack)
  BY <1>1, EmptySeq, LenProperties
<1>3. Len(stack) \in DOMAIN stack
  BY <1>2
<1>4. \A d \in DOMAIN stack : stack[d] \in FrameType
  BY <1>1, <1>2
<1> QED
  BY <1>2, <1>3, <1>4 DEF Top, StackType

\* The innermost call goes on.
LEMMA PutIs ==
  ASSUME StackType, NEW f \in FrameType, Put(f)
  PROVE  Turned(f) /\ stack' \in Seq(FrameType) /\ stack' # <<>>
<1>1. stack \in Seq(FrameType) /\ Len(stack) \in Nat \ {0} /\ DOMAIN stack = 1..Len(stack)
  BY TopType DEF StackType
<1>2. stack' = [stack EXCEPT ![Len(stack)] = f]
  BY DEF Put
<1>3. stack' \in Seq(FrameType) /\ Len(stack') = Len(stack)
  BY <1>1, <1>2
<1>4. stack'[Len(stack)] = f /\ \A d \in 1..(Len(stack) - 1) : stack'[d] = stack[d]
  <2>1. \A d \in 1..Len(stack) : stack'[d] = IF d = Len(stack) THEN f ELSE stack[d]
    BY <1>1, <1>2
  <2>2. Len(stack) \in 1..Len(stack)
    BY <1>1
  <2>3. \A n \in Nat \ {0} : \A d \in 1..(n - 1) : d \in 1..n /\ d # n
    OBVIOUS
  <2> QED
    BY <1>1, <2>1, <2>2, <2>3
<1>5. stack' # <<>>
  BY <1>1, <1>3, EmptySeq
<1> QED
  BY <1>3, <1>4, <1>5 DEF Turned, Top

\* The innermost call makes another.
LEMMA EnterIs ==
  ASSUME StackType, NEW pc \in Pcs, NEW f \in FrameType, Enter(pc, f)
  PROVE  Called(pc, f) /\ stack' \in Seq(FrameType) /\ stack' # <<>>
<1>1. /\ stack \in Seq(FrameType) /\ Len(stack) \in Nat \ {0} /\ DOMAIN stack = 1..Len(stack)
      /\ Top \in FrameType /\ Top = stack[Len(stack)]
  BY TopType DEF StackType
<1> DEFINE under == [stack EXCEPT ![Len(stack)].pc = pc]
<1>2. [Top EXCEPT !.pc = pc] \in FrameType
  BY <1>1 DEF FrameType
<1>3. under = [stack EXCEPT ![Len(stack)] = [Top EXCEPT !.pc = pc]]
  BY <1>1
<1>4. /\ under \in Seq(FrameType) /\ Len(under) = Len(stack)
      /\ under[Len(stack)] = [Top EXCEPT !.pc = pc]
      /\ \A d \in 1..(Len(stack) - 1) : under[d] = stack[d]
  <2>1. \A d \in 1..Len(stack) : under[d] = IF d = Len(stack) THEN [Top EXCEPT !.pc = pc] ELSE stack[d]
    BY <1>1, <1>3
  <2>2. under \in [1..Len(stack) -> FrameType]
    BY <1>1, <1>2, <1>3
  <2> QED
    BY <1>1, <2>1, <2>2
<1>5. stack' = Append(under, f)
  BY DEF Enter
<1> HIDE DEF under
<1>6. /\ stack' \in Seq(FrameType) /\ Len(stack') = Len(stack) + 1 /\ stack'[Len(stack) + 1] = f
      /\ \A d \in 1..Len(stack) : stack'[d] = under[d]
  BY <1>1, <1>4, <1>5, AppendProperties
<1>7. stack' # <<>>
  BY <1>1, <1>6, EmptySeq
<1> QED
  BY <1>1, <1>4, <1>6, <1>7 DEF Called, Top

\* The innermost call returns.
LEMMA ReturnIs ==
  ASSUME StackType, NEW rc \in RCs, ReturnTo(rc), Len(stack) > 1
  PROVE  Popped(rc) /\ stack' \in Seq(FrameType) /\ stack' # <<>>
<1>1. stack \in Seq(FrameType) /\ Len(stack) \in Nat \ {0} /\ DOMAIN stack = 1..Len(stack)
  BY TopType DEF StackType
<1> DEFINE n == Len(stack) - 1
           rest == SubSeq(stack, 1, n)
<1>2. n \in Nat \ {0} /\ n < Len(stack)
  BY <1>1
<1>3. rest \in Seq(FrameType) /\ Len(rest) = n /\ \A d \in 1..n : rest[d] = stack[d]
  BY <1>1, <1>2, SubSeqProperties
<1>4. stack' = [rest EXCEPT ![n].rc = rc]
  BY DEF ReturnTo
<1>5. stack[n] \in FrameType /\ rest[n] = stack[n]
  BY <1>1, <1>2, <1>3
<1>6. [stack[n] EXCEPT !.rc = rc] \in FrameType
  BY <1>5 DEF FrameType
<1>7. DOMAIN rest = 1..n /\ rest \in [1..n -> FrameType]
  <2> HIDE DEF rest
  <2>1. DOMAIN rest = 1..n
    BY <1>3, LenProperties
  <2> QED
    BY <1>3, <2>1
<1> HIDE DEF rest
<1>8. \A d \in 1..n : stack'[d] = IF d = n THEN [stack[n] EXCEPT !.rc = rc] ELSE stack[d]
  BY <1>2, <1>3, <1>4, <1>5, <1>7
<1>9. stack' \in [1..n -> FrameType]
  <2>1. DOMAIN stack' = 1..n /\ stack' = [d \in 1..n |-> stack'[d]]
    BY <1>4, <1>7
  <2> QED
    BY <1>2, <1>6, <1>3, <1>7, <1>8, <2>1
<1>10. stack' \in Seq(FrameType) /\ Len(stack') = n
  BY <1>2, <1>9
<1>11. stack' # <<>>
  BY <1>2, <1>10, EmptySeq
<1> QED
  BY <1>2, <1>8, <1>10, <1>11 DEF Popped, Top

-----------------------------------------------------------------------------
(* Frames.                                                                 *)

\* Frame g is the same call as f, of the same package.
Same(g, f) ==
    /\ g.kind = f.kind /\ g.dir = f.dir /\ g.todo = f.todo /\ g.owned = f.owned
    /\ g.obj = f.obj /\ g.name = f.name

\* It is f but for its place and result.
Kept(g, f) ==
    /\ g.kind = f.kind /\ g.dir = f.dir /\ g.todo = f.todo /\ g.owned = f.owned
    /\ g.obj = f.obj /\ g.i = f.i /\ g.k = f.k /\ g.slots = f.slots
    /\ g.name = f.name /\ g.seen = f.seen

\* A frame at another point, or with another result, is a frame.
LEMMA PcType ==
  ASSUME NEW f \in FrameType, NEW pc \in Pcs
  PROVE  /\ [f EXCEPT !.pc = pc] \in FrameType
         /\ [f EXCEPT !.pc = pc].pc = pc /\ [f EXCEPT !.pc = pc].rc = f.rc
         /\ Kept([f EXCEPT !.pc = pc], f)
  BY DEF FrameType, Kept

\* A frame with another result is a frame.
LEMMA RcType ==
  ASSUME NEW f \in FrameType, NEW rc \in RCs
  PROVE  /\ [f EXCEPT !.rc = rc] \in FrameType
         /\ [f EXCEPT !.rc = rc].pc = f.pc /\ [f EXCEPT !.rc = rc].rc = rc
         /\ Kept([f EXCEPT !.rc = rc], f)
  BY DEF FrameType, Kept

\* A call begins at its first argument, with nothing.
LEMMA NewFrame ==
  ASSUME NEW kind \in Kinds, NEW dir \in Dirs, NEW todo \in Seq(Pkgs \cup {"here", "file"})
  PROVE  /\ Frame(kind, dir, todo) \in FrameType
         /\ Frame(kind, dir, todo).kind = kind /\ Frame(kind, dir, todo).dir = dir
         /\ Frame(kind, dir, todo).todo = todo /\ Frame(kind, dir, todo).pc = "next"
         /\ Frame(kind, dir, todo).rc = 0 /\ Frame(kind, dir, todo).name = 1
<1>1. <<>> \in Seq(Nat) /\ 1 \in DOMAIN ManifestNames
  BY DEF ManifestNames
<1> QED
  BY <1>1 DEF Frame, FrameType, RCs, Pcs

\* A record's fields.
LEMMA Fields ==
  ASSUME NEW f \in FrameType
  PROVE  /\ f.kind \in Kinds /\ f.dir \in Dirs /\ f.todo \in Seq(Pkgs \cup {"here", "file"})
         /\ f.pc \in Pcs /\ f.obj \in Nat /\ f.i \in Int /\ f.k \in Nat \ {0}
         /\ f.slots \in Seq(Nat) /\ f.rc \in RCs /\ f.name \in 1..2 /\ f.seen \in Int
  BY DEF FrameType, ManifestNames

\* main goes to pc.
LEMMA GoIs ==
  ASSUME StackType, NEW pc \in Pcs, Go(pc)
  PROVE  /\ stack' \in Seq(FrameType) /\ stack' # <<>>
         /\ Turned(Top') /\ Top' \in FrameType
         /\ Top'.pc = pc /\ Top'.rc = Top.rc /\ Kept(Top', Top)
<1>1. Top \in FrameType
  BY TopType
<1> DEFINE f == [Top EXCEPT !.pc = pc]
<1>2. f \in FrameType /\ f.pc = pc /\ f.rc = Top.rc /\ Kept(f, Top)
  BY <1>1, PcType
<1>3. PICK g \in FrameType : g = f
  BY <1>2
<1>4. Put(g)
  BY <1>3 DEF Go
<1>5. Turned(g) /\ stack' \in Seq(FrameType) /\ stack' # <<>>
  BY <1>4, PutIs
<1>6. Top' = g
  BY <1>5 DEF Turned
<1> HIDE DEF f
<1> QED
  BY <1>2, <1>3, <1>5, <1>6

\* clib_package_install is left with rc.
LEMMA LeaveIs ==
  ASSUME StackType, NEW rc \in RCs, Leave(rc)
  PROVE  /\ stack' \in Seq(FrameType) /\ stack' # <<>>
         /\ Turned(Top') /\ Top' \in FrameType
         /\ Top'.pc = "cleanup" /\ Top'.rc = rc /\ Kept(Top', Top)
<1>1. Top \in FrameType
  BY TopType
<1> DEFINE f == [Top EXCEPT !.pc = "cleanup", !.rc = rc]
<1>2. f \in FrameType /\ f.pc = "cleanup" /\ f.rc = rc /\ Kept(f, Top)
  BY <1>1 DEF FrameType, Kept, Pcs, ObjPcs
<1>3. PICK g \in FrameType : g = f
  BY <1>2
<1>4. Put(g)
  BY <1>3 DEF Leave
<1>5. Turned(g) /\ stack' \in Seq(FrameType) /\ stack' # <<>>
  BY <1>4, PutIs
<1>6. Top' = g
  BY <1>5 DEF Turned
<1> HIDE DEF f
<1> QED
  BY <1>2, <1>3, <1>5, <1>6

\* Inside clib_package_install the call is a list's or the command's, and it
\* has an object.
LEMMA Inside ==
  ASSUME Sound
  PROVE  /\ Top.pc \in ObjPcs \cup {"slug"} => Top.kind \in {"list", "command"}
         /\ Top.pc \in ObjPcs =>
                /\ Top.obj \in DOMAIN pkgs /\ pkgs[Top.obj] \in ObjectType
                /\ Pkg \in Pkgs /\ Place \in Dirs \X Pkgs /\ cat[Pkg] \in Manifest
<1>1. Top \in FrameType /\ Len(stack) \in DOMAIN stack /\ Top = stack[Len(stack)]
      /\ (Top.pc \in ObjPcs => Top.obj \in DOMAIN pkgs)
  BY TopType DEF Sound, Types
<1>2. Top.pc \in PcOf(Top.kind) /\ Top.kind \in Kinds
  BY <1>1, Fields DEF Sound, Shape, Framed
<1>3. Top.pc \in ObjPcs \cup {"slug"} => Top.kind \in {"list", "command"}
  BY <1>2 DEF PcOf, Kinds, ObjPcs, LoadPcs, Fresh, Unseen, Looking, Batch
<1>4. ASSUME Top.pc \in ObjPcs
      PROVE  /\ Top.obj \in DOMAIN pkgs /\ pkgs[Top.obj] \in ObjectType
             /\ Pkg \in Pkgs /\ Place \in Dirs \X Pkgs /\ cat[Pkg] \in Manifest
  <2>1. Top.obj \in DOMAIN pkgs /\ pkgs \in Seq(ObjectType)
    BY <1>1, <1>4 DEF Sound, Types
  <2>2. pkgs[Top.obj] \in ObjectType
    BY <2>1
  <2>3. Pkg \in Pkgs /\ Top.dir \in Dirs
    BY <1>1, <2>2, Fields DEF Pkg, ObjectType
  <2> QED
    BY <2>1, <2>2, <2>3 DEF Place, Sound, Types, GivenType
<1> QED
  BY <1>3, <1>4

\* Where a frame may be does not depend on more than its kind and depth.
LEMMA InnerFramed ==
  ASSUME NEW f, NEW g, NEW d \in Nat, Framed(f, d), g.kind = f.kind,
         f.kind \in {"list", "command"}, g.pc \in ObjPcs \ {"developed"}
  PROVE  Framed(g, d)
<1>1. g.pc \in PcOf(g.kind)
  BY DEF PcOf
<1>2. g.pc # "slug"
  BY DEF ObjPcs, LoadPcs, Fresh, Unseen, Looking, Batch
<1> QED
  BY <1>1, <1>2 DEF Framed

\* The frame changes that keep the shape of the stack.
LEMMA TurnShape ==
  ASSUME StackType, Shape, NEW f \in FrameType, Turned(f), stack' \in Seq(FrameType),
         f.kind = Top.kind, Framed(f, Len(stack))
  PROVE  Shape'
<1> PICK n \in Nat \ {0} : n = Len(stack)
  BY TopType
<1>1. DOMAIN stack = 1..n /\ DOMAIN stack' = 1..n /\ Top = stack[n] /\ Top' = stack'[n]
  BY TopType, LenProperties DEF Turned, Top
<1>2. stack'[n] = f /\ \A d \in 1..(n - 1) : stack'[d] = stack[d]
  BY <1>1 DEF Turned
<1>3. ASSUME NEW d \in 1..n PROVE Framed(stack'[d], d)
  <2>1. CASE d = n
    BY <1>2, <2>1
  <2>2. CASE d # n
    BY <1>1, <1>2, <2>2 DEF Shape
  <2> QED
    BY <2>1, <2>2
<1>4. ASSUME NEW d \in 1..n, d + 1 \in 1..n PROVE Link(stack'[d], stack'[d + 1])
  <2>0. d \in 1..(n - 1) /\ d + 1 \in 1..n
    BY <1>4
  <2>1. Link(stack[d], stack[d + 1]) /\ stack'[d] = stack[d]
    BY <1>1, <1>2, <2>0 DEF Shape
  <2>2. stack'[d + 1].kind = stack[d + 1].kind
    BY <1>1, <1>2, <1>4
  <2> QED
    BY <2>1, <2>2 DEF Link
<1>5. (\A d \in DOMAIN stack' : Framed(stack'[d], d))
      /\ (\A d \in DOMAIN stack' : d + 1 \in DOMAIN stack' => Link(stack'[d], stack'[d + 1]))
  BY <1>1, <1>3, <1>4
<1> QED
  BY <1>5 DEF Shape, Framed, Link

\* The shape when a call is made.
LEMMA CallShape ==
  ASSUME StackType, Shape, NEW pc \in Pcs, NEW f \in FrameType, Called(pc, f),
         stack' \in Seq(FrameType),
         Framed([Top EXCEPT !.pc = pc], Len(stack)), Framed(f, Len(stack) + 1),
         Link([Top EXCEPT !.pc = pc], f)
  PROVE  Shape'
<1> PICK n \in Nat \ {0} : n = Len(stack)
  BY TopType
<1>0. PICK t \in FrameType : t = [Top EXCEPT !.pc = pc]
  BY TopType, PcType
<1>1. DOMAIN stack = 1..n /\ DOMAIN stack' = 1..(n + 1) /\ Top = stack[n] /\ Top' = stack'[n + 1]
  BY TopType, LenProperties DEF Called, Top
<1>2. stack'[n + 1] = f /\ stack'[n] = t /\ t.kind = stack[n].kind
      /\ \A d \in 1..(n - 1) : stack'[d] = stack[d]
  BY <1>0, <1>1, TopType, PcType DEF Called, Kept
<1>3. ASSUME NEW d \in 1..(n + 1) PROVE Framed(stack'[d], d)
  <2>1. CASE d = n + 1
    BY <1>2, <2>1
  <2>2. CASE d = n
    BY <1>0, <1>2, <2>2
  <2>3. CASE d # n /\ d # n + 1
    BY <1>1, <1>2, <2>3 DEF Shape
  <2> QED
    BY <2>1, <2>2, <2>3
<1>4. ASSUME NEW d \in 1..(n + 1), d + 1 \in 1..(n + 1) PROVE Link(stack'[d], stack'[d + 1])
  <2>1. CASE d = n
    BY <1>0, <1>2, <2>1
  <2>2. CASE d # n
    <3>1. Link(stack[d], stack[d + 1]) /\ stack'[d] = stack[d]
      BY <1>1, <1>2, <1>4, <2>2 DEF Shape
    <3>2. stack'[d + 1].kind = stack[d + 1].kind
      BY <1>1, <1>2, <1>4, <2>2
    <3> QED
      BY <3>1, <3>2 DEF Link
  <2> QED
    BY <2>1, <2>2
<1>5. (\A d \in DOMAIN stack' : Framed(stack'[d], d))
      /\ (\A d \in DOMAIN stack' : d + 1 \in DOMAIN stack' => Link(stack'[d], stack'[d + 1]))
  BY <1>1, <1>3, <1>4
<1> QED
  BY <1>5 DEF Shape, Framed, Link

\* The shape when a call returns.
LEMMA PopShape ==
  ASSUME StackType, Shape, NEW rc \in RCs, Popped(rc), stack' \in Seq(FrameType),
         stack[Len(stack) - 1].kind = "alone" => rc \in {0, 1}
  PROVE  Shape'
<1> PICK n \in Nat \ {0} : n = Len(stack)
  BY TopType
<1>1. n > 1 /\ DOMAIN stack = 1..n /\ DOMAIN stack' = 1..(n - 1) /\ Top' = stack'[n - 1]
      /\ stack[n - 1] \in FrameType
  BY TopType, LenProperties DEF Popped, Top
<1>0. PICK t \in FrameType : t = [stack[n - 1] EXCEPT !.rc = rc]
  BY <1>1, RcType
<1>2. stack'[n - 1] = t /\ t.kind = stack[n - 1].kind /\ t.pc = stack[n - 1].pc /\ t.todo = stack[n - 1].todo
      /\ t.rc = rc /\ \A d \in 1..(n - 2) : stack'[d] = stack[d]
  BY <1>0, <1>1, RcType DEF Popped, Kept
<1>3. ASSUME NEW d \in 1..(n - 1) PROVE Framed(stack'[d], d)
  <2>0. Framed(stack[d], d)
    BY <1>1 DEF Shape
  <2>1. CASE d = n - 1
    BY <1>2, <2>0, <2>1 DEF Framed
  <2>2. CASE d # n - 1
    <3>1. d \in 1..(n - 2)
      BY <1>1, <2>2
    <3> QED
      BY <1>2, <2>0, <3>1
  <2> QED
    BY <2>1, <2>2
<1>4. ASSUME NEW d \in 1..(n - 1), d + 1 \in 1..(n - 1) PROVE Link(stack'[d], stack'[d + 1])
  <2>1. Link(stack[d], stack[d + 1]) /\ stack'[d] = stack[d]
    BY <1>1, <1>2, <1>4 DEF Shape
  <2>2. stack'[d + 1].kind = stack[d + 1].kind
    <3>1. CASE d + 1 = n - 1
      BY <1>2, <3>1
    <3>2. CASE d + 1 # n - 1
      <4>1. d + 1 \in 1..(n - 2)
        BY <1>4, <3>2
      <4> QED
        BY <1>2, <4>1
    <3> QED
      BY <3>1, <3>2
  <2> QED
    BY <2>1, <2>2 DEF Link
<1>5. (\A d \in DOMAIN stack' : Framed(stack'[d], d))
      /\ (\A d \in DOMAIN stack' : d + 1 \in DOMAIN stack' => Link(stack'[d], stack'[d + 1]))
  BY <1>1, <1>3, <1>4
<1> QED
  BY <1>5 DEF Shape, Framed, Link

-----------------------------------------------------------------------------
(* What keeps the types, the stack's shape and the library's place.        *)

\* A sequence with one element replaced.
LEMMA ReplaceType ==
  ASSUME NEW S, NEW s \in Seq(S), NEW n \in DOMAIN s, NEW x \in S, NEW t, t = [s EXCEPT ![n] = x]
  PROVE  /\ t \in Seq(S) /\ DOMAIN t = DOMAIN s /\ Len(t) = Len(s)
         /\ t[n] = x /\ \A m \in DOMAIN s : m # n => t[m] = s[m]
<1>1. DOMAIN s = 1..Len(s) /\ Len(s) \in Nat
  BY LenProperties
<1>2. \A m \in DOMAIN s : t[m] = IF m = n THEN x ELSE s[m]
  OBVIOUS
<1>3. t \in [1..Len(s) -> S]
  BY <1>1
<1>4. t \in Seq(S) /\ Len(t) = Len(s)
  BY <1>1, <1>3
<1> QED
  BY <1>2, <1>4

\* Calls that stand still stay sound.
LEMMA SameStack ==
  ASSUME Sound, UNCHANGED stack, DOMAIN pkgs \subseteq DOMAIN pkgs'
  PROVE  StackType' /\ Shape'
<1>1. StackType'
  BY DEF Sound, Types, StackType
<1>2. Shape'
  BY DEF Sound, Shape, Framed, Link
<1> QED
  BY <1>1, <1>2

\* The innermost call goes on.
LEMMA TurnSound ==
  ASSUME Sound, stack' \in Seq(FrameType), stack' # <<>>, Turned(Top'), Top' \in FrameType,
         Top'.kind = Top.kind, Framed(Top', Len(stack)),
         Top'.pc \in ObjPcs => Top'.obj \in DOMAIN pkgs', DOMAIN pkgs \subseteq DOMAIN pkgs'
  PROVE  StackType' /\ Shape'
<1> PICK n \in Nat \ {0} : n = Len(stack)
  BY TopType DEF Sound, Types
<1>1. DOMAIN stack' = 1..n /\ DOMAIN stack = 1..n /\ Top' = stack'[n]
  BY TopType, LenProperties DEF Turned, Top, Sound, Types
<1>2. ASSUME NEW d \in DOMAIN stack', stack'[d].pc \in ObjPcs PROVE stack'[d].obj \in DOMAIN pkgs'
  <2>1. CASE d = n
    BY <1>1, <1>2, <2>1
  <2>2. CASE d # n
    <3>1. d \in 1..(n - 1) /\ d \in DOMAIN stack
      BY <1>1, <2>2
    <3>2. stack'[d] = stack[d]
      BY <3>1 DEF Turned
    <3> QED
      BY <1>2, <3>1, <3>2 DEF Sound, Types, StackType
  <2> QED
    BY <2>1, <2>2
<1>3. StackType'
  BY <1>2 DEF StackType
<1>4. PICK f \in FrameType : f = Top'
  OBVIOUS
<1>5. Shape'
  BY <1>4, TurnShape DEF Sound, Types
<1> QED
  BY <1>3, <1>5

\* A call is made.
LEMMA CallSound ==
  ASSUME Sound, NEW pc \in Pcs, NEW f \in FrameType, Called(pc, f),
         stack' \in Seq(FrameType), stack' # <<>>,
         Framed([Top EXCEPT !.pc = pc], Len(stack)), Framed(f, Len(stack) + 1),
         Link([Top EXCEPT !.pc = pc], f),
         pc \in ObjPcs => Top.obj \in DOMAIN pkgs, f.pc = "next", UNCHANGED pkgs
  PROVE  StackType' /\ Shape'
<1> PICK n \in Nat \ {0} : n = Len(stack)
  BY TopType DEF Sound, Types
<1>0. PICK t \in FrameType : t = [Top EXCEPT !.pc = pc]
  BY TopType, PcType DEF Sound, Types
<1>00. t.pc = pc /\ t.obj = Top.obj
  BY <1>0, TopType, PcType DEF Sound, Types, Kept
<1>1. DOMAIN stack' = 1..(n + 1) /\ DOMAIN stack = 1..n /\ f = stack'[n + 1] /\ stack'[n] = t
  BY <1>0, TopType, LenProperties DEF Called, Top, Sound, Types
<1>2. ASSUME NEW d \in DOMAIN stack', stack'[d].pc \in ObjPcs PROVE stack'[d].obj \in DOMAIN pkgs'
  <2>1. CASE d = n + 1
    BY <1>1, <1>2, <2>1 DEF ObjPcs, LoadPcs, Fresh, Unseen, Looking, Batch
  <2>2. CASE d = n
    BY <1>00, <1>1, <1>2, <2>2
  <2>3. CASE d # n /\ d # n + 1
    <3>1. d \in 1..(n - 1) /\ d \in DOMAIN stack
      BY <1>1, <2>3
    <3>2. stack'[d] = stack[d]
      BY <3>1 DEF Called
    <3> QED
      BY <1>2, <3>1, <3>2 DEF Sound, Types, StackType
  <2> QED
    BY <2>1, <2>2, <2>3
<1>3. StackType'
  BY <1>2 DEF StackType
<1>5. Shape'
  BY CallShape DEF Sound, Types
<1> QED
  BY <1>3, <1>5

\* A call returns.
LEMMA PopSound ==
  ASSUME Sound, NEW rc \in RCs, Popped(rc), stack' \in Seq(FrameType), stack' # <<>>,
         stack[Len(stack) - 1].kind = "alone" => rc \in {0, 1},
         DOMAIN pkgs \subseteq DOMAIN pkgs'
  PROVE  StackType' /\ Shape'
<1> PICK n \in Nat \ {0} : n = Len(stack)
  BY TopType DEF Sound, Types
<1>1. n > 1 /\ DOMAIN stack = 1..n /\ DOMAIN stack' = 1..(n - 1) /\ Top' = stack'[n - 1]
      /\ stack[n - 1] \in FrameType
  BY TopType, LenProperties DEF Popped, Top, Sound, Types
<1>0. PICK t \in FrameType : t = [stack[n - 1] EXCEPT !.rc = rc]
  BY <1>1, RcType
<1>00. t.pc = stack[n - 1].pc /\ t.obj = stack[n - 1].obj /\ stack'[n - 1] = t
  BY <1>0, <1>1, RcType DEF Kept, Popped
<1>2. ASSUME NEW d \in DOMAIN stack', stack'[d].pc \in ObjPcs PROVE stack'[d].obj \in DOMAIN pkgs'
  <2>1. CASE d = n - 1
    BY <1>00, <1>1, <1>2, <2>1 DEF Sound, Types, StackType
  <2>2. CASE d # n - 1
    <3>1. d \in 1..(n - 2) /\ d \in DOMAIN stack
      BY <1>1, <2>2
    <3>2. stack'[d] = stack[d]
      BY <3>1 DEF Popped
    <3> QED
      BY <1>2, <3>1, <3>2 DEF Sound, Types, StackType
  <2> QED
    BY <2>1, <2>2
<1>3. StackType'
  BY <1>2 DEF StackType
<1>5. Shape'
  BY PopShape DEF Sound, Types
<1> QED
  BY <1>3, <1>5

\* Threads that nobody touched, and the mutex taken or left by main.
LEMMA SameThreads ==
  ASSUME Sound, UNCHANGED fetch, lock' \in {lock, NoThread, Main}, DOMAIN pkgs \subseteq DOMAIN pkgs'
  PROVE  ThreadsType'
  BY DEF Sound, Types, ThreadsType

\* A step inside clib_package_install.
LEMMA InnerSound ==
  ASSUME Sound, stack' \in Seq(FrameType), stack' # <<>>, Turned(Top'), Top' \in FrameType,
         Top.pc \in ObjPcs, Top'.pc \in ObjPcs \ {"developed"},
         Top'.kind = Top.kind, Top'.obj = Top.obj,
         DOMAIN pkgs \subseteq DOMAIN pkgs', UNCHANGED get
  PROVE  StackType' /\ Shape' /\ Slugs'
<1>1. Top.kind \in {"list", "command"} /\ Top.obj \in DOMAIN pkgs
  BY Inside
<1>2. Len(stack) \in DOMAIN stack /\ Len(stack) \in Nat /\ Top = stack[Len(stack)]
  BY TopType DEF Sound, Types
<1>3. Framed(Top, Len(stack))
  BY <1>2 DEF Sound, Shape
<1>4. Framed(Top', Len(stack))
  BY <1>1, <1>2, <1>3, InnerFramed
<1>5. StackType' /\ Shape'
  BY <1>1, <1>4, TurnSound
<1>6. Top.pc # "slug" /\ Top'.pc # "slug"
  BY DEF ObjPcs, LoadPcs, Fresh, Unseen, Looking, Batch
<1>7. Slugs'
  BY <1>6 DEF Sound, Slugs
<1> QED
  BY <1>5, <1>7

\* The packages, when one changes and when some are freed.
LEMMA ObjectType1 ==
  ASSUME NEW p \in ObjectType
  PROVE  /\ \A r \in Int : [p EXCEPT !.refs = r] \in ObjectType
         /\ \A r \in RCs : [p EXCEPT !.rc = r] \in ObjectType
         /\ \A v \in {"none", "live", "freed"} : [p EXCEPT !.name = v] \in ObjectType
         /\ [p EXCEPT !.freed = TRUE] \in ObjectType
         /\ p.pkg \in Pkgs /\ p.refs \in Int /\ p.dir \in Dirs /\ p.rc \in RCs /\ p.freed \in BOOLEAN
  BY DEF ObjectType

\* What clib_package_free marks are objects still.
LEMMA FreedType ==
  ASSUME pkgs \in Seq(ObjectType), NEW objs
  PROVE  /\ Freed(objs) \in Seq(ObjectType) /\ DOMAIN Freed(objs) = DOMAIN pkgs
         /\ \A o \in DOMAIN pkgs :
                /\ Freed(objs)[o].pkg = pkgs[o].pkg /\ Freed(objs)[o].dir = pkgs[o].dir
                /\ Freed(objs)[o].refs = pkgs[o].refs /\ Freed(objs)[o].name = pkgs[o].name
                /\ Freed(objs)[o].rc = pkgs[o].rc
                /\ Freed(objs)[o].freed => pkgs[o].freed \/ pkgs[o].refs = 0
<1>1. DOMAIN pkgs = 1..Len(pkgs) /\ Len(pkgs) \in Nat
  BY LenProperties
<1> DEFINE g(o) == IF o \in objs /\ pkgs[o].refs = 0 THEN [pkgs[o] EXCEPT !.freed = TRUE] ELSE pkgs[o]
<1>2. \A o \in DOMAIN pkgs :
         /\ g(o) \in ObjectType /\ g(o).pkg = pkgs[o].pkg /\ g(o).dir = pkgs[o].dir
         /\ g(o).refs = pkgs[o].refs /\ g(o).name = pkgs[o].name /\ g(o).rc = pkgs[o].rc
         /\ g(o).freed => pkgs[o].freed \/ pkgs[o].refs = 0
  <2> SUFFICES ASSUME NEW o \in DOMAIN pkgs
               PROVE /\ g(o) \in ObjectType /\ g(o).pkg = pkgs[o].pkg /\ g(o).dir = pkgs[o].dir
                     /\ g(o).refs = pkgs[o].refs /\ g(o).name = pkgs[o].name /\ g(o).rc = pkgs[o].rc
                     /\ g(o).freed => pkgs[o].freed \/ pkgs[o].refs = 0
    OBVIOUS
  <2>1. pkgs[o] \in ObjectType
    OBVIOUS
  <2>2. CASE o \in objs /\ pkgs[o].refs = 0
    <3>1. g(o) = [pkgs[o] EXCEPT !.freed = TRUE]
      BY <2>2
    <3> QED
      BY <2>1, <2>2, <3>1, ObjectType1 DEF ObjectType
  <2>3. CASE ~(o \in objs /\ pkgs[o].refs = 0)
    <3>1. g(o) = pkgs[o]
      BY <2>3
    <3> QED
      BY <2>1, <3>1
  <2> QED
    BY <2>2, <2>3
<1>3. Freed(objs) = [o \in DOMAIN pkgs |-> g(o)]
  BY DEF Freed
<1> HIDE DEF g
<1>4. Freed(objs) \in [1..Len(pkgs) -> ObjectType] /\ \A o \in DOMAIN pkgs : Freed(objs)[o] = g(o)
  BY <1>1, <1>2, <1>3
<1>5. Freed(objs) \in Seq(ObjectType) /\ DOMAIN Freed(objs) = DOMAIN pkgs
  BY <1>1, <1>4
<1> QED
  BY <1>2, <1>4, <1>5

-----------------------------------------------------------------------------
(* Each step of clib_package_install keeps them.                           *)

\* The points are points.
LEMMA Points ==
  /\ LoadPcs \subseteq ObjPcs /\ ObjPcs \subseteq Pcs
  /\ "slug" \notin ObjPcs /\ "next" \notin ObjPcs /\ "end" \notin ObjPcs
  /\ "developed" \notin LoadPcs /\ "returned" \notin LoadPcs
  /\ {"test", "tested", "prepare", "mark", "marked", "make", "makefetch", "makewait", "look",
      "looked", "download", "fetch", "drain", "store", "stored"} = LoadPcs
  /\ {"configure", "exec", "unpacked", "deps", "depsdone", "cleanup", "returned"}
       \subseteq ObjPcs \ {"developed"}
  BY DEF Pcs, ObjPcs, LoadPcs, Fresh, Unseen, Looking, Batch

\* Where the sources lead.
LEMMA SourcesIs == Sources \in {"configure", "look"}
  BY DEF Sources

\* EnterSection keeps the types, the shape and the library's place.
LEMMA EnterSectionSound ==
  ASSUME Sound, EnterSection
  PROVE  Sound'
<1>1. Top.pc \in {"test", "mark", "look", "store"} /\ Section[Top.pc] \in {"tested", "marked", "looked", "stored"}
  BY DEF EnterSection, Section
<1>2. PICK pc \in {"tested", "marked", "looked", "stored"} : pc = Section[Top.pc]
  BY <1>1
<1>3. Go(pc)
  BY <1>2 DEF EnterSection
<1>4. StackType' /\ Shape' /\ Slugs'
  <2>1. /\ stack' \in Seq(FrameType) /\ stack' # <<>>
        /\ Turned(Top') /\ Top' \in FrameType
        /\ Top'.pc = pc /\ Kept(Top', Top)
    BY <1>3, GoIs, Points DEF Sound, Types
  <2>2. UNCHANGED <<pkgs, get>>
    BY DEF EnterSection, Installing
  <2> QED
    BY <1>1, <2>1, <2>2, Points, InnerSound DEF Kept
<1>5. ThreadsType'
  BY SameThreads DEF EnterSection, Installing
<1> QED
  BY <1>4, <1>5 DEF EnterSection, Installing, MainUnchanged, Sound, Types, GivenType, DataType, CallType

\* main goes from one point of it to another.
LEMMA InnerGo ==
  ASSUME Sound, Top.pc \in ObjPcs, NEW pc \in ObjPcs \ {"developed"}, Go(pc),
         DOMAIN pkgs \subseteq DOMAIN pkgs', UNCHANGED get
  PROVE  StackType' /\ Shape' /\ Slugs'
<1>1. /\ stack' \in Seq(FrameType) /\ stack' # <<>>
      /\ Turned(Top') /\ Top' \in FrameType
      /\ Top'.pc = pc /\ Kept(Top', Top)
  BY GoIs, Points DEF Sound, Types
<1> QED
  BY <1>1, InnerSound DEF Kept

\* main leaves it.
LEMMA InnerLeave ==
  ASSUME Sound, Top.pc \in ObjPcs, NEW rc \in RCs, Leave(rc),
         DOMAIN pkgs \subseteq DOMAIN pkgs', UNCHANGED get
  PROVE  StackType' /\ Shape' /\ Slugs'
<1>1. /\ stack' \in Seq(FrameType) /\ stack' # <<>>
      /\ Turned(Top') /\ Top' \in FrameType
      /\ Top'.pc = "cleanup" /\ Kept(Top', Top)
  BY LeaveIs DEF Sound, Types
<1> QED
  BY <1>1, Points, InnerSound DEF Kept

\* A fault is one more.
LEMMA FaultIs ==
  ASSUME Sound, Fault
  PROVE  faults' \in Nat /\ faults' = faults + 1 /\ faults' # 0
  BY DEF Fault, Sound, Types, CallType

\* Tested keeps the types, the shape and the library's place.
LEMMA TestedSound ==
  ASSUME Sound, Tested
  PROVE  Sound'
<1>1. UNCHANGED <<pkgs, get, fetch>> /\ lock' = NoThread
  BY DEF Tested, Installing
<1>2. StackType' /\ Shape' /\ Slugs'
  <2>1. Top.pc \in ObjPcs
    BY Points DEF Tested, MainAt
  <2>2. CASE Pkg \in visited
    BY <1>1, <2>1, <2>2, InnerGo, Points DEF Tested
  <2>3. CASE Pkg \notin visited
    BY <1>1, <2>1, <2>3, InnerGo, Points DEF Tested
  <2> QED
    BY <2>2, <2>3
<1>3. ThreadsType'
  BY <1>1, SameThreads
<1> QED
  BY <1>2, <1>3 DEF Tested, Installing, MainUnchanged, Sound, Types, GivenType, DataType, CallType

\* The package's object with another name, count or result.
LEMMA ObjectChange ==
  ASSUME pkgs \in Seq(ObjectType), NEW o \in DOMAIN pkgs, NEW x \in ObjectType,
         pkgs' = [pkgs EXCEPT ![o] = x]
  PROVE  /\ pkgs' \in Seq(ObjectType) /\ DOMAIN pkgs' = DOMAIN pkgs /\ Len(pkgs') = Len(pkgs)
         /\ pkgs'[o] = x /\ \A q \in DOMAIN pkgs : q # o => pkgs'[q] = pkgs[q]
  BY ReplaceType

\* An object with another name is an object.
LEMMA NameIs ==
  ASSUME Sound, NEW o \in DOMAIN pkgs, NEW v \in {"none", "live", "freed"},
         pkgs' = [pkgs EXCEPT ![o].name = v]
  PROVE  /\ pkgs' \in Seq(ObjectType) /\ DOMAIN pkgs' = DOMAIN pkgs
         /\ pkgs'[o] = [pkgs[o] EXCEPT !.name = v]
         /\ \A q \in DOMAIN pkgs : q # o => pkgs'[q] = pkgs[q]
<1>1. pkgs \in Seq(ObjectType) /\ pkgs[o] \in ObjectType
  BY DEF Sound, Types
<1>2. PICK x \in ObjectType : x = [pkgs[o] EXCEPT !.name = v]
  BY <1>1, ObjectType1
<1>3. pkgs' = [pkgs EXCEPT ![o] = x]
  BY <1>2
<1> QED
  BY <1>1, <1>2, <1>3, ObjectChange

\* An object with other refs is an object.
LEMMA RefsIs ==
  ASSUME Sound, NEW o \in DOMAIN pkgs, NEW r \in Int,
         pkgs' = [pkgs EXCEPT ![o].refs = r]
  PROVE  /\ pkgs' \in Seq(ObjectType) /\ DOMAIN pkgs' = DOMAIN pkgs
         /\ pkgs'[o] = [pkgs[o] EXCEPT !.refs = r]
         /\ \A q \in DOMAIN pkgs : q # o => pkgs'[q] = pkgs[q]
<1>1. pkgs \in Seq(ObjectType) /\ pkgs[o] \in ObjectType
  BY DEF Sound, Types
<1>2. PICK x \in ObjectType : x = [pkgs[o] EXCEPT !.refs = r]
  BY <1>1, ObjectType1
<1>3. pkgs' = [pkgs EXCEPT ![o] = x]
  BY <1>2
<1> QED
  BY <1>1, <1>2, <1>3, ObjectChange

\* An object with a result is an object.
LEMMA RcIs ==
  ASSUME Sound, NEW o \in DOMAIN pkgs, NEW r \in RCs, NEW objs,
         pkgs' = [pkgs EXCEPT ![o].rc = r] \/ pkgs' = [Freed(objs) EXCEPT ![o].rc = r]
  PROVE  /\ pkgs' \in Seq(ObjectType) /\ DOMAIN pkgs' = DOMAIN pkgs
         /\ \A q \in DOMAIN pkgs :
                /\ pkgs'[q].pkg = pkgs[q].pkg /\ pkgs'[q].dir = pkgs[q].dir
                /\ pkgs'[q].refs = pkgs[q].refs /\ pkgs'[q].name = pkgs[q].name
                /\ pkgs'[q].rc = (IF q = o THEN r ELSE pkgs[q].rc)
                /\ pkgs'[q].freed => pkgs[q].freed \/ pkgs[q].refs = 0
<1>1. pkgs \in Seq(ObjectType)
  BY DEF Sound, Types
<1>2. PICK s \in Seq(ObjectType) :
         /\ DOMAIN s = DOMAIN pkgs /\ pkgs' = [s EXCEPT ![o].rc = r]
         /\ \A q \in DOMAIN pkgs :
                /\ s[q].pkg = pkgs[q].pkg /\ s[q].dir = pkgs[q].dir
                /\ s[q].refs = pkgs[q].refs /\ s[q].name = pkgs[q].name /\ s[q].rc = pkgs[q].rc
                /\ s[q].freed => pkgs[q].freed \/ pkgs[q].refs = 0
  <2>1. CASE pkgs' = [pkgs EXCEPT ![o].rc = r]
    BY <1>1, <2>1
  <2>2. CASE pkgs' = [Freed(objs) EXCEPT ![o].rc = r]
    BY <1>1, <2>2, FreedType
  <2> QED
    BY <2>1, <2>2
<1>3. s[o] \in ObjectType
  BY <1>2
<1>4. PICK x \in ObjectType : x = [s[o] EXCEPT !.rc = r]
  BY <1>3, ObjectType1
<1>5. x.pkg = s[o].pkg /\ x.dir = s[o].dir /\ x.refs = s[o].refs /\ x.name = s[o].name
      /\ x.rc = r /\ x.freed = s[o].freed
  BY <1>3, <1>4 DEF ObjectType
<1>6. pkgs' = [s EXCEPT ![o] = x]
  BY <1>2, <1>4
<1>7. /\ pkgs' \in Seq(ObjectType) /\ DOMAIN pkgs' = DOMAIN s
      /\ pkgs'[o] = x /\ \A q \in DOMAIN s : q # o => pkgs'[q] = s[q]
  <2>1. o \in DOMAIN s
    BY <1>2
  <2> QED
    BY <1>6, <2>1, ReplaceType
<1>8. ASSUME NEW q \in DOMAIN pkgs
      PROVE  /\ pkgs'[q].pkg = pkgs[q].pkg /\ pkgs'[q].dir = pkgs[q].dir
             /\ pkgs'[q].refs = pkgs[q].refs /\ pkgs'[q].name = pkgs[q].name
             /\ pkgs'[q].rc = (IF q = o THEN r ELSE pkgs[q].rc)
             /\ pkgs'[q].freed => pkgs[q].freed \/ pkgs[q].refs = 0
  <2>1. CASE q = o
    BY <1>2, <1>5, <1>7, <2>1
  <2>2. CASE q # o
    BY <1>2, <1>7, <2>2
  <2> QED
    BY <2>1, <2>2
<1> QED
  BY <1>2, <1>7, <1>8

\* Prepare keeps the types, the shape and the library's place.
LEMMA PrepareSound ==
  ASSUME Sound, Prepare
  PROVE  Sound'
<1>1. UNCHANGED <<get, fetch, lock>> /\ Top.pc \in ObjPcs /\ Top.obj \in DOMAIN pkgs
  BY Points, Inside DEF Prepare, Installing, MainAt
<1>2. pkgs' \in Seq(ObjectType) /\ DOMAIN pkgs' = DOMAIN pkgs
  BY <1>1, NameIs DEF Prepare
<1>3. StackType' /\ Shape' /\ Slugs' /\ faults' \in Nat
  <2>1. CASE Go("mark") /\ UNCHANGED faults
    BY <1>1, <1>2, <2>1, InnerGo, Points DEF Sound, Types, CallType
  <2>2. CASE Fault /\ Leave(-1)
    BY <1>1, <1>2, <2>2, InnerLeave, FaultIs DEF RCs
  <2> QED
    BY <2>1, <2>2 DEF Prepare
<1>4. ThreadsType'
  BY <1>1, <1>2, SameThreads
<1> QED
  BY <1>2, <1>3, <1>4 DEF Prepare, Installing, MainUnchanged, Sound, Types, GivenType, DataType, CallType

\* Marked keeps the types, the shape and the library's place.
LEMMA MarkedSound ==
  ASSUME Sound, Marked
  PROVE  Sound'
<1>1. UNCHANGED <<get, fetch, pkgs>> /\ lock' = NoThread /\ Top.pc \in ObjPcs
  BY Points DEF Marked, Installing, MainAt
<1>2. StackType' /\ Shape' /\ Slugs'
  <2>1. CASE ~opts.global /\ cat[Pkg].makefile # "none"
    BY <1>1, <2>1, InnerGo, Points DEF Marked
  <2>2. CASE ~(~opts.global /\ cat[Pkg].makefile # "none")
    <3>1. PICK pc \in {"configure", "look"} : pc = Sources
      BY SourcesIs
    <3>2. Go(pc)
      BY <2>2, <3>1 DEF Marked
    <3> QED
      BY <1>1, <3>2, InnerGo, Points
  <2> QED
    BY <2>1, <2>2
<1>3. ThreadsType'
  BY <1>1, SameThreads
<1>4. visited' \subseteq Pkgs
  BY <1>1, Inside DEF Marked, Sound, Types, DataType
<1> QED
  BY <1>1, <1>2, <1>3, <1>4 DEF Marked, Installing, MainUnchanged, Sound, Types, GivenType, DataType, CallType

\* main notes the count of references.
LEMMA ReferenceIs ==
  ASSUME Sound, Reference
  PROVE  /\ Top.pc \in {"make", "download"} /\ Top.pc \in ObjPcs
         /\ Top.pc = "download" => Top.k <= Len(Src(Pkg))
         /\ stack' \in Seq(FrameType) /\ stack' # <<>> /\ Turned(Top') /\ Top' \in FrameType
         /\ Top'.pc = (IF Top.pc = "make" THEN "makefetch" ELSE "fetch")
         /\ Same(Top', Top) /\ Top'.rc = Top.rc
         /\ Top'.i = Top.i /\ Top'.k = Top.k /\ Top'.slots = Top.slots
         /\ Top'.seen = pkgs[Top.obj].refs
         /\ UNCHANGED <<pkgVars, fetch, pkgs, visited, disk, cache, unmade>>
<1>1. /\ Top.pc \in {"make", "download"} /\ Top.pc \in ObjPcs
      /\ (Top.pc = "download" => Top.k <= Len(Src(Pkg)))
      /\ UNCHANGED <<pkgVars, fetch, pkgs, visited, disk, cache, unmade>>
  BY Points DEF Reference, Installing, MainAt
<1>2. Top \in FrameType /\ pkgs[Top.obj].refs \in Int
  BY <1>1, TopType, Inside DEF Sound, Types, ObjectType
<1>3. PICK pc \in {"makefetch", "fetch"} : pc = IF Top.pc = "make" THEN "makefetch" ELSE "fetch"
  BY <1>1
<1>4. PICK r \in Int : r = pkgs[Top.obj].refs
  BY <1>2
<1> DEFINE f == [Top EXCEPT !.pc = pc, !.seen = r]
<1>5. f \in FrameType /\ f.pc = pc /\ Same(f, Top) /\ f.rc = Top.rc
      /\ f.i = Top.i /\ f.k = Top.k /\ f.slots = Top.slots /\ f.seen = r
  <2>1. pc \in Pcs
    BY Points
  <2> QED
    BY <1>2, <2>1 DEF FrameType, Same
<1>6. Put(f)
  BY <1>3, <1>4 DEF Reference
<1> HIDE DEF f
<1>7. Turned(f) /\ stack' \in Seq(FrameType) /\ stack' # <<>>
  BY <1>5, <1>6, PutIs DEF Sound, Types
<1>8. Top' = f
  BY <1>7 DEF Turned
<1> QED
  BY <1>1, <1>3, <1>4, <1>5, <1>7, <1>8

\* Reference keeps the types, the shape and the library's place.
LEMMA ReferenceSound ==
  ASSUME Sound, Reference
  PROVE  Sound'
<1>1. /\ Top.pc \in ObjPcs /\ stack' \in Seq(FrameType) /\ stack' # <<>> /\ Turned(Top')
      /\ Top' \in FrameType /\ Top'.pc \in {"makefetch", "fetch"}
      /\ Top'.kind = Top.kind /\ Top'.obj = Top.obj
      /\ UNCHANGED <<pkgVars, fetch, pkgs, visited, disk, cache, unmade>>
  BY ReferenceIs DEF Same
<1>2. UNCHANGED <<get, lock>>
  BY <1>1 DEF pkgVars
<1>3. StackType' /\ Shape' /\ Slugs'
  BY <1>1, <1>2, InnerSound, Points
<1>4. ThreadsType'
  BY <1>1, <1>2, SameThreads
<1> QED
  BY <1>1, <1>3, <1>4
     DEF Reference, Installing, MainUnchanged, pkgVars, Sound, Types, GivenType, DataType, CallType

\* The thread that is made.
LEMMA NewThread ==
  ASSUME Sound, Top.pc \in ObjPcs, NEW path \in Paths,
         fetch' = Append(fetch, [obj |-> Top.obj, path |-> path, pc |-> "start", seen |-> 0])
  PROVE  /\ fetch' \in Seq(ThreadType) /\ Len(fetch') = Len(fetch) + 1 /\ Len(fetch) \in Nat
         /\ DOMAIN fetch = 1..Len(fetch) /\ DOMAIN fetch' = 1..(Len(fetch) + 1)
         /\ \A n \in DOMAIN fetch : fetch'[n] = fetch[n]
         /\ fetch'[Len(fetch) + 1] = [obj |-> Top.obj, path |-> path, pc |-> "start", seen |-> 0]
<1>1. Top.obj \in Nat /\ fetch \in Seq(ThreadType)
  BY TopType, Fields DEF Sound, Types, ThreadsType
<1>2. PICK t \in ThreadType : t = [obj |-> Top.obj, path |-> path, pc |-> "start", seen |-> 0]
  BY <1>1 DEF ThreadType, ThreadPcs
<1>3. fetch' = Append(fetch, t)
  BY <1>2
<1>4. Len(fetch) \in Nat /\ DOMAIN fetch = 1..Len(fetch)
  BY <1>1, LenProperties
<1>5. /\ fetch' \in Seq(ThreadType) /\ Len(fetch') = Len(fetch) + 1
      /\ \A n \in 1..Len(fetch) : fetch'[n] = fetch[n]
      /\ fetch'[Len(fetch) + 1] = t
  BY <1>1, <1>3, AppendProperties
<1>6. DOMAIN fetch' = 1..(Len(fetch) + 1)
  BY <1>5, LenProperties
<1> QED
  BY <1>2, <1>4, <1>5, <1>6

\* Its types, with the package's object counted once more.
LEMMA NewThreadSound ==
  ASSUME Sound, Top.pc \in ObjPcs, NEW path \in Paths, NewFetch(path), UNCHANGED lock
  PROVE  /\ ThreadsType' /\ pkgs' \in Seq(ObjectType) /\ DOMAIN pkgs' = DOMAIN pkgs
         /\ pkgs'[Top.obj] = [pkgs[Top.obj] EXCEPT !.refs = Top.seen + 1]
         /\ \A q \in DOMAIN pkgs : q # Top.obj => pkgs'[q] = pkgs[q]
<1>1. Top.obj \in DOMAIN pkgs /\ Top.seen + 1 \in Int
  BY Inside, TopType, Fields DEF Sound, Types
<1>2. /\ pkgs' \in Seq(ObjectType) /\ DOMAIN pkgs' = DOMAIN pkgs
      /\ pkgs'[Top.obj] = [pkgs[Top.obj] EXCEPT !.refs = Top.seen + 1]
      /\ \A q \in DOMAIN pkgs : q # Top.obj => pkgs'[q] = pkgs[q]
  BY <1>1, RefsIs DEF NewFetch, Referenced
<1>3. /\ fetch' \in Seq(ThreadType) /\ Len(fetch) \in Nat
      /\ DOMAIN fetch = 1..Len(fetch) /\ DOMAIN fetch' = 1..(Len(fetch) + 1)
      /\ \A n \in DOMAIN fetch : fetch'[n] = fetch[n]
      /\ fetch'[Len(fetch) + 1] = [obj |-> Top.obj, path |-> path, pc |-> "start", seen |-> 0]
  BY NewThread DEF NewFetch
<1>4. ASSUME NEW n \in DOMAIN fetch' PROVE fetch'[n].obj \in DOMAIN pkgs'
  <2>1. CASE n = Len(fetch) + 1
    BY <1>1, <1>2, <1>3, <2>1
  <2>2. CASE n # Len(fetch) + 1
    <3>1. n \in DOMAIN fetch
      BY <1>3, <2>2
    <3> QED
      BY <1>2, <1>3, <3>1 DEF Sound, Types, ThreadsType
  <2> QED
    BY <2>1, <2>2
<1>5. lock' \in {NoThread, Main} \cup DOMAIN fetch'
  BY <1>3 DEF Sound, Types, ThreadsType
<1> QED
  BY <1>2, <1>3, <1>4, <1>5 DEF ThreadsType

\* No thread can be made.
LEMMA NoThreadSound ==
  ASSUME Sound, Top.pc \in ObjPcs, NoFetch, UNCHANGED lock
  PROVE  /\ ThreadsType' /\ pkgs' \in Seq(ObjectType) /\ DOMAIN pkgs' = DOMAIN pkgs
         /\ pkgs'[Top.obj] = [pkgs[Top.obj] EXCEPT !.refs = Top.seen + 1]
         /\ \A q \in DOMAIN pkgs : q # Top.obj => pkgs'[q] = pkgs[q]
<1>1. Top.obj \in DOMAIN pkgs /\ Top.seen + 1 \in Int
  BY Inside, TopType, Fields DEF Sound, Types
<1>2. /\ pkgs' \in Seq(ObjectType) /\ DOMAIN pkgs' = DOMAIN pkgs
      /\ pkgs'[Top.obj] = [pkgs[Top.obj] EXCEPT !.refs = Top.seen + 1]
      /\ \A q \in DOMAIN pkgs : q # Top.obj => pkgs'[q] = pkgs[q]
  BY <1>1, RefsIs DEF NoFetch, Referenced
<1>3. ThreadsType'
  BY <1>2, SameThreads DEF NoFetch
<1> QED
  BY <1>2, <1>3

\* The makefile's thread is made, or the package given up.
LEMMA FetchMakefileIs ==
  ASSUME Sound, FetchMakefile
  PROVE  /\ Top.pc = "makefetch" /\ Top.pc \in ObjPcs
         /\ stack' \in Seq(FrameType) /\ stack' # <<>> /\ Turned(Top') /\ Top' \in FrameType
         /\ Same(Top', Top)
         /\ \/ /\ NewFetch(cat[Pkg].makefile) /\ Top'.pc = "makewait"
               /\ Top'.i = Top.i /\ Top'.k = Top.k /\ Top'.slots = <<Len(fetch) + 1>>
               /\ Top'.rc = Top.rc
            \/ NoFetch /\ Top'.pc = "cleanup" /\ Top'.rc = 11
<1>1. Top.pc = "makefetch" /\ Top.pc \in ObjPcs
  BY Points DEF FetchMakefile, MainAt
<1>2. CASE NewFetch(cat[Pkg].makefile) /\ Put([Top EXCEPT !.pc = "makewait", !.slots = <<Len(fetch) + 1>>])
  <2>1. Top \in FrameType /\ <<Len(fetch) + 1>> \in Seq(Nat)
    <3>1. Len(fetch) + 1 \in Nat
      BY LenProperties DEF Sound, Types, ThreadsType
    <3> QED
      BY <3>1, TopType DEF Sound, Types
  <2>2. PICK s \in Seq(Nat) : s = <<Len(fetch) + 1>>
    BY <2>1
  <2> DEFINE f == [Top EXCEPT !.pc = "makewait", !.slots = s]
  <2>3. f \in FrameType /\ f.pc = "makewait" /\ Same(f, Top) /\ f.rc = Top.rc
        /\ f.i = Top.i /\ f.k = Top.k /\ f.slots = s
    <3>1. "makewait" \in Pcs
      BY Points
    <3> QED
      BY <2>1, <3>1 DEF FrameType, Same
  <2>4. Put(f)
    BY <1>2, <2>2
  <2> HIDE DEF f
  <2>5. Turned(f) /\ stack' \in Seq(FrameType) /\ stack' # <<>>
    BY <2>3, <2>4, PutIs DEF Sound, Types
  <2>6. Top' = f
    BY <2>5 DEF Turned
  <2> QED
    BY <1>1, <1>2, <2>2, <2>3, <2>5, <2>6
<1>3. CASE NoFetch /\ Leave(11)
  <2>1. /\ stack' \in Seq(FrameType) /\ stack' # <<>> /\ Turned(Top') /\ Top' \in FrameType
        /\ Top'.pc = "cleanup" /\ Top'.rc = 11 /\ Kept(Top', Top)
    BY <1>3, LeaveIs DEF Sound, Types, RCs
  <2> QED
    BY <1>1, <1>3, <2>1 DEF Same, Kept
<1> QED
  BY <1>2, <1>3 DEF FetchMakefile

\* What is to be fetched has a name, and all has been when it is saved.
Pathed ==
    /\ Top.pc \in {"make", "makefetch"} => cat[Pkg].makefile # "none"
    /\ Top.pc \in Looking \cup Batch => Src(Pkg) # NoList
    /\ Top.pc = "fetch" => Top.k <= Len(Src(Pkg))
    /\ Top.pc \in {"store", "stored"} => Top.k > Len(Src(Pkg))

\* Sources are a sequence of paths.
LEMMA SrcType ==
  ASSUME Sound, NEW p \in Pkgs, Src(p) # NoList
  PROVE  Src(p) \in Seq(Paths) /\ Len(Src(p)) \in Nat /\ DOMAIN Src(p) = 1..Len(Src(p))
<1>1. cat[p] \in Manifest
  BY DEF Sound, Types, GivenType
<1>2. cat[p].src \in Seq(Paths) \cup {NoList} /\ cat[p].files \in Seq(Paths) \cup {NoList}
  BY <1>1 DEF Manifest
<1>3. Src(p) \in Seq(Paths)
  BY <1>2 DEF Src, SrcIn
<1> QED
  BY <1>3, LenProperties

\* FetchMakefile keeps the types, the shape and the library's place.
LEMMA FetchMakefileSound ==
  ASSUME Sound, Pathed, FetchMakefile
  PROVE  Sound'
<1>1. /\ Top.pc = "makefetch" /\ Top.pc \in ObjPcs
      /\ stack' \in Seq(FrameType) /\ stack' # <<>> /\ Turned(Top') /\ Top' \in FrameType
      /\ Top'.kind = Top.kind /\ Top'.obj = Top.obj /\ Top'.pc \in {"makewait", "cleanup"}
      /\ NewFetch(cat[Pkg].makefile) \/ NoFetch
  BY FetchMakefileIs DEF Same
<1>2. UNCHANGED <<get, lock>>
  BY DEF FetchMakefile
<1>3. ThreadsType' /\ pkgs' \in Seq(ObjectType) /\ DOMAIN pkgs' = DOMAIN pkgs
  <2>1. CASE NewFetch(cat[Pkg].makefile)
    <3>1. cat[Pkg].makefile \in Paths
      BY <1>1, Inside DEF Pathed, Manifest
    <3> QED
      BY <1>1, <1>2, <2>1, <3>1, NewThreadSound
  <2>2. CASE NoFetch
    BY <1>1, <1>2, <2>2, NoThreadSound
  <2> QED
    BY <1>1, <2>1, <2>2
<1>4. StackType' /\ Shape' /\ Slugs'
  BY <1>1, <1>2, <1>3, InnerSound, Points
<1>5. faults' \in Nat /\ unmade' \in BOOLEAN
  BY <1>1, FaultIs DEF NewFetch, NoFetch, Sound, Types, CallType, DataType
<1> QED
  BY <1>3, <1>4, <1>5
     DEF FetchMakefile, Installing, MainUnchanged, Sound, Types, GivenType, DataType, CallType

\* The makefile is there, or given up.
LEMMA JoinMakefileIs ==
  ASSUME Sound, JoinMakefile
  PROVE  /\ Top.pc = "makewait" /\ Top.pc \in ObjPcs /\ ~Live(Top.slots[1])
         /\ stack' \in Seq(FrameType) /\ stack' # <<>> /\ Turned(Top') /\ Top' \in FrameType
         /\ Top'.pc = Sources /\ Same(Top', Top) /\ Top'.rc = Top.rc
         /\ Top'.i = Top.i /\ Top'.k = Top.k /\ Top'.slots = <<>>
         /\ UNCHANGED <<pkgVars, fetch, pkgs, visited, disk, cache, unmade>>
<1>1. /\ Top.pc = "makewait" /\ Top.pc \in ObjPcs /\ ~Live(Top.slots[1])
      /\ UNCHANGED <<pkgVars, fetch, pkgs, visited, disk, cache, unmade>>
  BY Points DEF JoinMakefile, Installing, MainAt
<1>2. Top \in FrameType
  BY TopType DEF Sound, Types
<1>3. PICK pc \in {"configure", "look"} : pc = Sources
  BY SourcesIs
<1> DEFINE f == [Top EXCEPT !.pc = pc, !.slots = <<>>]
<1>4. f \in FrameType /\ f.pc = pc /\ Same(f, Top) /\ f.rc = Top.rc
      /\ f.i = Top.i /\ f.k = Top.k /\ f.slots = <<>>
  <2>1. pc \in Pcs /\ <<>> \in Seq(Nat)
    BY Points
  <2> QED
    BY <1>2, <2>1 DEF FrameType, Same
<1>5. Put(f)
  BY <1>3 DEF JoinMakefile
<1> HIDE DEF f
<1>6. Turned(f) /\ stack' \in Seq(FrameType) /\ stack' # <<>>
  BY <1>4, <1>5, PutIs DEF Sound, Types
<1>7. Top' = f
  BY <1>6 DEF Turned
<1> QED
  BY <1>1, <1>3, <1>4, <1>6, <1>7

\* JoinMakefile keeps the types, the shape and the library's place.
LEMMA JoinMakefileSound ==
  ASSUME Sound, JoinMakefile
  PROVE  Sound'
<1>1. /\ Top.pc \in ObjPcs /\ stack' \in Seq(FrameType) /\ stack' # <<>> /\ Turned(Top')
      /\ Top' \in FrameType /\ Top'.pc \in {"configure", "look"}
      /\ Top'.kind = Top.kind /\ Top'.obj = Top.obj
      /\ UNCHANGED <<pkgVars, fetch, pkgs, visited, disk, cache, unmade>>
  BY JoinMakefileIs, SourcesIs DEF Same
<1>2. UNCHANGED <<get, lock>>
  BY <1>1 DEF pkgVars
<1>3. StackType' /\ Shape' /\ Slugs'
  BY <1>1, <1>2, InnerSound, Points
<1>4. ThreadsType'
  BY <1>1, <1>2, SameThreads
<1> QED
  BY <1>1, <1>3, <1>4
     DEF JoinMakefile, Installing, MainUnchanged, pkgVars, Sound, Types, GivenType, DataType, CallType

\* Where the next thread goes.
Slot(f) == IF f.i < 0 THEN 0 ELSE f.i

\* The slots with the thread in its own.
Filled(f, g, n) ==
    /\ Len(g.slots) = (IF Slot(f) = Len(f.slots) THEN Slot(f) + 1 ELSE Len(f.slots))
    /\ \A m \in 1..Len(g.slots) : g.slots[m] = IF m = Slot(f) + 1 THEN n ELSE f.slots[m]

\* A slot that is filled.
LEMMA FilledType ==
  ASSUME NEW slots \in Seq(Nat), NEW i \in Nat, NEW x \in Nat, NEW filled,
         filled = [n \in 1..(IF i = Len(slots) THEN i + 1 ELSE Len(slots)) |->
                       IF n = i + 1 THEN x ELSE slots[n]]
  PROVE  /\ filled \in Seq(Nat) /\ Len(filled) = (IF i = Len(slots) THEN i + 1 ELSE Len(slots))
         /\ \A m \in 1..Len(filled) : filled[m] = IF m = i + 1 THEN x ELSE slots[m]
<1>1. PICK l \in Nat : l = IF i = Len(slots) THEN i + 1 ELSE Len(slots)
  BY LenProperties
<1>2. \A n \in 1..l : (IF n = i + 1 THEN x ELSE slots[n]) \in Nat
  <2> SUFFICES ASSUME NEW n \in 1..l, n # i + 1 PROVE slots[n] \in Nat
    OBVIOUS
  <2>1. n \in 1..Len(slots)
    BY <1>1, LenProperties
  <2> QED
    BY <2>1, ElementOfSeq
<1>3. filled \in [1..l -> Nat] /\ \A m \in 1..l : filled[m] = IF m = i + 1 THEN x ELSE slots[m]
  BY <1>1, <1>2
<1>4. filled \in Seq(Nat) /\ Len(filled) = l
  BY <1>3
<1> QED
  BY <1>1, <1>3, <1>4

\* A source's thread is made, or the package given up.
LEMMA DownloadIs ==
  ASSUME Sound, Download
  PROVE  /\ Top.pc = "fetch" /\ Top.pc \in ObjPcs
         /\ stack' \in Seq(FrameType) /\ stack' # <<>> /\ Turned(Top') /\ Top' \in FrameType
         /\ Same(Top', Top)
         /\ \/ /\ NewFetch(Src(Pkg)[Top.k]) /\ Top'.k = Top.k + 1
               /\ Top'.i = (IF Slot(Top) < opts.concurrency THEN Slot(Top) + 1 ELSE Slot(Top))
               /\ Top'.pc = (IF Slot(Top) < opts.concurrency THEN "download" ELSE "drain")
               /\ Filled(Top, Top', Len(fetch) + 1)
               /\ Top'.rc = Top.rc
            \/ NoFetch /\ Top'.pc = "cleanup" /\ Top'.rc = -1
<1>1. Top.pc = "fetch" /\ Top.pc \in ObjPcs /\ Top \in FrameType /\ opts.concurrency \in Nat
  BY Points, TopType DEF Download, MainAt, Sound, Types, GivenType
<1>2. Top.i \in Int /\ Top.k \in Nat \ {0} /\ Top.slots \in Seq(Nat) /\ Len(fetch) \in Nat
  BY <1>1, Fields, LenProperties DEF Sound, Types, ThreadsType
<1>3. PICK i \in Nat : i = IF Top.i < 0 THEN 0 ELSE Top.i
  BY <1>2
<1>4. PICK filled : filled = [n \in 1..(IF i = Len(Top.slots) THEN i + 1 ELSE Len(Top.slots)) |->
                                 IF n = i + 1 THEN Len(fetch) + 1 ELSE Top.slots[n]]
  OBVIOUS
<1>5. /\ filled \in Seq(Nat) /\ Len(filled) = (IF i = Len(Top.slots) THEN i + 1 ELSE Len(Top.slots))
      /\ \A m \in 1..Len(filled) : filled[m] = IF m = i + 1 THEN Len(fetch) + 1 ELSE Top.slots[m]
  <2>1. PICK x \in Nat : x = Len(fetch) + 1
    BY <1>2
  <2>2. PICK slots \in Seq(Nat) : slots = Top.slots
    BY <1>2
  <2>3. filled = [n \in 1..(IF i = Len(slots) THEN i + 1 ELSE Len(slots)) |->
                                 IF n = i + 1 THEN x ELSE slots[n]]
    BY <1>4, <2>1, <2>2
  <2>4. /\ filled \in Seq(Nat) /\ Len(filled) = (IF i = Len(slots) THEN i + 1 ELSE Len(slots))
        /\ \A m \in 1..Len(filled) : filled[m] = IF m = i + 1 THEN x ELSE slots[m]
    BY <2>3, FilledType
  <2> QED
    BY <2>1, <2>2, <2>4
<1>6. PICK j \in Nat : j = IF i < opts.concurrency THEN i + 1 ELSE i
  BY <1>3
<1>7. PICK pc \in {"download", "drain"} : pc = IF i < opts.concurrency THEN "download" ELSE "drain"
  BY <1>1
<1>8. \/ /\ NewFetch(Src(Pkg)[Top.k])
         /\ Put([Top EXCEPT !.k = Top.k + 1, !.slots = filled, !.i = j, !.pc = pc])
      \/ NoFetch /\ Leave(-1)
  BY <1>3, <1>4, <1>6, <1>7 DEF Download
<1>9. CASE /\ NewFetch(Src(Pkg)[Top.k])
           /\ Put([Top EXCEPT !.k = Top.k + 1, !.slots = filled, !.i = j, !.pc = pc])
  <2> DEFINE f == [Top EXCEPT !.k = Top.k + 1, !.slots = filled, !.i = j, !.pc = pc]
  <2>1. f \in FrameType /\ f.pc = pc /\ Same(f, Top) /\ f.rc = Top.rc
        /\ f.i = j /\ f.k = Top.k + 1 /\ f.slots = filled
    <3>1. pc \in Pcs /\ Top.k + 1 \in Nat \ {0} /\ j \in Int
      BY <1>2, Points
    <3> QED
      BY <1>1, <1>5, <3>1 DEF FrameType, Same
  <2>2. Put(f)
    BY <1>9
  <2> HIDE DEF f
  <2>3. Turned(f) /\ stack' \in Seq(FrameType) /\ stack' # <<>>
    BY <2>1, <2>2, PutIs DEF Sound, Types
  <2>4. Top' = f
    BY <2>3 DEF Turned
  <2>5. Slot(Top) = i
    BY <1>3 DEF Slot
  <2>6. Filled(Top, f, Len(fetch) + 1)
    BY <1>5, <2>1, <2>5 DEF Filled
  <2> QED
    BY <1>1, <1>6, <1>7, <1>9, <2>1, <2>3, <2>4, <2>5, <2>6
<1>10. CASE NoFetch /\ Leave(-1)
  <2>1. /\ stack' \in Seq(FrameType) /\ stack' # <<>> /\ Turned(Top') /\ Top' \in FrameType
        /\ Top'.pc = "cleanup" /\ Top'.rc = -1 /\ Kept(Top', Top)
    BY <1>10, LeaveIs DEF Sound, Types, RCs
  <2> QED
    BY <1>1, <1>10, <2>1 DEF Same, Kept
<1> QED
  BY <1>8, <1>9, <1>10

\* Download keeps the types, the shape and the library's place.
LEMMA DownloadSound ==
  ASSUME Sound, Pathed, Download
  PROVE  Sound'
<1>1. /\ Top.pc = "fetch" /\ Top.pc \in ObjPcs
      /\ stack' \in Seq(FrameType) /\ stack' # <<>> /\ Turned(Top') /\ Top' \in FrameType
      /\ Top'.kind = Top.kind /\ Top'.obj = Top.obj /\ Top'.pc \in {"download", "drain", "cleanup"}
      /\ NewFetch(Src(Pkg)[Top.k]) \/ NoFetch
  BY DownloadIs DEF Same
<1>2. UNCHANGED <<get, lock>>
  BY DEF Download
<1>3. ThreadsType' /\ pkgs' \in Seq(ObjectType) /\ DOMAIN pkgs' = DOMAIN pkgs
  <2>1. CASE NewFetch(Src(Pkg)[Top.k])
    <3>1. Src(Pkg)[Top.k] \in Paths
      <4>1. Pkg \in Pkgs /\ Src(Pkg) # NoList /\ Top.k <= Len(Src(Pkg)) /\ Top.k \in Nat \ {0}
        BY <1>1, Inside, TopType, Fields DEF Pathed, Batch, Sound, Types
      <4>2. Src(Pkg) \in Seq(Paths) /\ Len(Src(Pkg)) \in Nat
        BY <4>1, SrcType
      <4>3. Top.k \in 1..Len(Src(Pkg))
        BY <4>1, <4>2
      <4> QED
        BY <4>2, <4>3, ElementOfSeq
    <3>2. PICK path \in Paths : path = Src(Pkg)[Top.k]
      BY <3>1
    <3> QED
      BY <1>1, <1>2, <2>1, <3>2, NewThreadSound
  <2>2. CASE NoFetch
    BY <1>1, <1>2, <2>2, NoThreadSound
  <2> QED
    BY <1>1, <2>1, <2>2
<1>4. StackType' /\ Shape' /\ Slugs'
  BY <1>1, <1>2, <1>3, InnerSound, Points
<1>5. faults' \in Nat /\ unmade' \in BOOLEAN
  BY <1>1, FaultIs DEF NewFetch, NoFetch, Sound, Types, CallType, DataType
<1> QED
  BY <1>3, <1>4, <1>5
     DEF Download, Installing, MainUnchanged, Sound, Types, GivenType, DataType, CallType

\* A slot is joined, or all are.
LEMMA JoinIs ==
  ASSUME Sound, Join
  PROVE  /\ Top.pc \in {"drain", "download"} /\ Top.pc \in ObjPcs
         /\ Top.pc = "download" => Top.k > Len(Src(Pkg))
         /\ stack' \in Seq(FrameType) /\ stack' # <<>> /\ Turned(Top') /\ Top' \in FrameType
         /\ Same(Top', Top) /\ Top'.rc = Top.rc /\ Top'.k = Top.k
         /\ \/ /\ Top.i > 0 /\ ~Live(Top.slots[Top.i]) /\ Top'.i = Top.i - 1
               /\ Top'.slots = [Top.slots EXCEPT ![Top.i] = None] /\ Top'.pc = Top.pc
            \/ /\ ~(Top.i > 0) /\ Top'.i = -1 /\ Top'.slots = Top.slots
               /\ Top'.pc = IF Top.pc = "drain" THEN "download" ELSE "store"
         /\ UNCHANGED <<pkgVars, fetch, pkgs, visited, disk, cache, unmade>>
<1>1. /\ Top.pc \in {"drain", "download"} /\ Top.pc \in ObjPcs /\ Top \in FrameType
      /\ Top.pc = "download" => Top.k > Len(Src(Pkg))
      /\ UNCHANGED <<pkgVars, fetch, pkgs, visited, disk, cache, unmade>>
  BY Points, TopType DEF Join, Installing, MainAt, Sound, Types
<1>2. Top.i \in Int /\ Top.slots \in Seq(Nat)
  BY <1>1, Fields
<1>3. CASE Top.i > 0
  <2>1. PICK s \in Seq(Nat) : s = [Top.slots EXCEPT ![Top.i] = None]
    <3>1. PICK i \in Int, slots \in Seq(Nat) : i = Top.i /\ slots = Top.slots
      BY <1>2
    <3>2. CASE i \in DOMAIN slots
      <4>1. PICK t : t = [slots EXCEPT ![i] = None]
        OBVIOUS
      <4>2. None \in Nat
        BY DEF None
      <4>3. t \in Seq(Nat)
        BY <3>2, <4>1, <4>2, ReplaceType
      <4> QED
        BY <3>1, <4>1, <4>3
    <3>3. CASE i \notin DOMAIN slots
      <4>1. [slots EXCEPT ![i] = None] = slots
        BY <3>3
      <4> QED
        BY <3>1, <4>1
    <3> QED
      BY <3>2, <3>3
  <2> DEFINE f == [Top EXCEPT !.i = Top.i - 1, !.slots = s]
  <2>2. f \in FrameType /\ f.pc = Top.pc /\ Same(f, Top) /\ f.rc = Top.rc
        /\ f.i = Top.i - 1 /\ f.k = Top.k /\ f.slots = s
    <3>1. Top.i - 1 \in Int
      BY <1>2
    <3> QED
      BY <1>1, <2>1, <3>1 DEF FrameType, Same
  <2>3. Put(f) /\ ~Live(Top.slots[Top.i])
    <3>1. f = [Top EXCEPT !.i = @ - 1, !.slots[Top.i] = None]
      BY <1>1, <2>1 DEF FrameType
    <3> QED
      BY <1>3, <3>1 DEF Join
  <2> HIDE DEF f
  <2>4. Turned(f) /\ stack' \in Seq(FrameType) /\ stack' # <<>>
    BY <2>2, <2>3, PutIs DEF Sound, Types
  <2>5. Top' = f
    BY <2>4 DEF Turned
  <2> QED
    BY <1>1, <1>3, <2>1, <2>2, <2>3, <2>4, <2>5
<1>4. CASE ~(Top.i > 0)
  <2>1. PICK pc \in {"download", "store"} : pc = IF Top.pc = "drain" THEN "download" ELSE "store"
    BY <1>1
  <2>0. PICK less \in Int : less = -1
    OBVIOUS
  <2> DEFINE f == [Top EXCEPT !.i = less, !.pc = pc]
  <2>2. f \in FrameType /\ f.pc = pc /\ Same(f, Top) /\ f.rc = Top.rc
        /\ f.i = less /\ f.k = Top.k /\ f.slots = Top.slots
    <3>1. pc \in Pcs
      BY Points
    <3> QED
      BY <1>1, <3>1 DEF FrameType, Same
  <2>3. Put(f)
    BY <1>4, <2>0, <2>1 DEF Join
  <2> HIDE DEF f
  <2>4. Turned(f) /\ stack' \in Seq(FrameType) /\ stack' # <<>>
    BY <2>2, <2>3, PutIs DEF Sound, Types
  <2>5. Top' = f
    BY <2>4 DEF Turned
  <2> QED
    BY <1>1, <1>4, <2>0, <2>1, <2>2, <2>4, <2>5
<1> QED
  BY <1>3, <1>4

\* Join keeps the types, the shape and the library's place.
LEMMA JoinSound ==
  ASSUME Sound, Join
  PROVE  Sound'
<1>1. /\ Top.pc \in ObjPcs /\ stack' \in Seq(FrameType) /\ stack' # <<>> /\ Turned(Top')
      /\ Top' \in FrameType /\ Top'.pc \in {"drain", "download", "store"}
      /\ Top'.kind = Top.kind /\ Top'.obj = Top.obj
      /\ UNCHANGED <<pkgVars, fetch, pkgs, visited, disk, cache, unmade>>
  BY JoinIs DEF Same
<1>2. UNCHANGED <<get, lock>>
  BY <1>1 DEF pkgVars
<1>3. StackType' /\ Shape' /\ Slugs'
  BY <1>1, <1>2, InnerSound, Points
<1>4. ThreadsType'
  BY <1>1, <1>2, SameThreads
<1> QED
  BY <1>1, <1>3, <1>4
     DEF Join, Installing, MainUnchanged, pkgVars, Sound, Types, GivenType, DataType, CallType

\* The library's call returns and is idle.
LEMMA ReturnCall ==
  ASSUME Sound, Return(Main)
  PROVE  /\ get' \in [Callers -> Call] /\ get'[Main].pc = "idle"
         /\ get[Main].pc \in {"ok", "null"}
         /\ UNCHANGED <<opts, lock, json, faults, retried, torn>>
<1>1. Main \in Callers /\ get \in [Callers -> Call] /\ get[Main].pkg \in Pkgs
  BY MainAssumption DEF Sound, Types, CallType, Call
<1>2. Idle \in Call /\ Idle.pc = "idle"
  BY <1>1, RetriesAssumption DEF Idle, Call, ManifestNames
<1> QED
  BY <1>1, <1>2 DEF Return

\* What clib_package_new leaves.
NewObject(pkg, dir) ==
    [pkg |-> pkg, refs |-> 0, dir |-> dir, name |-> "none", freed |-> FALSE, rc |-> -1]

\* What GotPackage does.
LEMMA GotPackageIs ==
  ASSUME Sound, GotPackage
  PROVE  /\ Top.pc = "slug" /\ Top.kind \in {"list", "command"}
         /\ Top.todo # <<>> /\ Head(Top.todo) \in Pkgs
         /\ stack' \in Seq(FrameType) /\ stack' # <<>> /\ Turned(Top') /\ Top' \in FrameType
         /\ Top'.pc = (IF opts.force THEN "prepare" ELSE "test")
         /\ Top'.kind = Top.kind /\ Top'.dir = Top.dir /\ Top'.owned = Top.owned
         /\ Top'.name = Top.name /\ Top'.todo = Tail(Top.todo)
         /\ Top'.obj = Len(pkgs) + 1 /\ Top'.i = 0 /\ Top'.k = 1 /\ Top'.slots = <<>> /\ Top'.rc = 0
         /\ pkgs' \in Seq(ObjectType) /\ Len(pkgs) \in Nat /\ DOMAIN pkgs = 1..Len(pkgs)
         /\ DOMAIN pkgs' = 1..(Len(pkgs) + 1)
         /\ \A o \in DOMAIN pkgs : pkgs'[o] = pkgs[o]
         /\ pkgs'[Len(pkgs) + 1] = NewObject(Head(Top.todo), Top.dir)
         /\ Return(Main)
         /\ UNCHANGED <<fetch, visited, disk, cache, root, code, failed, unmade>>
<1>1. /\ Top.pc = "slug" /\ Top \in FrameType /\ Return(Main)
      /\ UNCHANGED <<fetch, visited, disk, cache, root, code, failed, unmade>>
      /\ pkgs \in Seq(ObjectType) /\ Len(stack) \in DOMAIN stack /\ Top = stack[Len(stack)]
  BY TopType DEF GotPackage, MainAt, Sound, Types
<1>2. Top.todo # <<>> /\ Head(Top.todo) \in Pkgs /\ Top.kind \in {"list", "command"}
  BY <1>1, Inside DEF Sound, Shape, Framed
<1>3. Len(pkgs) \in Nat /\ DOMAIN pkgs = 1..Len(pkgs)
  BY <1>1, LenProperties
<1>4. PICK n \in Nat : n = Len(pkgs) + 1
  BY <1>3
<1>5. PICK pc \in {"prepare", "test"} : pc = IF opts.force THEN "prepare" ELSE "test"
  OBVIOUS
<1>6. PICK rest \in Seq(Pkgs \cup {"here", "file"}) : rest = Tail(Top.todo)
  BY <1>1, <1>2, Fields, HeadTailProperties
<1> DEFINE f == [Top EXCEPT !.pc = pc, !.obj = n, !.todo = rest, !.i = 0, !.k = 1,
                            !.slots = <<>>, !.rc = 0]
<1>7. /\ f \in FrameType /\ f.pc = pc /\ f.kind = Top.kind /\ f.dir = Top.dir /\ f.owned = Top.owned
      /\ f.name = Top.name /\ f.todo = rest /\ f.obj = n /\ f.i = 0 /\ f.k = 1
      /\ f.slots = <<>> /\ f.rc = 0
  <2>1. pc \in Pcs /\ <<>> \in Seq(Nat) /\ 0 \in RCs
    BY Points DEF RCs
  <2>7. PICK o \in Int : o = 0
    OBVIOUS
  <2>8. PICK k \in Nat \ {0} : k = 1
    OBVIOUS
  <2>9. PICK empty \in Seq(Nat) : empty = <<>>
    BY <2>1
  <2>10. PICK r \in RCs : r = 0
    BY <2>1
  <2>3. PICK g : g = [Top EXCEPT !.pc = pc, !.obj = n, !.todo = rest, !.i = o, !.k = k,
                            !.slots = empty, !.rc = r]
    OBVIOUS
  <2>4. g \in FrameType
    BY <1>1, <2>1, <2>3 DEF FrameType
  <2>5. /\ g.pc = pc /\ g.kind = Top.kind /\ g.dir = Top.dir /\ g.owned = Top.owned
        /\ g.name = Top.name /\ g.todo = rest /\ g.obj = n /\ g.i = o /\ g.k = k
        /\ g.slots = empty /\ g.rc = r
    BY <1>1, <2>3 DEF FrameType
  <2>6. f = g
    BY <2>7, <2>8, <2>9, <2>10, <2>3
  <2> HIDE DEF f
  <2> QED
    BY <2>7, <2>8, <2>9, <2>10, <2>4, <2>5, <2>6
<1>8. Put(f)
  BY <1>1, <1>4, <1>5, <1>6 DEF GotPackage
<1> HIDE DEF f
<1>9. Turned(f) /\ stack' \in Seq(FrameType) /\ stack' # <<>>
  BY <1>7, <1>8, PutIs DEF Sound, Types
<1>10. Top' = f
  BY <1>9 DEF Turned
<1>11. PICK x \in ObjectType : x = NewObject(Head(Top.todo), Top.dir)
  <2>1. Top.dir \in Dirs
    BY <1>1, Fields
  <2>2. PICK r \in RCs : r = -1
    BY DEF RCs
  <2>3. PICK p \in Pkgs : p = Head(Top.todo)
    BY <1>2
  <2>4. [pkg |-> p, refs |-> 0, dir |-> Top.dir, name |-> "none", freed |-> FALSE, rc |-> r] \in ObjectType
    BY <2>1 DEF ObjectType
  <2> QED
    BY <2>2, <2>3, <2>4 DEF NewObject
<1>12. pkgs' = Append(pkgs, x)
  BY <1>11 DEF GotPackage, NewObject
<1>13. /\ pkgs' \in Seq(ObjectType) /\ Len(pkgs') = Len(pkgs) + 1
       /\ \A o \in 1..Len(pkgs) : pkgs'[o] = pkgs[o]
       /\ pkgs'[Len(pkgs) + 1] = x
  BY <1>1, <1>12, AppendProperties
<1>14. DOMAIN pkgs' = 1..(Len(pkgs) + 1)
  BY <1>13, LenProperties
<1> QED
  BY <1>1, <1>2, <1>3, <1>4, <1>5, <1>6, <1>7, <1>9, <1>10, <1>11, <1>13, <1>14

\* GotPackage keeps the types, the shape and the library's place.
LEMMA GotPackageSound ==
  ASSUME Sound, GotPackage
  PROVE  Sound'
<1>1. /\ Top.pc = "slug" /\ Top.kind \in {"list", "command"}
      /\ stack' \in Seq(FrameType) /\ stack' # <<>> /\ Turned(Top') /\ Top' \in FrameType
      /\ Top'.pc \in {"prepare", "test"} /\ Top'.kind = Top.kind /\ Top'.obj = Len(pkgs) + 1
      /\ pkgs' \in Seq(ObjectType) /\ Len(pkgs) \in Nat /\ DOMAIN pkgs = 1..Len(pkgs)
      /\ DOMAIN pkgs' = 1..(Len(pkgs) + 1)
      /\ Return(Main)
      /\ UNCHANGED <<fetch, visited, disk, cache, root, code, failed, unmade>>
  BY GotPackageIs
<1>2. DOMAIN pkgs \subseteq DOMAIN pkgs' /\ Top'.obj \in DOMAIN pkgs'
  BY <1>1
<1>3. /\ get' \in [Callers -> Call] /\ get'[Main].pc = "idle"
      /\ UNCHANGED <<opts, lock, json, faults, retried, torn>>
  BY <1>1, ReturnCall
<1>4. Framed(Top', Len(stack))
  <2>1. Len(stack) \in DOMAIN stack /\ Len(stack) \in Nat /\ Top = stack[Len(stack)]
    BY TopType DEF Sound, Types
  <2>2. Framed(Top, Len(stack))
    BY <2>1 DEF Sound, Shape
  <2> QED
    BY <1>1, <2>1, <2>2, InnerFramed, Points
<1>5. StackType' /\ Shape'
  BY <1>1, <1>2, <1>4, TurnSound
<1>6. ThreadsType'
  BY <1>1, <1>2, <1>3, SameThreads
<1>7. Slugs'
  BY <1>3 DEF Slugs
<1> QED
  BY <1>1, <1>3, <1>5, <1>6, <1>7
     DEF GotPackage, MainUnchanged, Sound, Types, GivenType, DataType, CallType

\* The copy that is loaded goes file by file.
LEMMA LoadIs ==
  ASSUME Sound, Top.pc \in ObjPcs, NEW x, NEW y, LoadPackage(Pkg, x, y)
  PROVE  /\ disk' \in [Dirs \X Pkgs -> [Paths -> FileState]] /\ cache' \in [Pkgs -> Copy]
         /\ faults' \in Nat
         /\ \/ /\ Go(y) /\ UNCHANGED <<cache, faults>>
               /\ \A d \in Dirs \X Pkgs : d # Place => disk'[d] = disk[d]
               /\ \A f \in Paths : disk'[Place][f] =
                      IF cache[Pkg].copy[f] = "none" THEN disk[Place][f] ELSE cache[Pkg].copy[f]
            \/ /\ Go(x) /\ UNCHANGED disk /\ Fault
               /\ cache' = [cache EXCEPT ![Pkg].age = "none"]
            \/ (Go(x) \/ Go(y)) /\ Fault /\ UNCHANGED cache
<1>1. /\ Pkg \in Pkgs /\ Place \in Dirs \X Pkgs
      /\ disk \in [Dirs \X Pkgs -> [Paths -> FileState]] /\ cache \in [Pkgs -> Copy]
      /\ faults \in Nat
  BY Inside DEF Sound, Types, DataType, CallType
<1>2. cache[Pkg] \in Copy /\ cache[Pkg].copy \in [Paths -> FileState]
  BY <1>1 DEF Copy
<1>3. CASE /\ disk' = [disk EXCEPT ![Place] = Over(cache[Pkg].copy, @)]
           /\ Go(y) /\ UNCHANGED <<cache, faults>>
  <2>1. PICK g : g = [f \in Paths |-> IF cache[Pkg].copy[f] = "none" THEN disk[Place][f]
                                                           ELSE cache[Pkg].copy[f]]
    OBVIOUS
  <2>2. g \in [Paths -> FileState]
    BY <1>1, <1>2, <2>1
  <2>3. disk' = [disk EXCEPT ![Place] = g]
    BY <1>3, <2>1 DEF Over
  <2>4. disk' \in [Dirs \X Pkgs -> [Paths -> FileState]] /\ disk'[Place] = g
        /\ \A d \in Dirs \X Pkgs : d # Place => disk'[d] = disk[d]
    BY <1>1, <2>2, <2>3
  <2> QED
    BY <1>1, <1>3, <2>1, <2>4
<1>4. CASE Fault /\ DeletePackage(Pkg) /\ Go(x) /\ UNCHANGED disk
  <2>1. cache' = [cache EXCEPT ![Pkg].age = "none"]
    BY <1>4 DEF DeletePackage
  <2>2. [cache[Pkg] EXCEPT !.age = "none"] \in Copy
    BY <1>2 DEF Copy
  <2>3. cache' \in [Pkgs -> Copy]
    BY <1>1, <2>1, <2>2
  <2> QED
    BY <1>1, <1>4, <2>1, <2>3, FaultIs
<1>5. ASSUME NEW left \in Broken(cache[Pkg].copy, disk[Place]), NEW pc \in {x, y}, Fault,
             disk' = [disk EXCEPT ![Place] = left], Go(pc), UNCHANGED cache
      PROVE  /\ disk' \in [Dirs \X Pkgs -> [Paths -> FileState]] /\ cache' \in [Pkgs -> Copy]
             /\ faults' \in Nat
             /\ (Go(x) \/ Go(y)) /\ Fault /\ UNCHANGED cache
  <2>1. left \in [Paths -> FileState]
    BY DEF Broken
  <2>2. disk' \in [Dirs \X Pkgs -> [Paths -> FileState]]
    BY <1>1, <1>5, <2>1
  <2> QED
    BY <1>1, <1>5, <2>2, FaultIs
<1> QED
  BY <1>3, <1>4, <1>5 DEF LoadPackage

\* A copy is deleted, or saved.
LEMMA DeleteIs ==
  ASSUME Sound, NEW p \in Pkgs, DeletePackage(p)
  PROVE  /\ cache' \in [Pkgs -> Copy] /\ cache'[p].age = "none"
         /\ \A q \in Pkgs : q # p => cache'[q] = cache[q]
<1>1. cache \in [Pkgs -> Copy] /\ cache[p] \in Copy
  BY DEF Sound, Types, DataType
<1>2. PICK x \in Copy : x = [cache[p] EXCEPT !.age = "none"] /\ x.age = "none"
  <2>1. [cache[p] EXCEPT !.age = "none"] \in Copy /\ [cache[p] EXCEPT !.age = "none"].age = "none"
    BY <1>1 DEF Copy
  <2> QED
    BY <2>1
<1>3. cache' = [cache EXCEPT ![p] = x]
  BY <1>2 DEF DeletePackage
<1> QED
  BY <1>1, <1>2, <1>3

\* What the cache has after a save.
LEMMA SaveIs ==
  ASSUME Sound, Top.pc \in ObjPcs, SavePackage(Pkg)
  PROVE  /\ cache' \in [Pkgs -> Copy]
         /\ faults' \in Nat
         /\ Fault \/ (UNCHANGED faults /\ cache'[Pkg] = [age |-> "fresh", copy |-> disk[Place]])
         /\ \A q \in Pkgs : q # Pkg => cache'[q] = cache[q]
<1>1. /\ Pkg \in Pkgs /\ Place \in Dirs \X Pkgs
      /\ disk \in [Dirs \X Pkgs -> [Paths -> FileState]] /\ cache \in [Pkgs -> Copy]
  BY Inside DEF Sound, Types, DataType
<1>2. faults \in Nat
  BY DEF Sound, Types, CallType
<1>3. CASE cache' = [cache EXCEPT ![Pkg] = [age |-> "fresh", copy |-> disk[Place]]] /\ UNCHANGED faults
  <2>1. PICK x \in Copy : x = [age |-> "fresh", copy |-> disk[Place]]
    BY <1>1 DEF Copy
  <2>2. cache' = [cache EXCEPT ![Pkg] = x]
    BY <1>3, <2>1
  <2> QED
    BY <1>1, <1>2, <1>3, <2>1, <2>2
<1>4. ASSUME NEW left \in Broken(disk[Place], [f \in Paths |-> "none"]), Fault,
             cache' = [cache EXCEPT ![Pkg] = [age |-> "fresh", copy |-> left]]
      PROVE  /\ cache' \in [Pkgs -> Copy] /\ \A q \in Pkgs : q # Pkg => cache'[q] = cache[q]
             /\ faults' \in Nat /\ Fault
  <2>1. PICK x \in Copy : x = [age |-> "fresh", copy |-> left]
    BY DEF Copy, Broken
  <2>2. cache' = [cache EXCEPT ![Pkg] = x]
    BY <1>4, <2>1
  <2> QED
    BY <1>1, <1>2, <1>4, <2>2, FaultIs
<1>5. CASE Fault /\ DeletePackage(Pkg)
  BY <1>1, <1>2, <1>5, DeleteIs, FaultIs
<1> QED
  BY <1>3, <1>4, <1>5 DEF SavePackage

\* Looked keeps the types, the shape and the library's place.
LEMMA LookedSound ==
  ASSUME Sound, Looked
  PROVE  Sound'
<1>1. UNCHANGED <<get, fetch, pkgs>> /\ lock' = NoThread /\ Top.pc \in ObjPcs /\ Pkg \in Pkgs
  BY Points, Inside DEF Looked, Installing, MainAt
<1>2. /\ \E pc \in {"download", "configure"} : Go(pc)
      /\ disk' \in [Dirs \X Pkgs -> [Paths -> FileState]] /\ cache' \in [Pkgs -> Copy] /\ faults' \in Nat
  <2>1. CASE ~HasPackage(Pkg) /\ Go("download") /\ UNCHANGED <<disk, cache, faults>>
    BY <2>1 DEF Sound, Types, DataType, CallType
  <2>2. CASE HasPackage(Pkg) /\ opts.skip_cache /\ DeletePackage(Pkg) /\ Go("download")
             /\ UNCHANGED <<disk, faults>>
    BY <1>1, <2>2, DeleteIs DEF Sound, Types, DataType, CallType
  <2>3. CASE HasPackage(Pkg) /\ ~opts.skip_cache /\ LoadPackage(Pkg, "download", "configure")
    BY <1>1, <2>3, LoadIs
  <2> QED
    BY <2>1, <2>2, <2>3 DEF Looked
<1>3. StackType' /\ Shape' /\ Slugs'
  BY <1>1, <1>2, InnerGo, Points
<1>4. ThreadsType'
  BY <1>1, SameThreads
<1> QED
  BY <1>1, <1>2, <1>3, <1>4 DEF Looked, Installing, MainUnchanged, Sound, Types, GivenType, DataType, CallType

\* Stored keeps the types, the shape and the library's place.
LEMMA StoredSound ==
  ASSUME Sound, Stored
  PROVE  Sound'
<1>1. UNCHANGED <<get, fetch, pkgs>> /\ lock' = NoThread /\ Top.pc \in ObjPcs /\ Go("configure")
      /\ SavePackage(Pkg)
  BY Points DEF Stored, Installing, MainAt
<1>2. cache' \in [Pkgs -> Copy] /\ faults' \in Nat
  BY <1>1, SaveIs
<1>3. StackType' /\ Shape' /\ Slugs'
  BY <1>1, InnerGo, Points
<1>4. ThreadsType'
  BY <1>1, SameThreads
<1> QED
  BY <1>1, <1>2, <1>3, <1>4 DEF Stored, Installing, MainUnchanged, Sound, Types, GivenType, DataType, CallType

-----------------------------------------------------------------------------
(* The steps around it.                                                    *)

\* main moves within the innermost call.
Advanced ==
    /\ stack' \in Seq(FrameType) /\ stack' # <<>> /\ Turned(Top') /\ Top' \in FrameType
    /\ Kept(Top', Top)

\* A command is run: it goes on, or the package is given up.
LEMMA CommandIs ==
  ASSUME Sound, NEW next \in Pcs, Command(next)
  PROVE  /\ Advanced /\ faults' \in Nat
         /\ \/ Top'.pc = next /\ Top'.rc = Top.rc /\ UNCHANGED faults
            \/ Fault /\ Top'.pc = "cleanup" /\ Top'.rc \in {-1, 256}
<1>1. CASE Go(next) /\ UNCHANGED faults
  BY <1>1, GoIs DEF Advanced, Sound, Types, CallType
<1>2. ASSUME NEW rc \in {-1, 256}, Fault, Leave(rc)
      PROVE  Advanced /\ faults' \in Nat /\ Fault /\ Top'.pc = "cleanup" /\ Top'.rc \in {-1, 256}
  <2>1. rc \in RCs
    BY DEF RCs
  <2> QED
    BY <1>2, <2>1, LeaveIs, FaultIs DEF Advanced, Sound, Types
<1> QED
  BY <1>1, <1>2 DEF Command

\* A move inside clib_package_install that leaves the packages and the library alone.
LEMMA AdvancedSound ==
  ASSUME Sound, Advanced, Top.pc \in ObjPcs, Top'.pc \in ObjPcs \ {"developed"},
         DOMAIN pkgs \subseteq DOMAIN pkgs', UNCHANGED <<get, lock, fetch>>
  PROVE  StackType' /\ Shape' /\ Slugs' /\ ThreadsType'
<1>1. StackType' /\ Shape' /\ Slugs'
  BY InnerSound DEF Advanced, Kept
<1>2. ThreadsType'
  BY SameThreads
<1> QED
  BY <1>1, <1>2

\* What Configure does.
LEMMA ConfigureIs ==
  ASSUME Sound, Configure
  PROVE  /\ Top.pc = "configure" /\ Top.pc \in ObjPcs /\ Advanced /\ faults' \in Nat
         /\ \/ Top'.pc = "exec" /\ Top'.rc = Top.rc /\ UNCHANGED faults
            \/ Fault /\ Top'.pc = "cleanup" /\ Top'.rc \in {-1, 256}
         /\ UNCHANGED <<cat, cmd, stale, raced, root, code, failed, fetch, pkgs, visited, disk,
                        cache, unmade, opts, lock, get, json, retried, torn>>
<1>1. /\ Top.pc = "configure" /\ Top.pc \in ObjPcs
      /\ UNCHANGED <<cat, cmd, stale, raced, root, code, failed, fetch, pkgs, visited, disk,
                     cache, unmade, opts, lock, get, json, retried, torn>>
  BY Points DEF Configure, MainAt, Installing, MainUnchanged
<1>2. "exec" \in Pcs
  BY Points
<1>3. CASE cat[Pkg].configure
  BY <1>1, <1>2, <1>3, CommandIs DEF Configure
<1>4. CASE ~cat[Pkg].configure
  BY <1>1, <1>2, <1>4, GoIs DEF Configure, Advanced, Sound, Types, CallType
<1> QED
  BY <1>3, <1>4

\* Configure keeps the types, the shape and the library's place.
LEMMA ConfigureSound ==
  ASSUME Sound, Configure
  PROVE  Sound'
<1>1. /\ Top.pc \in ObjPcs /\ Advanced /\ faults' \in Nat /\ Top'.pc \in {"exec", "cleanup"}
      /\ UNCHANGED <<cat, cmd, stale, raced, root, code, failed, fetch, pkgs, visited, disk,
                     cache, unmade, opts, lock, get, json, retried, torn>>
  BY ConfigureIs
<1>2. StackType' /\ Shape' /\ Slugs' /\ ThreadsType'
  BY <1>1, AdvancedSound, Points
<1> QED
  BY <1>1, <1>2 DEF Sound, Types, GivenType, DataType, CallType

\* The list of packages an install_packages is called with.
LEMMA ListIs ==
  ASSUME Sound, NEW pc \in Pcs, NEW dir \in Dirs, NEW list \in Seq(Pkgs),
         InstallList(pc, dir, list)
  PROVE  /\ Called(pc, Frame("list", dir, list)) /\ Frame("list", dir, list) \in FrameType
         /\ stack' \in Seq(FrameType) /\ stack' # <<>>
         /\ Top' = Frame("list", dir, list)
         /\ Top'.kind = "list" /\ Top'.todo = list /\ Top'.pc = "next" /\ Top'.rc = 0
<1>1. list \in Seq(Pkgs \cup {"here", "file"})
  OBVIOUS
<1>2. /\ Frame("list", dir, list) \in FrameType
      /\ Frame("list", dir, list).kind = "list" /\ Frame("list", dir, list).todo = list
      /\ Frame("list", dir, list).pc = "next" /\ Frame("list", dir, list).rc = 0
  BY <1>1, NewFrame DEF Kinds
<1>3. PICK f \in FrameType : f = Frame("list", dir, list)
  BY <1>2
<1>4. Enter(pc, f)
  BY <1>3 DEF InstallList
<1>5. Called(pc, f) /\ stack' \in Seq(FrameType) /\ stack' # <<>>
  BY <1>4, EnterIs DEF Sound, Types
<1>6. Top' = f
  BY <1>5 DEF Called
<1> QED
  BY <1>2, <1>3, <1>5, <1>6

\* Who calls one and waits for it.
LEMMA ListSound ==
  ASSUME Sound, NEW pc \in Pcs, NEW dir \in Dirs, NEW list \in Seq(Pkgs),
         InstallList(pc, dir, list), Top.pc # "slug", UNCHANGED <<pkgs, get>>,
         \/ pc \in {"unpacked", "depsdone"} /\ Top.pc \in ObjPcs
         \/ pc = "developed" /\ Top.kind = "command" /\ Top.pc \in ObjPcs
         \/ pc \in {"devs", "last"} /\ Top.kind = "local"
  PROVE  StackType' /\ Shape' /\ Slugs'
<1> DEFINE f == Frame("list", dir, list)
           t == [Top EXCEPT !.pc = pc]
<1>1. /\ Called(pc, f) /\ f \in FrameType /\ stack' \in Seq(FrameType) /\ stack' # <<>>
      /\ f.kind = "list" /\ f.pc = "next"
  BY ListIs
<1>2. /\ Top \in FrameType /\ Len(stack) \in Nat \ {0} /\ Len(stack) \in DOMAIN stack
      /\ Top = stack[Len(stack)]
  BY TopType DEF Sound, Types
<1>3. t \in FrameType /\ t.pc = pc /\ t.kind = Top.kind /\ t.rc = Top.rc
  BY <1>2, PcType DEF Kept
<1>4. Framed(Top, Len(stack)) /\ (Top.pc \in ObjPcs => Top.kind \in {"list", "command"} /\ Top.obj \in DOMAIN pkgs)
  BY <1>2, Inside DEF Sound, Shape
<1> HIDE DEF f, t
<1>5. Link(t, f)
  BY <1>1, <1>3, <1>4 DEF Link
<1>6. Framed(t, Len(stack))
  <2>1. t.pc \in PcOf(t.kind) /\ t.pc # "slug"
    BY <1>3, <1>4 DEF PcOf, ObjPcs
  <2> QED
    BY <1>3, <1>4, <2>1 DEF Framed
<1>7. Framed(f, Len(stack) + 1)
  <2>1. f.pc \in PcOf(f.kind) /\ f.pc # "slug" /\ Len(stack) + 1 # 1
    BY <1>1, <1>2 DEF PcOf
  <2> QED
    BY <1>1, <2>1 DEF Framed
<1>8. pc \in ObjPcs => Top.obj \in DOMAIN pkgs
  BY <1>4, Points DEF ObjPcs, LoadPcs, Fresh, Unseen, Looking, Batch
<1>9. StackType' /\ Shape'
  BY <1>1, <1>5, <1>6, <1>7, <1>8, CallSound DEF t
<1>10. Slugs'
  BY DEF Sound, Slugs
<1> QED
  BY <1>9, <1>10

\* The dependencies a manifest names.
LEMMA DepsType ==
  ASSUME Sound, NEW p \in Pkgs
  PROVE  cat[p].deps \in Seq(Pkgs) /\ cat[p].dev \in Seq(Pkgs) /\ root.deps \in Seq(Pkgs) /\ root.dev \in Seq(Pkgs)
<1>1. cat[p] \in Manifest /\ root \in [deps : Seq(Pkgs), dev : Seq(Pkgs)]
  BY DEF Sound, Types, GivenType, DataType
<1> QED
  BY <1>1 DEF Manifest

\* What Unpack does.
LEMMA UnpackIs ==
  ASSUME Sound, Unpack
  PROVE  /\ Top.pc = "exec" /\ Top.pc \in ObjPcs /\ faults' \in Nat
         /\ \/ InstallList("unpacked", "unpacked", cat[Pkg].deps) /\ UNCHANGED faults
            \/ Advanced /\ Fault /\ Top'.pc = "cleanup" /\ Top'.rc \in {-1, 256}
         /\ UNCHANGED <<cat, cmd, stale, raced, root, code, failed, fetch, pkgs, visited, disk,
                        cache, unmade, opts, lock, get, json, retried, torn>>
<1>1. /\ Top.pc = "exec" /\ Top.pc \in ObjPcs
      /\ UNCHANGED <<cat, cmd, stale, raced, root, code, failed, fetch, pkgs, visited, disk,
                     cache, unmade, opts, lock, get, json, retried, torn>>
  BY Points DEF Unpack, MainAt, Installing, MainUnchanged
<1>2. CASE InstallList("unpacked", "unpacked", cat[Pkg].deps) /\ UNCHANGED faults
  BY <1>1, <1>2 DEF Sound, Types, CallType
<1>3. ASSUME NEW rc \in {-1, 256}, Fault /\ Leave(rc)
      PROVE  Advanced /\ Fault /\ Top'.pc = "cleanup" /\ Top'.rc \in {-1, 256} /\ faults' \in Nat
  <2>1. rc \in RCs
    BY DEF RCs
  <2>2. /\ stack' \in Seq(FrameType) /\ stack' # <<>>
        /\ Turned(Top') /\ Top' \in FrameType
        /\ Top'.pc = "cleanup" /\ Top'.rc = rc /\ Kept(Top', Top)
    BY <1>3, <2>1, LeaveIs DEF Sound, Types
  <2> QED
    BY <1>3, <2>2, FaultIs DEF Advanced
<1> QED
  BY <1>1, <1>2, <1>3 DEF Unpack

\* Unpack keeps the types, the shape and the library's place.
LEMMA UnpackSound ==
  ASSUME Sound, Unpack
  PROVE  Sound'
<1>1. /\ Top.pc = "exec" /\ Top.pc \in ObjPcs /\ faults' \in Nat
      /\ \/ InstallList("unpacked", "unpacked", cat[Pkg].deps)
         \/ Advanced /\ Top'.pc = "cleanup"
      /\ UNCHANGED <<cat, cmd, stale, raced, root, code, failed, fetch, pkgs, visited, disk,
                     cache, unmade, opts, lock, get, json, retried, torn>>
  BY UnpackIs
<1>2. ThreadsType'
  BY <1>1, SameThreads
<1>3. StackType' /\ Shape' /\ Slugs'
  <2>1. CASE InstallList("unpacked", "unpacked", cat[Pkg].deps)
    <3>1. PICK list \in Seq(Pkgs) : list = cat[Pkg].deps
      BY <1>1, Inside, DepsType
    <3>2. "unpacked" \in Pcs /\ "unpacked" \in Dirs
      BY Points DEF Dirs
    <3> QED
      BY <1>1, <2>1, <3>1, <3>2, ListSound
  <2>2. CASE Advanced /\ Top'.pc = "cleanup"
    BY <1>1, <2>2, AdvancedSound, Points
  <2> QED
    BY <1>1, <2>1, <2>2
<1> QED
  BY <1>1, <1>2, <1>3 DEF Sound, Types, GivenType, DataType, CallType

\* What RunInstall does.
LEMMA RunInstallIs ==
  ASSUME Sound, RunInstall
  PROVE  /\ Top.pc = "unpacked" /\ Top.pc \in ObjPcs /\ Advanced /\ faults' \in Nat
         /\ \/ Top.rc = -1 /\ Top'.pc = "cleanup" /\ Top'.rc = -1 /\ UNCHANGED faults
            \/ Top.rc # -1 /\ Top'.pc = "deps" /\ Top'.rc = Top.rc /\ UNCHANGED faults
            \/ Top.rc # -1 /\ Fault /\ Top'.pc = "cleanup" /\ Top'.rc \in {-1, 256}
         /\ UNCHANGED <<cat, cmd, stale, raced, root, code, failed, fetch, pkgs, visited, disk,
                        cache, unmade, opts, lock, get, json, retried, torn>>
<1>1. /\ Top.pc = "unpacked" /\ Top.pc \in ObjPcs
      /\ UNCHANGED <<cat, cmd, stale, raced, root, code, failed, fetch, pkgs, visited, disk,
                     cache, unmade, opts, lock, get, json, retried, torn>>
  BY Points DEF RunInstall, MainAt, Installing, MainUnchanged
<1>2. "deps" \in Pcs /\ -1 \in RCs
  BY Points DEF RCs
<1>3. CASE Top.rc # -1
  BY <1>1, <1>2, <1>3, CommandIs DEF RunInstall
<1>4. CASE Top.rc = -1
  <2>1. Leave(-1) /\ UNCHANGED faults
    BY <1>4 DEF RunInstall
  <2> QED
    BY <1>1, <1>2, <1>4, <2>1, LeaveIs DEF Advanced, Sound, Types, CallType
<1> QED
  BY <1>3, <1>4

\* RunInstall keeps the types, the shape and the library's place.
LEMMA RunInstallSound ==
  ASSUME Sound, RunInstall
  PROVE  Sound'
<1>1. /\ Top.pc \in ObjPcs /\ Advanced /\ faults' \in Nat /\ Top'.pc \in {"deps", "cleanup"}
      /\ UNCHANGED <<cat, cmd, stale, raced, root, code, failed, fetch, pkgs, visited, disk,
                     cache, unmade, opts, lock, get, json, retried, torn>>
  BY RunInstallIs
<1>2. StackType' /\ Shape' /\ Slugs' /\ ThreadsType'
  BY <1>1, AdvancedSound, Points
<1> QED
  BY <1>1, <1>2 DEF Sound, Types, GivenType, DataType, CallType

\* What Dependencies does.
LEMMA DependenciesIs ==
  ASSUME Sound, Dependencies
  PROVE  /\ Top.pc \in {"deps", "exec"} /\ Top.pc \in ObjPcs /\ Pkg \in Pkgs /\ Top.dir \in Dirs
         /\ InstallList("depsdone", Top.dir, cat[Pkg].deps) /\ cat[Pkg].deps \in Seq(Pkgs)
         /\ UNCHANGED <<cat, cmd, stale, raced, root, code, failed, pkgVars, fetch, pkgs, visited,
                        disk, cache, unmade>>
<1>1. /\ Top.pc \in {"deps", "exec"} /\ Top.pc \in ObjPcs
      /\ InstallList("depsdone", Top.dir, cat[Pkg].deps)
      /\ UNCHANGED <<cat, cmd, stale, raced, root, code, failed, pkgVars, fetch, pkgs, visited,
                     disk, cache, unmade>>
  BY Points DEF Dependencies, MainAt, Installing, MainUnchanged
<1>2. Pkg \in Pkgs /\ Top.dir \in Dirs
  BY <1>1, Inside, TopType, Fields DEF Sound, Types
<1> QED
  BY <1>1, <1>2, DepsType

\* Dependencies keeps the types, the shape and the library's place.
LEMMA DependenciesSound ==
  ASSUME Sound, Dependencies
  PROVE  Sound'
<1>1. /\ Top.pc \in {"deps", "exec"} /\ Top.pc \in ObjPcs /\ Top.dir \in Dirs
      /\ InstallList("depsdone", Top.dir, cat[Pkg].deps) /\ cat[Pkg].deps \in Seq(Pkgs)
      /\ UNCHANGED <<cat, cmd, stale, raced, root, code, failed, pkgVars, fetch, pkgs, visited,
                     disk, cache, unmade>>
  BY DependenciesIs
<1>2. UNCHANGED <<opts, lock, get, json, faults, retried, torn>>
  BY <1>1 DEF pkgVars
<1>3. ThreadsType'
  BY <1>1, <1>2, SameThreads
<1>4. StackType' /\ Shape' /\ Slugs'
  <2>1. PICK list \in Seq(Pkgs), dir \in Dirs : list = cat[Pkg].deps /\ dir = Top.dir
    BY <1>1
  <2>2. "depsdone" \in Pcs
    BY Points
  <2> QED
    BY <1>1, <1>2, <2>1, <2>2, ListSound
<1> QED
  BY <1>1, <1>2, <1>3, <1>4 DEF Sound, Types, GivenType, DataType, CallType

\* What DependenciesDone does.
LEMMA DependenciesDoneIs ==
  ASSUME Sound, DependenciesDone
  PROVE  /\ Top.pc = "depsdone" /\ Top.pc \in ObjPcs /\ Advanced
         /\ Top'.pc = "cleanup" /\ Top'.rc = Top.rc
         /\ UNCHANGED <<cat, cmd, stale, raced, root, code, failed, pkgVars, fetch, pkgs, visited,
                        disk, cache, unmade>>
<1>1. /\ Top.pc = "depsdone" /\ Top.pc \in ObjPcs /\ Leave(Top.rc)
      /\ UNCHANGED <<cat, cmd, stale, raced, root, code, failed, pkgVars, fetch, pkgs, visited,
                     disk, cache, unmade>>
  BY Points DEF DependenciesDone, MainAt, Installing, MainUnchanged
<1>2. PICK rc \in RCs : rc = Top.rc
  BY TopType, Fields DEF Sound, Types
<1>3. Leave(rc)
  BY <1>1, <1>2
<1> QED
  BY <1>1, <1>2, <1>3, LeaveIs DEF Advanced, Sound, Types

\* DependenciesDone keeps the types, the shape and the library's place.
LEMMA DependenciesDoneSound ==
  ASSUME Sound, DependenciesDone
  PROVE  Sound'
<1>1. /\ Top.pc \in ObjPcs /\ Advanced /\ Top'.pc = "cleanup"
      /\ UNCHANGED <<cat, cmd, stale, raced, root, code, failed, pkgVars, fetch, pkgs, visited,
                     disk, cache, unmade>>
  BY DependenciesDoneIs
<1>2. UNCHANGED <<opts, lock, get, json, faults, retried, torn>>
  BY <1>1 DEF pkgVars
<1>3. StackType' /\ Shape' /\ Slugs' /\ ThreadsType'
  BY <1>1, <1>2, AdvancedSound, Points
<1> QED
  BY <1>1, <1>2, <1>3 DEF Sound, Types, GivenType, DataType, CallType

\* What Cleanup does.
LEMMA CleanupIs ==
  ASSUME Sound, Cleanup
  PROVE  /\ Top.pc = "cleanup" /\ Top.pc \in ObjPcs /\ Top.obj \in DOMAIN pkgs /\ Advanced
         /\ Top'.pc = "returned" /\ Top'.rc = Top.rc
         /\ pkgs' \in Seq(ObjectType) /\ DOMAIN pkgs' = DOMAIN pkgs
         /\ pkgs'[Top.obj] = [pkgs[Top.obj] EXCEPT !.name = "freed"]
         /\ \A q \in DOMAIN pkgs : q # Top.obj => pkgs'[q] = pkgs[q]
         /\ UNCHANGED <<cat, cmd, stale, raced, root, code, failed, pkgVars, fetch, visited,
                        disk, cache, unmade>>
<1>1. /\ Top.pc = "cleanup" /\ Top.pc \in ObjPcs /\ Go("returned")
      /\ pkgs' = [pkgs EXCEPT ![Top.obj].name = "freed"]
      /\ UNCHANGED <<cat, cmd, stale, raced, root, code, failed, pkgVars, fetch, visited,
                     disk, cache, unmade>>
  BY Points DEF Cleanup, MainAt, Installing, MainUnchanged
<1>2. Advanced /\ Top'.pc = "returned" /\ Top'.rc = Top.rc
  BY <1>1, GoIs, Points DEF Advanced, Sound, Types
<1>3. Top.obj \in DOMAIN pkgs
  BY <1>1, Inside
<1>4. PICK o \in DOMAIN pkgs : o = Top.obj
  BY <1>3
<1>5. /\ pkgs' \in Seq(ObjectType) /\ DOMAIN pkgs' = DOMAIN pkgs
      /\ pkgs'[o] = [pkgs[o] EXCEPT !.name = "freed"]
      /\ \A q \in DOMAIN pkgs : q # o => pkgs'[q] = pkgs[q]
  BY <1>1, <1>4, NameIs
<1> QED
  BY <1>1, <1>2, <1>4, <1>5

\* Cleanup keeps the types, the shape and the library's place.
LEMMA CleanupSound ==
  ASSUME Sound, Cleanup
  PROVE  Sound'
<1>1. /\ Top.pc \in ObjPcs /\ Advanced /\ Top'.pc = "returned"
      /\ pkgs' \in Seq(ObjectType) /\ DOMAIN pkgs' = DOMAIN pkgs
      /\ UNCHANGED <<cat, cmd, stale, raced, root, code, failed, pkgVars, fetch, visited,
                     disk, cache, unmade>>
  BY CleanupIs
<1>2. UNCHANGED <<opts, lock, get, json, faults, retried, torn>>
  BY <1>1 DEF pkgVars
<1>3. StackType' /\ Shape' /\ Slugs' /\ ThreadsType'
  BY <1>1, <1>2, AdvancedSound, Points
<1> QED
  BY <1>1, <1>2, <1>3 DEF Sound, Types, GivenType, DataType, CallType

\* The next package of a list.
LEMMA NextPackageIs ==
  ASSUME Sound, NextPackage
  PROVE  /\ Top.pc = "next" /\ Top.kind \in {"list", "command"} /\ Top.todo # <<>>
         /\ Head(Top.todo) \in Pkgs /\ Advanced /\ Top'.pc = "slug" /\ Top'.rc = Top.rc
         /\ get' \in [Callers -> Call] /\ get'[Main].pc = "ask" /\ get[Main].pc = "idle"
         /\ get'[Main].pkg = Head(Top.todo)
         /\ UNCHANGED <<cat, cmd, stale, raced, root, code, failed, fetch, pkgs, visited, disk,
                        cache, unmade, opts, lock, json, faults, retried, torn>>
<1>1. /\ Top.pc = "next" /\ Top.kind \in {"list", "command"} /\ Top.todo # <<>>
      /\ Head(Top.todo) \in Pkgs /\ Go("slug") /\ NewFromSlug(Main, Head(Top.todo))
      /\ UNCHANGED <<cat, cmd, stale, raced, root, code, failed, fetch, pkgs, visited, disk,
                     cache, unmade, opts, lock, json, faults, retried, torn>>
  BY DEF NextPackage, MainAt, MainUnchanged, NewFromSlug
<1>2. Advanced /\ Top'.pc = "slug" /\ Top'.rc = Top.rc
  BY <1>1, GoIs, Points DEF Advanced, Sound, Types, Pcs
<1>3. PICK c \in Call : c = [pc |-> "ask", pkg |-> Head(Top.todo), name |-> 1, left |-> Retries]
  <2>1. Retries \in 1..Retries /\ 1 \in DOMAIN ManifestNames
    BY RetriesAssumption DEF ManifestNames
  <2>2. PICK p \in Pkgs : p = Head(Top.todo)
    BY <1>1
  <2>3. [pc |-> "ask", pkg |-> p, name |-> 1, left |-> Retries] \in Call
    BY <2>1 DEF Call
  <2> QED
    BY <2>2, <2>3
<1>4. c.pc = "ask" /\ c.pkg = Head(Top.todo)
  BY <1>3
<1>5. get' = [get EXCEPT ![Main] = c] /\ get[Main].pc = "idle"
  BY <1>1, <1>3 DEF NewFromSlug, At
<1>6. Main \in Callers /\ get \in [Callers -> Call]
  BY MainAssumption DEF Sound, Types, CallType
<1> QED
  BY <1>1, <1>2, <1>4, <1>5, <1>6

\* NextPackage keeps the types, the shape and the library's place.
LEMMA NextPackageSound ==
  ASSUME Sound, NextPackage
  PROVE  Sound'
<1>1. /\ Top.pc = "next" /\ Top.kind \in {"list", "command"} /\ Top.todo # <<>>
      /\ Head(Top.todo) \in Pkgs /\ Advanced /\ Top'.pc = "slug"
      /\ get' \in [Callers -> Call]
      /\ UNCHANGED <<cat, cmd, stale, raced, root, code, failed, fetch, pkgs, visited, disk,
                     cache, unmade, opts, lock, json, faults, retried, torn>>
  BY NextPackageIs
<1>2. Framed(Top', Len(stack))
  <2>1. Len(stack) \in DOMAIN stack /\ Len(stack) \in Nat /\ Top = stack[Len(stack)]
    BY TopType DEF Sound, Types
  <2>2. Framed(Top, Len(stack))
    BY <2>1 DEF Sound, Shape
  <2>3. Top'.pc \in PcOf(Top'.kind)
    BY <1>1 DEF PcOf, Advanced, Kept
  <2> QED
    BY <1>1, <2>1, <2>2, <2>3 DEF Framed, Advanced, Kept
<1>3. StackType' /\ Shape'
  BY <1>1, <1>2, TurnSound, Points DEF Advanced, Kept
<1>4. ThreadsType'
  BY <1>1, SameThreads
<1> QED
  BY <1>1, <1>3, <1>4 DEF Slugs, Sound, Types, GivenType, DataType, CallType

\* No package comes of the slug.
LEMMA NoPackageIs ==
  ASSUME Sound, NoPackage
  PROVE  /\ Top.pc = "slug" /\ Top.kind \in {"list", "command"} /\ get[Main].pc = "null"
         /\ Top.todo # <<>> /\ Head(Top.todo) \in Pkgs
         /\ \/ Top.kind = "list" /\ Advanced /\ Top'.pc = "end" /\ Top'.rc = -1 /\ UNCHANGED code
            \/ Top.kind = "command" /\ UNCHANGED stack /\ code' \in {<<1>>, <<255>>}
         /\ Result(Head(Top.todo), -1)
         /\ Return(Main) /\ get' \in [Callers -> Call] /\ get'[Main].pc = "idle"
         /\ UNCHANGED <<cat, cmd, stale, raced, root, fetch, pkgs, visited, disk,
                        cache, unmade, opts, lock, json, faults, retried, torn>>
<1>1. /\ Top.pc = "slug" /\ get[Main].pc = "null" /\ Return(Main)
      /\ Result(Head(Top.todo), -1)
      /\ UNCHANGED <<cat, cmd, stale, raced, root, fetch, pkgs, visited, disk,
                     cache, unmade>>
  BY DEF NoPackage, MainAt, MainUnchanged, At
<1>2. /\ get' \in [Callers -> Call] /\ get'[Main].pc = "idle"
      /\ UNCHANGED <<opts, lock, json, faults, retried, torn>>
  BY <1>1, ReturnCall
<1>3. Top \in FrameType /\ Len(stack) \in DOMAIN stack /\ Top = stack[Len(stack)]
  BY TopType DEF Sound, Types
<1>4. Top.todo # <<>> /\ Head(Top.todo) \in Pkgs /\ Top.kind \in {"list", "command"}
  BY <1>1, <1>3, Inside DEF Sound, Shape, Framed
<1>5. CASE Top.kind = "list"
  <2>1. Put([Top EXCEPT !.pc = "end", !.rc = -1]) /\ UNCHANGED code
    BY <1>5 DEF NoPackage
  <2>2. PICK r \in RCs : r = -1
    BY DEF RCs
  <2>3. PICK f \in FrameType : f = [Top EXCEPT !.pc = "end", !.rc = r]
    BY <1>3 DEF FrameType, Pcs
  <2>4. f.pc = "end" /\ f.rc = r /\ Kept(f, Top)
    BY <1>3, <2>3 DEF FrameType, Kept
  <2>5. Put(f)
    BY <2>1, <2>2, <2>3
  <2>6. Turned(f) /\ stack' \in Seq(FrameType) /\ stack' # <<>>
    BY <2>5, PutIs DEF Sound, Types
  <2>7. Top' = f
    BY <2>6 DEF Turned
  <2> QED
    BY <1>1, <1>2, <1>4, <1>5, <2>1, <2>2, <2>4, <2>6, <2>7 DEF Advanced
<1>6. CASE Top.kind # "list"
  <2>1. UNCHANGED stack /\ code' = IF cmd.program = "upgrade" THEN ExitStatus(-1) ELSE <<1>>
    BY <1>6 DEF NoPackage
  <2>2. ExitStatus(-1) = <<255>>
    <3>1. (-1 + 256) % 256 = 255
      OBVIOUS
    <3> QED
      BY <3>1 DEF ExitStatus
  <2> QED
    BY <1>1, <1>2, <1>4, <1>6, <2>1, <2>2
<1> QED
  BY <1>5, <1>6

\* NoPackage keeps the types, the shape and the library's place.
LEMMA NoPackageSound ==
  ASSUME Sound, NoPackage
  PROVE  Sound'
<1>1. /\ Top.pc = "slug" /\ Top.kind \in {"list", "command"}
      /\ \/ Top.kind = "list" /\ Advanced /\ Top'.pc = "end" /\ UNCHANGED code
         \/ Top.kind = "command" /\ UNCHANGED stack /\ code' \in {<<1>>, <<255>>}
      /\ get' \in [Callers -> Call] /\ get'[Main].pc = "idle"
      /\ UNCHANGED <<cat, cmd, stale, raced, root, fetch, pkgs, visited, disk,
                     cache, unmade, opts, lock, json, faults, retried, torn>>
  BY NoPackageIs
<1>2. StackType' /\ Shape'
  <2>1. CASE Top.kind = "list" /\ Advanced /\ Top'.pc = "end"
    <3>1. Len(stack) \in DOMAIN stack /\ Len(stack) \in Nat /\ Top = stack[Len(stack)]
      BY TopType DEF Sound, Types
    <3>2. Framed(Top, Len(stack))
      BY <3>1 DEF Sound, Shape
    <3>3. Framed(Top', Len(stack))
      BY <2>1, <3>1, <3>2 DEF Framed, Advanced, Kept, PcOf
    <3> QED
      BY <1>1, <2>1, <3>3, TurnSound, Points DEF Advanced, Kept
  <2>2. CASE UNCHANGED stack
    BY <1>1, <2>2, SameStack
  <2> QED
    BY <1>1, <2>1, <2>2
<1>3. ThreadsType'
  BY <1>1, SameThreads
<1>4. Slugs' /\ code' \in {<<>>, <<0>>, <<1>>, <<11>>, <<255>>}
  BY <1>1 DEF Slugs, Sound, Types, DataType
<1> QED
  BY <1>1, <1>2, <1>3, <1>4 DEF Sound, Types, GivenType, DataType, CallType

\* The packages' results and frees that the way back leaves.
Settled(o, rc) ==
    /\ pkgs' \in Seq(ObjectType) /\ DOMAIN pkgs' = DOMAIN pkgs
    /\ \A q \in DOMAIN pkgs :
           /\ pkgs'[q].pkg = pkgs[q].pkg /\ pkgs'[q].dir = pkgs[q].dir
           /\ pkgs'[q].refs = pkgs[q].refs /\ pkgs'[q].name = pkgs[q].name
           /\ pkgs'[q].rc = (IF q = o THEN rc ELSE pkgs[q].rc)
           /\ pkgs'[q].freed => pkgs[q].freed \/ pkgs[q].refs = 0

\* A list's package is back.
LEMMA ListReturnedIs ==
  ASSUME Sound, ListReturned
  PROVE  /\ Top.pc = "returned" /\ Top.kind = "list" /\ Top.obj \in DOMAIN pkgs
         /\ Settled(Top.obj, Top.rc) /\ Result(Pkg, Top.rc)
         /\ stack' \in Seq(FrameType) /\ stack' # <<>> /\ Turned(Top') /\ Top' \in FrameType
         /\ Top'.kind = Top.kind /\ Top'.todo = Top.todo /\ Top'.rc = Top.rc /\ Top'.name = Top.name
         /\ Top'.pc = (IF Top.rc = -1 THEN "end" ELSE "next")
         /\ UNCHANGED <<cat, cmd, stale, raced, root, code, pkgVars, fetch, visited, disk,
                        cache, unmade>>
<1>1. /\ Top.pc = "returned" /\ Top.kind = "list" /\ Result(Pkg, Top.rc)
      /\ UNCHANGED <<cat, cmd, stale, raced, root, code, pkgVars, fetch, visited, disk,
                        cache, unmade>>
  BY DEF ListReturned, MainAt, MainUnchanged
<1>2. Top.obj \in DOMAIN pkgs /\ Top \in FrameType /\ Top.rc \in RCs
  BY <1>1, Inside, TopType, Fields, Points DEF Sound, Types
<1>3. PICK o \in DOMAIN pkgs, r \in RCs : o = Top.obj /\ r = Top.rc
  BY <1>2
<1>4. pkgs' = [pkgs EXCEPT ![o].rc = r]
  BY <1>3 DEF ListReturned
<1>5. Settled(o, r)
  BY <1>4, RcIs DEF Settled
<1>6. PICK pc \in {"end", "next"} : pc = IF Top.rc = -1 THEN "end" ELSE "next"
  OBVIOUS
<1>7. PICK own \in SUBSET Nat : own = IF Top.rc = -1 THEN Top.owned ELSE Top.owned \cup {Top.obj}
  BY <1>2 DEF FrameType
<1>8. PICK f : f = [Top EXCEPT !.pc = pc, !.owned = own]
  OBVIOUS
<1>9. f \in FrameType
  BY <1>2, <1>8 DEF FrameType, Pcs
<1>10. f.kind = Top.kind /\ f.todo = Top.todo /\ f.rc = Top.rc /\ f.pc = pc /\ f.name = Top.name
  BY <1>2, <1>8 DEF FrameType
<1>11. Put(f)
  <2>1. CASE Top.rc = -1
    <3>1. f = [Top EXCEPT !.pc = "end"]
      BY <1>2, <1>6, <1>7, <1>8, <2>1 DEF FrameType
    <3> QED
      BY <2>1, <3>1 DEF ListReturned, Go
  <2>2. CASE Top.rc # -1
    <3>1. f = [Top EXCEPT !.pc = "next", !.owned = @ \cup {Top.obj}]
      BY <1>2, <1>6, <1>7, <1>8, <2>2 DEF FrameType
    <3> QED
      BY <2>2, <3>1 DEF ListReturned
  <2> QED
    BY <2>1, <2>2
<1>12. Turned(f) /\ stack' \in Seq(FrameType) /\ stack' # <<>>
  BY <1>9, <1>11, PutIs DEF Sound, Types
<1>13. Top' = f
  BY <1>12 DEF Turned
<1> QED
  BY <1>1, <1>2, <1>3, <1>5, <1>6, <1>9, <1>10, <1>12, <1>13

\* main is at a place of the innermost call that is not in clib_package_install.
LEMMA OuterSound ==
  ASSUME Sound, stack' \in Seq(FrameType), stack' # <<>>, Turned(Top'), Top' \in FrameType,
         Top'.kind = Top.kind, Top'.pc \in PcOf(Top.kind), Top'.pc \notin ObjPcs \cup {"slug"},
         Top.kind = "alone" => Top'.rc = Top.rc, DOMAIN pkgs' = DOMAIN pkgs
  PROVE  StackType' /\ Shape'
<1>1. Len(stack) \in DOMAIN stack /\ Len(stack) \in Nat /\ Top = stack[Len(stack)]
  BY TopType DEF Sound, Types
<1>2. Framed(Top, Len(stack))
  BY <1>1 DEF Sound, Shape
<1>3. Framed(Top', Len(stack))
  BY <1>1, <1>2 DEF Framed
<1> QED
  BY <1>3, TurnSound

\* ListReturned keeps the types, the shape and the library's place.
LEMMA ListReturnedSound ==
  ASSUME Sound, ListReturned
  PROVE  Sound'
<1>1. /\ Top.pc = "returned" /\ Top.kind = "list"
      /\ Settled(Top.obj, Top.rc)
      /\ stack' \in Seq(FrameType) /\ stack' # <<>> /\ Turned(Top') /\ Top' \in FrameType
      /\ Top'.kind = Top.kind /\ Top'.pc \in {"next", "end"}
      /\ UNCHANGED <<cat, cmd, stale, raced, root, code, pkgVars, fetch, visited, disk,
                     cache, unmade>>
  BY ListReturnedIs
<1>2. UNCHANGED <<opts, lock, get, json, faults, retried, torn>>
  BY <1>1 DEF pkgVars
<1>3. pkgs' \in Seq(ObjectType) /\ DOMAIN pkgs' = DOMAIN pkgs
  BY <1>1 DEF Settled
<1>4. Top'.pc \in PcOf(Top.kind) /\ Top'.pc \notin ObjPcs \cup {"slug"}
  BY <1>1, Points DEF PcOf
<1>5. StackType' /\ Shape'
  BY <1>1, <1>3, <1>4, OuterSound
<1>6. ThreadsType'
  BY <1>1, <1>2, <1>3, SameThreads
<1>7. Slugs'
  BY <1>1, <1>2 DEF Sound, Slugs
<1> QED
  BY <1>1, <1>2, <1>3, <1>5, <1>6, <1>7 DEF Sound, Types, GivenType, DataType, CallType

\* Who waits for a call.
LEMMA Caller ==
  ASSUME Sound, Len(stack) > 1
  PROVE  /\ Len(stack) - 1 \in DOMAIN stack /\ stack[Len(stack) - 1] \in FrameType
         /\ Link(stack[Len(stack) - 1], Top) /\ Framed(stack[Len(stack) - 1], Len(stack) - 1)
         /\ Top.kind = "local" => Len(stack) = 2
<1> PICK n \in Nat : n = Len(stack)
  BY TopType DEF Sound, Types
<1>1. n \in DOMAIN stack /\ DOMAIN stack = 1..n /\ Top = stack[n] /\ n > 1
  BY TopType DEF Sound, Types
<1>2. n - 1 \in DOMAIN stack /\ (n - 1) + 1 = n
  BY <1>1
<1>3. Link(stack[n - 1], stack[n])
  BY <1>1, <1>2 DEF Sound, Shape
<1>4. Framed(stack[n - 1], n - 1) /\ Framed(stack[n], n)
  BY <1>1, <1>2 DEF Sound, Shape
<1>5. stack[n - 1] \in FrameType
  BY <1>2, TopType DEF Sound, Types
<1> QED
  BY <1>1, <1>2, <1>3, <1>4, <1>5 DEF Framed

\* The first call is the command's.
LEMMA Bottom ==
  ASSUME Sound
  PROVE  /\ Top.kind \in {"list", "local"} => Len(stack) > 1
         /\ Top.kind \in {"command", "alone"} => Len(stack) = 1
<1>1. Len(stack) \in DOMAIN stack /\ Len(stack) \in Nat \ {0} /\ Top = stack[Len(stack)]
  BY TopType DEF Sound, Types
<1>2. Framed(Top, Len(stack))
  BY <1>1 DEF Sound, Shape
<1>3. (Len(stack) = 1) <=> (Top.kind \in {"command", "alone"})
  BY <1>2 DEF Framed
<1>4. PICK n \in Nat \ {0} : n = Len(stack)
  BY <1>1
<1> QED
  BY <1>3, <1>4

\* A list is done, or given up.
LEMMA EndOfListIs ==
  ASSUME Sound, EndOfList
  PROVE  /\ Top.kind = "list" /\ (Top.pc = "end" \/ (Top.pc = "next" /\ Top.todo = <<>>))
         /\ Len(stack) > 1 /\ Link(stack[Len(stack) - 1], Top)
         /\ Popped(IF Top.pc = "end" THEN -1 ELSE 0)
         /\ stack' \in Seq(FrameType) /\ stack' # <<>>
         /\ Settled(0, 0)
         /\ UNCHANGED <<cat, cmd, stale, raced, root, code, failed, pkgVars, fetch, visited, disk,
                        cache, unmade>>
<1>1. /\ Top.pc = "end" \/ (Top.pc = "next" /\ Top.kind = "list" /\ Top.todo = <<>>)
      /\ pkgs' = Freed(Top.owned)
      /\ UNCHANGED <<cat, cmd, stale, raced, root, code, failed, pkgVars, fetch, visited, disk,
                     cache, unmade>>
  BY DEF EndOfList, MainAt, MainUnchanged
<1>2. Len(stack) \in DOMAIN stack /\ Top = stack[Len(stack)] /\ Top \in FrameType
  BY TopType DEF Sound, Types
<1>3. Top.kind = "list"
  <2>1. Top.pc \in PcOf(Top.kind) /\ Top.kind \in Kinds
    BY <1>2, Fields DEF Sound, Shape, Framed
  <2>2. "end" \notin ObjPcs
    BY Points
  <2> QED
    BY <1>1, <2>1, <2>2 DEF PcOf, Kinds
<1>4. Len(stack) > 1 /\ Link(stack[Len(stack) - 1], Top)
  BY <1>3, Bottom, Caller
<1>5. PICK r \in RCs : r = IF Top.pc = "end" THEN -1 ELSE 0
  BY DEF RCs
<1>6. ReturnTo(r)
  BY <1>5 DEF EndOfList
<1>7. Popped(r) /\ stack' \in Seq(FrameType) /\ stack' # <<>>
  BY <1>4, <1>6, ReturnIs DEF Sound, Types
<1>8. Settled(0, 0)
  <2>1. pkgs \in Seq(ObjectType)
    BY DEF Sound, Types
  <2>2. 0 \notin DOMAIN pkgs
    BY <2>1, LenProperties
  <2>3. /\ pkgs' \in Seq(ObjectType) /\ DOMAIN pkgs' = DOMAIN pkgs
        /\ \A o \in DOMAIN pkgs :
              /\ pkgs'[o].pkg = pkgs[o].pkg /\ pkgs'[o].dir = pkgs[o].dir
              /\ pkgs'[o].refs = pkgs[o].refs /\ pkgs'[o].name = pkgs[o].name
              /\ pkgs'[o].rc = pkgs[o].rc
              /\ pkgs'[o].freed => pkgs[o].freed \/ pkgs[o].refs = 0
    <3>1. PICK owned : owned = Top.owned
      OBVIOUS
    <3>2. pkgs' = Freed(owned)
      BY <1>1, <3>1
    <3> QED
      BY <2>1, <3>2, FreedType
  <2> QED
    BY <2>2, <2>3 DEF Settled
<1> QED
  BY <1>1, <1>3, <1>4, <1>5, <1>7, <1>8

\* EndOfList keeps the types, the shape and the library's place.
LEMMA EndOfListSound ==
  ASSUME Sound, EndOfList
  PROVE  Sound'
<1>1. /\ Top.kind = "list" /\ Top.pc \in {"end", "next"}
      /\ Link(stack[Len(stack) - 1], Top)
      /\ Popped(IF Top.pc = "end" THEN -1 ELSE 0)
      /\ stack' \in Seq(FrameType) /\ stack' # <<>>
      /\ Settled(0, 0)
      /\ UNCHANGED <<cat, cmd, stale, raced, root, code, failed, pkgVars, fetch, visited, disk,
                     cache, unmade>>
  BY EndOfListIs
<1>2. UNCHANGED <<opts, lock, get, json, faults, retried, torn>>
  BY <1>1 DEF pkgVars
<1>3. pkgs' \in Seq(ObjectType) /\ DOMAIN pkgs' = DOMAIN pkgs
  BY <1>1 DEF Settled
<1>4. PICK r \in RCs : r = IF Top.pc = "end" THEN -1 ELSE 0
  BY DEF RCs
<1>5. stack[Len(stack) - 1].kind # "alone"
  BY <1>1 DEF Link
<1>6. StackType' /\ Shape'
  BY <1>1, <1>3, <1>4, <1>5, PopSound
<1>7. ThreadsType'
  BY <1>1, <1>2, <1>3, SameThreads
<1>8. Slugs'
  BY <1>1, <1>2 DEF Sound, Slugs
<1> QED
  BY <1>1, <1>2, <1>3, <1>6, <1>7, <1>8 DEF Sound, Types, GivenType, DataType, CallType

\* The packages of a list, none of which is the name that stands for no list.
LEMMA ListOfPkgs ==
  ASSUME NEW s \in Seq(Pkgs)
  PROVE  ListOf(s) = {s[i] : i \in DOMAIN s}
<1>1. s # NoList
  <2>1. SUFFICES ASSUME s = NoList PROVE FALSE
    OBVIOUS
  <2>2. Len(s) = 1 /\ s[1] = "none"
    BY <2>1 DEF NoList
  <2>3. s[1] \in Pkgs
    BY <2>2, ElementOfSeq
  <2> QED
    BY <2>2, <2>3, NamesAssumption
<1> QED
  BY <1>1 DEF ListOf

\* A package that is installed is saved in the project's manifest once.
LEMMA SaveToIs ==
  ASSUME Sound, Top.pc \in ObjPcs, NEW list \in {"deps", "dev"}
  PROVE  /\ SaveTo(list) \in [deps : Seq(Pkgs), dev : Seq(Pkgs)]
         /\ \A l \in {"deps", "dev"} : ListOf(root[l]) \subseteq ListOf(SaveTo(list)[l])
         /\ \A l \in {"deps", "dev"} : ListOf(SaveTo(list)[l]) \subseteq ListOf(root[l]) \cup {Pkg}
         /\ SaveTo(list) # root => \E m \in DOMAIN ManifestNames : cmd.manifests[m] = "good"
<1>1. Pkg \in Pkgs /\ root \in [deps : Seq(Pkgs), dev : Seq(Pkgs)] /\ cmd \in Invocation
  BY Inside DEF Sound, Types, DataType, GivenType
<1>2. root.deps \in Seq(Pkgs) /\ root.dev \in Seq(Pkgs) /\ DOMAIN root = {"deps", "dev"}
  BY <1>1
<1>3. DOMAIN cmd.manifests = DOMAIN ManifestNames
  BY <1>1 DEF Invocation
<1>4. PICK s \in Seq(Pkgs) : s = root[list]
  BY <1>1
<1>5. PICK t \in Seq(Pkgs) : t = IF \E m \in DOMAIN s : s[m] = Pkg THEN s ELSE Append(s, Pkg)
  BY <1>1, AppendProperties
<1>6. ListOf(s) \subseteq ListOf(t) /\ ListOf(t) \subseteq ListOf(s) \cup {Pkg}
  <2>0. ListOf(s) = {s[i] : i \in DOMAIN s} /\ ListOf(t) = {t[i] : i \in DOMAIN t}
    BY ListOfPkgs
  <2>1. CASE \E m \in DOMAIN s : s[m] = Pkg
    BY <1>5, <2>1
  <2>2. CASE ~\E m \in DOMAIN s : s[m] = Pkg
    <3>1. /\ Len(t) = Len(s) + 1 /\ \A i \in 1..Len(s) : t[i] = s[i]
          /\ t[Len(s) + 1] = Pkg
      BY <1>1, <1>5, <2>2, AppendProperties
    <3>2. Len(s) \in Nat /\ DOMAIN s = 1..Len(s) /\ DOMAIN t = 1..(Len(s) + 1)
      BY <3>1, LenProperties
    <3>3. ASSUME NEW i \in DOMAIN s PROVE i \in DOMAIN t /\ t[i] = s[i]
      BY <3>1, <3>2
    <3>4. ASSUME NEW i \in DOMAIN t PROVE t[i] = Pkg \/ (i \in DOMAIN s /\ t[i] = s[i])
      BY <3>1, <3>2
    <3> QED
      BY <2>0, <3>3, <3>4
  <2> QED
    BY <2>1, <2>2
<1>7. SaveTo(list) = root \/ SaveTo(list) = [root EXCEPT ![list] = t]
  BY <1>4, <1>5 DEF SaveTo
<1>8. SaveTo(list) # root => \E m \in DOMAIN ManifestNames : cmd.manifests[m] = "good"
  BY <1>3 DEF SaveTo
<1>9. CASE SaveTo(list) = root
  BY <1>1, <1>8, <1>9
<1>10. CASE SaveTo(list) = [root EXCEPT ![list] = t]
  <2>1. PICK r : r = [root EXCEPT ![list] = t]
    OBVIOUS
  <2>2. CASE list = "deps"
    <3>1. r \in [deps : Seq(Pkgs), dev : Seq(Pkgs)] /\ r.deps = t /\ r.dev = root.dev
      BY <1>1, <2>1, <2>2
    <3>2. root.deps = s
      BY <1>4, <2>2
    <3> QED
      BY <1>6, <1>8, <1>10, <2>1, <3>1, <3>2
  <2>3. CASE list = "dev"
    <3>1. r \in [deps : Seq(Pkgs), dev : Seq(Pkgs)] /\ r.dev = t /\ r.deps = root.deps
      BY <1>1, <2>1, <2>3
    <3>2. root.dev = s
      BY <1>4, <2>3
    <3> QED
      BY <1>6, <1>8, <1>10, <2>1, <3>1, <3>2
  <2> QED
    BY <2>2, <2>3
<1> QED
  BY <1>7, <1>9, <1>10

\* install_package of the command is left with rc.
LeftWith(rc) ==
    /\ Settled(Top.obj, rc)
    /\ root' \in [deps : Seq(Pkgs), dev : Seq(Pkgs)]
    /\ root' = (IF rc = 0 /\ cmd.save # "no" THEN SaveTo(cmd.save) ELSE root)
    /\ Result(Pkg, rc)
    /\ \/ rc = -1 /\ code' = <<1>> /\ UNCHANGED stack
       \/ rc # -1 /\ Advanced /\ Top'.pc = "next" /\ Top'.rc = Top.rc /\ UNCHANGED code

\* install_package of the command is left.
LEMMA LeavePackageIs ==
  ASSUME Sound, Top.pc \in ObjPcs, LeavePackage(Top.rc)
  PROVE  LeftWith(Top.rc)
<1>1. Top.obj \in DOMAIN pkgs /\ Top.rc \in RCs
  BY Inside, TopType, Fields DEF Sound, Types
<1>2. PICK o \in DOMAIN pkgs, rc \in RCs : o = Top.obj /\ rc = Top.rc
  BY <1>1
<1>3. PICK objs : objs = {Top.obj}
  OBVIOUS
<1>4. pkgs' = [Freed(objs) EXCEPT ![o].rc = rc]
  BY <1>2, <1>3 DEF LeavePackage
<1>5. Settled(o, rc)
  BY <1>4, RcIs DEF Settled
<1>6. root' = (IF rc = 0 /\ cmd.save # "no" THEN SaveTo(cmd.save) ELSE root)
  BY <1>2 DEF LeavePackage
<1>7. root' \in [deps : Seq(Pkgs), dev : Seq(Pkgs)]
  <2>1. cmd.save \in {"no", "deps", "dev"} /\ root \in [deps : Seq(Pkgs), dev : Seq(Pkgs)]
    BY DEF Sound, Types, GivenType, DataType, Invocation
  <2>2. CASE rc = 0 /\ cmd.save # "no"
    BY <1>6, <2>1, <2>2, SaveToIs
  <2>3. CASE ~(rc = 0 /\ cmd.save # "no")
    BY <1>6, <2>1, <2>3
  <2> QED
    BY <2>2, <2>3
<1>10. Result(Pkg, rc)
  BY <1>2 DEF LeavePackage
<1>8. CASE rc = -1
  BY <1>2, <1>5, <1>6, <1>7, <1>8, <1>10 DEF LeftWith, LeavePackage
<1>9. CASE rc # -1
  <2>1. Go("next") /\ UNCHANGED code
    BY <1>2, <1>9 DEF LeavePackage
  <2>2. Advanced /\ Top'.pc = "next" /\ Top'.rc = Top.rc
    BY <2>1, GoIs DEF Advanced, Sound, Types, Pcs
  <2> QED
    BY <1>2, <1>5, <1>6, <1>7, <1>9, <1>10, <2>1, <2>2 DEF LeftWith
<1> QED
  BY <1>8, <1>9

\* The command goes on, or ends.
LEMMA LeftSound ==
  ASSUME Sound, Top.kind = "command", Top.pc \in ObjPcs, LeftWith(Top.rc), UNCHANGED <<fetch, lock>>
  PROVE  /\ StackType' /\ Shape' /\ ThreadsType' /\ pkgs' \in Seq(ObjectType)
         /\ code' \in {<<>>, <<0>>, <<1>>, <<11>>, <<255>>}
         /\ Top.pc # "slug" /\ Top'.pc # "slug"
<1>1. pkgs' \in Seq(ObjectType) /\ DOMAIN pkgs' = DOMAIN pkgs
  BY DEF LeftWith, Settled
<1>2. ThreadsType'
  BY <1>1, SameThreads
<1>3. CASE code' = <<1>> /\ UNCHANGED stack
  <2>1. StackType' /\ Shape'
    BY <1>1, <1>3, SameStack
  <2>2. Top' = Top
    BY <1>3 DEF Top
  <2> QED
    BY <1>1, <1>2, <1>3, <2>1, <2>2, Points
<1>4. CASE Advanced /\ Top'.pc = "next" /\ UNCHANGED code
  <2>1. Top'.pc \in PcOf(Top.kind) /\ Top'.pc \notin ObjPcs \cup {"slug"}
    BY <1>4, Points DEF PcOf
  <2>2. StackType' /\ Shape'
    BY <1>1, <1>4, <2>1, OuterSound DEF Advanced, Kept
  <2> QED
    BY <1>1, <1>2, <1>4, <2>1, <2>2, Points DEF Sound, Types, DataType
<1> QED
  BY <1>3, <1>4 DEF LeftWith

\* What becomes of the command when its package is back.
LEMMA PackageReturnedIs ==
  ASSUME Sound, PackageReturned
  PROVE  /\ Top.pc = "returned" /\ Top.kind = "command" /\ Top.pc \in ObjPcs
         /\ cmd.program # "upgrade"
         /\ \/ /\ Top.rc = 0 /\ cmd.dev /\ cat[Pkg].dev \in Seq(Pkgs)
               /\ InstallList("developed", "deps", cat[Pkg].dev) /\ UNCHANGED <<pkgs, root, code, failed>>
            \/ ~(Top.rc = 0 /\ cmd.dev) /\ LeftWith(Top.rc)
         /\ UNCHANGED <<cat, cmd, stale, raced, pkgVars, fetch, visited, disk, cache, unmade>>
<1>1. /\ Top.pc = "returned" /\ Top.kind = "command" /\ cmd.program # "upgrade"
      /\ UNCHANGED <<cat, cmd, stale, raced, pkgVars, fetch, visited, disk, cache, unmade>>
  BY DEF PackageReturned, MainAt, MainUnchanged
<1>2. Top.pc \in ObjPcs
  BY <1>1, Points
<1>3. cat[Pkg].dev \in Seq(Pkgs)
  BY <1>2, Inside, DepsType
<1>4. CASE Top.rc = 0 /\ cmd.dev
  BY <1>1, <1>2, <1>3, <1>4 DEF PackageReturned
<1>5. CASE ~(Top.rc = 0 /\ cmd.dev)
  BY <1>1, <1>2, <1>5, LeavePackageIs DEF PackageReturned
<1> QED
  BY <1>4, <1>5

\* PackageReturned keeps the types, the shape and the library's place.
LEMMA PackageReturnedSound ==
  ASSUME Sound, PackageReturned
  PROVE  Sound'
<1>1. /\ Top.pc = "returned" /\ Top.kind = "command" /\ Top.pc \in ObjPcs
      /\ \/ /\ cat[Pkg].dev \in Seq(Pkgs)
            /\ InstallList("developed", "deps", cat[Pkg].dev) /\ UNCHANGED <<pkgs, root, code, failed>>
         \/ LeftWith(Top.rc)
      /\ UNCHANGED <<cat, cmd, stale, raced, pkgVars, fetch, visited, disk, cache, unmade>>
  BY PackageReturnedIs
<1>2. UNCHANGED <<opts, lock, get, json, faults, retried, torn>>
  BY <1>1 DEF pkgVars
<1>3. CASE /\ cat[Pkg].dev \in Seq(Pkgs)
           /\ InstallList("developed", "deps", cat[Pkg].dev) /\ UNCHANGED <<pkgs, root, code, failed>>
  <2>1. PICK list \in Seq(Pkgs) : list = cat[Pkg].dev
    BY <1>3
  <2>2. "developed" \in Pcs /\ "deps" \in Dirs
    BY DEF Pcs, ObjPcs, Dirs
  <2>3. StackType' /\ Shape' /\ Slugs'
    BY <1>1, <1>2, <1>3, <2>1, <2>2, ListSound
  <2>4. ThreadsType'
    BY <1>1, <1>2, <1>3, SameThreads
  <2> QED
    BY <1>1, <1>2, <1>3, <2>3, <2>4 DEF Sound, Types, GivenType, DataType, CallType
<1>4. CASE LeftWith(Top.rc)
  <2>1. /\ StackType' /\ Shape' /\ ThreadsType' /\ pkgs' \in Seq(ObjectType)
        /\ code' \in {<<>>, <<0>>, <<1>>, <<11>>, <<255>>}
        /\ Top.pc # "slug" /\ Top'.pc # "slug"
    BY <1>1, <1>2, <1>4, LeftSound
  <2>2. root' \in [deps : Seq(Pkgs), dev : Seq(Pkgs)]
    BY <1>4 DEF LeftWith
  <2> QED
    BY <1>1, <1>2, <2>1, <2>2 DEF Sound, Slugs, Types, GivenType, DataType, CallType
<1> QED
  BY <1>1, <1>3, <1>4

\* What Developed does.
LEMMA DevelopedIs ==
  ASSUME Sound, Developed
  PROVE  /\ Top.pc = "developed" /\ Top.kind = "command" /\ Top.pc \in ObjPcs
         /\ LeftWith(Top.rc)
         /\ UNCHANGED <<cat, cmd, stale, raced, pkgVars, fetch, visited, disk, cache, unmade>>
<1>1. /\ Top.pc = "developed" /\ Top.kind = "command" /\ LeavePackage(Top.rc)
      /\ UNCHANGED <<cat, cmd, stale, raced, pkgVars, fetch, visited, disk, cache, unmade>>
  BY DEF Developed, MainAt, MainUnchanged
<1>2. Top.pc \in ObjPcs
  BY <1>1 DEF ObjPcs
<1> QED
  BY <1>1, <1>2, LeavePackageIs

\* Developed keeps the types, the shape and the library's place.
LEMMA DevelopedSound ==
  ASSUME Sound, Developed
  PROVE  Sound'
<1>1. /\ Top.pc = "developed" /\ Top.kind = "command" /\ Top.pc \in ObjPcs
      /\ LeftWith(Top.rc)
      /\ UNCHANGED <<cat, cmd, stale, raced, pkgVars, fetch, visited, disk, cache, unmade>>
  BY DevelopedIs
<1>2. UNCHANGED <<opts, lock, get, json, faults, retried, torn>>
  BY <1>1 DEF pkgVars
<1>3. /\ StackType' /\ Shape' /\ ThreadsType' /\ pkgs' \in Seq(ObjectType)
      /\ code' \in {<<>>, <<0>>, <<1>>, <<11>>, <<255>>}
      /\ Top.pc # "slug" /\ Top'.pc # "slug"
  BY <1>1, <1>2, LeftSound
<1>4. root' \in [deps : Seq(Pkgs), dev : Seq(Pkgs)]
  BY <1>1 DEF LeftWith
<1> QED
  BY <1>1, <1>2, <1>3, <1>4 DEF Sound, Slugs, Types, GivenType, DataType, CallType

\* The status an exit leaves of each result.
LEMMA StatusIs ==
  /\ ExitStatus(-1) = <<255>> /\ ExitStatus(0) = <<0>> /\ ExitStatus(1) = <<1>>
  /\ ExitStatus(11) = <<11>> /\ ExitStatus(256) = <<0>>
<1>1. (-1 + 256) % 256 = 255 /\ (0 + 256) % 256 = 0 /\ (1 + 256) % 256 = 1
  OBVIOUS
<1>2. (11 + 256) % 256 = 11 /\ (256 + 256) % 256 = 0
  OBVIOUS
<1> QED
  BY <1>1, <1>2 DEF ExitStatus

\* What Upgraded does.
LEMMA UpgradedIs ==
  ASSUME Sound, Upgraded
  PROVE  /\ Top.pc = "returned" /\ Top.kind = "command" /\ Top.pc \in ObjPcs
         /\ cmd.program = "upgrade"
         /\ Settled(Top.obj, Top.rc) /\ Result(Pkg, Top.rc)
         /\ code' = ExitStatus(Top.rc) /\ code' \in {<<0>>, <<1>>, <<11>>, <<255>>}
         /\ UNCHANGED <<cat, cmd, stale, raced, pkgVars, fetch, visited, disk, cache, unmade,
                        root, stack>>
<1>1. /\ Top.pc = "returned" /\ Top.kind = "command" /\ cmd.program = "upgrade"
      /\ Result(Pkg, Top.rc)
      /\ UNCHANGED <<cat, cmd, stale, raced, pkgVars, fetch, visited, disk, cache, unmade,
                     root, stack>>
  BY DEF Upgraded, MainAt, MainUnchanged
<1>2. Top.pc \in ObjPcs
  BY <1>1, Points
<1>3. Top.obj \in DOMAIN pkgs /\ Top.rc \in RCs
  BY <1>2, Inside, TopType, Fields DEF Sound, Types
<1>4. PICK o \in DOMAIN pkgs, rc \in RCs : o = Top.obj /\ rc = Top.rc
  BY <1>3
<1>5. PICK objs : objs = {Top.obj}
  OBVIOUS
<1>6. pkgs' = [Freed(objs) EXCEPT ![o].rc = rc]
  BY <1>4, <1>5 DEF Upgraded
<1>7. Settled(o, rc)
  BY <1>6, RcIs DEF Settled
<1>8. code' = ExitStatus(rc)
  BY <1>4 DEF Upgraded
<1>9. code' \in {<<0>>, <<1>>, <<11>>, <<255>>}
  BY <1>8, StatusIs DEF RCs
<1> QED
  BY <1>1, <1>2, <1>4, <1>7, <1>8, <1>9

\* Upgraded keeps the types, the shape and the library's place.
LEMMA UpgradedSound ==
  ASSUME Sound, Upgraded
  PROVE  Sound'
<1>1. /\ Top.pc = "returned" /\ Settled(Top.obj, Top.rc)
      /\ code' \in {<<0>>, <<1>>, <<11>>, <<255>>}
      /\ UNCHANGED <<cat, cmd, stale, raced, pkgVars, fetch, visited, disk, cache, unmade,
                     root, stack>>
  BY UpgradedIs
<1>2. UNCHANGED <<opts, lock, get, json, faults, retried, torn>>
  BY <1>1 DEF pkgVars
<1>3. pkgs' \in Seq(ObjectType) /\ DOMAIN pkgs' = DOMAIN pkgs
  BY <1>1 DEF Settled
<1>4. StackType' /\ Shape'
  BY <1>1, <1>3, SameStack
<1>5. ThreadsType'
  BY <1>1, <1>2, <1>3, SameThreads
<1>6. Slugs'
  BY <1>1, <1>2 DEF Sound, Slugs, Top
<1> QED
  BY <1>1, <1>2, <1>3, <1>4, <1>5, <1>6 DEF Sound, Types, GivenType, DataType, CallType

\* A call for the manifests of `pwd`.
LEMMA LocalFrame ==
  ASSUME NEW n \in DOMAIN ManifestNames
  PROVE  \E g \in FrameType :
            /\ g = [Frame("local", "deps", <<>>) EXCEPT !.name = n]
            /\ g.kind = "local" /\ g.pc = "next" /\ g.rc = 0 /\ g.name = n
<1>1. <<>> \in Seq(Pkgs \cup {"here", "file"})
  OBVIOUS
<1>2. PICK empty \in Seq(Pkgs \cup {"here", "file"}) : empty = <<>>
  BY <1>1
<1>3. PICK f \in FrameType : f = Frame("local", "deps", empty) /\ f.kind = "local" /\ f.pc = "next" /\ f.rc = 0
  BY NewFrame DEF Kinds, Dirs
<1>4. PICK g : g = [f EXCEPT !.name = n]
  OBVIOUS
<1>5. g \in FrameType /\ g.kind = f.kind /\ g.pc = f.pc /\ g.rc = f.rc /\ g.name = n
  BY <1>3, <1>4 DEF FrameType
<1> QED
  BY <1>2, <1>3, <1>4, <1>5

\* An argument that is not a package: its packages are installed, and whatever
\* becomes of them the next argument follows.
LEMMA LocalArgumentIs ==
  ASSUME Sound, LocalArgument
  PROVE  /\ Top.pc = "next" /\ Top.kind = "command" /\ Len(stack) = 1
         /\ Top.todo # <<>> /\ Head(Top.todo) \in {"here", "file"}
         /\ stack' \in Seq(FrameType) /\ stack' # <<>> /\ Len(stack') = 2
         /\ stack'[1].kind = "command" /\ stack'[1].pc = "next" /\ stack'[1].todo = Tail(Top.todo)
         /\ Top' = stack'[2] /\ Top'.kind = "local" /\ Top'.pc = "next" /\ Top'.rc = 0
         /\ UNCHANGED <<cat, cmd, stale, raced, pkgVars, fetch, pkgs, visited, disk, cache, root,
                        failed, unmade, code>>
<1>1. /\ Top.pc = "next" /\ Top.kind = "command" /\ Top.todo # <<>> /\ Head(Top.todo) \in {"here", "file"}
      /\ UNCHANGED <<cat, cmd, stale, raced, pkgVars, fetch, pkgs, visited, disk, cache, root,
                     failed, unmade, code>>
  BY DEF LocalArgument, MainAt, CommandUnchanged, MainUnchanged
<1>2. Top \in FrameType /\ Len(stack) = 1
  BY <1>1, TopType, Bottom DEF Sound, Types
<1>3. PICK n \in DOMAIN ManifestNames : n = IF Head(Top.todo) = "here" THEN 1 ELSE Len(ManifestNames)
  BY DEF ManifestNames
<1>4. PICK g \in FrameType :
            /\ g = [Frame("local", "deps", <<>>) EXCEPT !.name = n]
            /\ g.kind = "local" /\ g.pc = "next" /\ g.rc = 0 /\ g.name = n
  BY LocalFrame
<1>5. PICK rest \in Seq(Pkgs \cup {"here", "file"}) : rest = Tail(Top.todo)
  BY <1>1, <1>2, Fields, HeadTailProperties
<1>6. PICK f : f = [Top EXCEPT !.todo = rest]
  OBVIOUS
<1>7. f \in FrameType /\ f.kind = Top.kind /\ f.pc = Top.pc /\ f.todo = rest
  BY <1>2, <1>6 DEF FrameType
<1>8. stack' = <<f, g>>
  BY <1>3, <1>4, <1>5, <1>6 DEF LocalArgument
<1>9. stack' \in Seq(FrameType) /\ Len(stack') = 2 /\ stack'[1] = f /\ stack'[2] = g /\ stack' # <<>>
  BY <1>7, <1>8
<1>10. Top' = g
  BY <1>9 DEF Top
<1> QED
  BY <1>1, <1>2, <1>4, <1>5, <1>7, <1>9, <1>10

\* LocalArgument keeps the types, the shape and the library's place.
LEMMA LocalArgumentSound ==
  ASSUME Sound, LocalArgument
  PROVE  Sound'
<1>1. /\ Top.pc = "next" /\ Len(stack) = 1 
      /\ stack' \in Seq(FrameType) /\ stack' # <<>> /\ Len(stack') = 2
      /\ stack'[1].kind = "command" /\ stack'[1].pc = "next"
      /\ Top' = stack'[2] /\ Top'.kind = "local" /\ Top'.pc = "next"
      /\ UNCHANGED <<cat, cmd, stale, raced, pkgVars, fetch, pkgs, visited, disk, cache, root,
                     failed, unmade, code>>
  BY LocalArgumentIs
<1>2. UNCHANGED <<opts, lock, get, json, faults, retried, torn>>
  BY <1>1 DEF pkgVars
<1>3. DOMAIN stack' = 1..2
  BY <1>1, LenProperties
<1>4. \A d \in DOMAIN stack' : Framed(stack'[d], d)
  <2>1. Framed(stack'[1], 1) /\ Framed(stack'[2], 2)
    BY <1>1 DEF Framed, PcOf
  <2>2. \A d \in 1..2 : d = 1 \/ d = 2
    OBVIOUS
  <2> QED
    BY <1>3, <2>1, <2>2
<1>5. \A d \in DOMAIN stack' : d + 1 \in DOMAIN stack' => Link(stack'[d], stack'[d + 1])
  <2>1. Link(stack'[1], stack'[2])
    BY <1>1 DEF Link
  <2>2. \A d \in 1..2 : d + 1 \in 1..2 => d = 1 /\ d + 1 = 2
    OBVIOUS
  <2> QED
    BY <1>3, <2>1, <2>2
<1>6. Shape'
  BY <1>4, <1>5 DEF Shape, Framed, Link
<1>7. StackType'
  <2>1. \A d \in DOMAIN stack' : stack'[d].pc = "next"
    BY <1>1, <1>3
  <2> QED
    BY <1>1, <2>1, Points DEF StackType
<1>8. ThreadsType'
  BY <1>1, <1>2, SameThreads
<1>9. Slugs'
  BY <1>1, <1>2 DEF Sound, Slugs
<1> QED
  BY <1>1, <1>2, <1>6, <1>7, <1>8, <1>9 DEF Sound, Types, GivenType, DataType, CallType

\* Without arguments.
LEMMA AloneIs ==
  ASSUME Sound, Alone
  PROVE  /\ Top.kind = "alone" /\ Len(stack) = 1
         /\ \/ \E g \in FrameType :
                  /\ Top.pc = "next" /\ Called("alone", g) /\ g.kind = "local" /\ g.pc = "next"
                  /\ g.rc = 0 /\ UNCHANGED code
            \/ Top.pc = "alone" /\ code' = <<Top.rc>> /\ Top.rc \in {0, 1} /\ UNCHANGED stack
         /\ stack' \in Seq(FrameType) /\ stack' # <<>>
         /\ UNCHANGED <<cat, cmd, stale, raced, pkgVars, fetch, pkgs, visited, disk, cache, root,
                        failed, unmade>>
<1>1. /\ Top.kind = "alone"
      /\ UNCHANGED <<cat, cmd, stale, raced, pkgVars, fetch, pkgs, visited, disk, cache, root,
                     failed, unmade>>
  BY DEF Alone, CommandUnchanged, MainUnchanged
<1>2. Len(stack) = 1 /\ Top = stack[Len(stack)] /\ Len(stack) \in DOMAIN stack /\ Top \in FrameType
  BY <1>1, Bottom, TopType DEF Sound, Types
<1>3. Top.rc \in {0, 1}
  BY <1>1, <1>2 DEF Sound, Shape, Framed
<1>4. CASE Top.pc = "next" /\ Enter("alone", Frame("local", "deps", <<>>)) /\ UNCHANGED code
  <2>1. PICK one \in DOMAIN ManifestNames : one = 1
    BY DEF ManifestNames
  <2>2. <<>> \in Seq(Pkgs \cup {"here", "file"})
    OBVIOUS
  <2>3. PICK empty \in Seq(Pkgs \cup {"here", "file"}) : empty = <<>>
    BY <2>2
  <2>4. PICK g \in FrameType : g = Frame("local", "deps", empty) /\ g.kind = "local" /\ g.pc = "next" /\ g.rc = 0
    BY NewFrame DEF Kinds, Dirs
  <2>5. Enter("alone", g)
    BY <1>4, <2>3, <2>4
  <2>6. "alone" \in Pcs
    BY DEF Pcs
  <2>7. Called("alone", g) /\ stack' \in Seq(FrameType) /\ stack' # <<>>
    BY <2>5, <2>6, EnterIs DEF Sound, Types
  <2> QED
    BY <1>1, <1>2, <1>4, <2>4, <2>7
<1>5. CASE Top.pc = "alone" /\ code' = <<Top.rc>> /\ UNCHANGED stack
  BY <1>1, <1>2, <1>3, <1>5 DEF Sound, Types, StackType
<1> QED
  BY <1>4, <1>5 DEF Alone, MainAt

\* Alone keeps the types, the shape and the library's place.
LEMMA AloneSound ==
  ASSUME Sound, Alone
  PROVE  Sound'
<1>1. /\ Top.kind = "alone" /\ Len(stack) = 1
      /\ \/ \E g \in FrameType :
               Top.pc = "next" /\ Called("alone", g) /\ g.kind = "local" /\ g.pc = "next"
               /\ UNCHANGED code
         \/ Top.pc = "alone" /\ code' = <<Top.rc>> /\ Top.rc \in {0, 1} /\ UNCHANGED stack
      /\ stack' \in Seq(FrameType) /\ stack' # <<>>
      /\ UNCHANGED <<cat, cmd, stale, raced, pkgVars, fetch, pkgs, visited, disk, cache, root,
                     failed, unmade>>
  BY AloneIs
<1>2. UNCHANGED <<opts, lock, get, json, faults, retried, torn>>
  BY <1>1 DEF pkgVars
<1>3. ThreadsType'
  BY <1>1, <1>2, SameThreads
<1>4. Slugs'
  BY <1>1, <1>2 DEF Sound, Slugs
<1>5. ASSUME NEW g \in FrameType, Top.pc = "next", Called("alone", g), g.kind = "local", g.pc = "next"
      PROVE  StackType' /\ Shape'
  <2>1. Top \in FrameType /\ Len(stack) \in DOMAIN stack /\ Top = stack[Len(stack)]
    BY TopType DEF Sound, Types
  <2>2. "alone" \in Pcs /\ "alone" \notin ObjPcs
    BY DEF Pcs, ObjPcs, LoadPcs, Fresh, Unseen, Looking, Batch
  <2>3. PICK t \in FrameType : t = [Top EXCEPT !.pc = "alone"]
    BY <2>1, <2>2, PcType
  <2>4. t.kind = Top.kind /\ t.pc = "alone" /\ t.rc = Top.rc
    BY <2>1, <2>2, <2>3, PcType DEF Kept
  <2>5. Framed(Top, Len(stack))
    BY <2>1 DEF Sound, Shape
  <2>6. Framed(t, Len(stack))
    BY <1>1, <2>4, <2>5 DEF Framed, PcOf
  <2>7. Framed(g, Len(stack) + 1)
    <3>1. Len(stack) + 1 = 2 /\ g.pc \in PcOf(g.kind)
      BY <1>1, <1>5 DEF PcOf
    <3> QED
      BY <1>5, <3>1 DEF Framed
  <2>8. Link(t, g)
    BY <1>1, <1>5, <2>4 DEF Link
  <2> QED
    BY <1>1, <1>5, <2>2, <2>3, <2>6, <2>7, <2>8, CallSound
<1>6. CASE \E g \in FrameType :
               Top.pc = "next" /\ Called("alone", g) /\ g.kind = "local" /\ g.pc = "next"
               /\ UNCHANGED code
  BY <1>1, <1>2, <1>3, <1>4, <1>5, <1>6 DEF Sound, Types, GivenType, DataType, CallType
<1>7. CASE Top.pc = "alone" /\ code' = <<Top.rc>> /\ Top.rc \in {0, 1} /\ UNCHANGED stack
  <2>1. StackType' /\ Shape'
    BY <1>1, <1>7, SameStack
  <2>2. code' \in {<<0>>, <<1>>}
    BY <1>7
  <2> QED
    BY <1>1, <1>2, <1>3, <1>4, <2>1, <2>2 DEF Sound, Types, GivenType, DataType, CallType
<1> QED
  BY <1>1, <1>6, <1>7

\* The attempt at a manifest of `pwd` is left with rc: the next one is tried
\* after a failure, or rc goes to the caller.
LeftLocal(rc) ==
    /\ stack' \in Seq(FrameType) /\ stack' # <<>>
    /\ \/ /\ rc # 0 /\ Top.name < 2 /\ Turned(Top') /\ Top' \in FrameType
          /\ Top'.kind = Top.kind /\ Top'.pc = "next" /\ Top'.name = Top.name + 1 /\ Top'.rc = Top.rc
       \/ (rc = 0 \/ Top.name = 2) /\ Popped(rc)

\* An attempt at a manifest of `pwd` is left.
LEMMA LeaveLocalIs ==
  ASSUME Sound, Top.kind = "local", NEW rc \in {0, 1}, LeaveLocal(rc)
  PROVE  LeftLocal(rc)
<1>1. Top \in FrameType /\ Len(stack) > 1 /\ Top.name \in 1..2 /\ Len(ManifestNames) = 2
  BY TopType, Bottom, Fields DEF Sound, Types, ManifestNames
<1>2. CASE rc # 0 /\ Top.name < 2
  <2>1. PICK n \in DOMAIN ManifestNames : n = Top.name + 1
    BY <1>1, <1>2 DEF ManifestNames
  <2>2. PICK f : f = [Top EXCEPT !.pc = "next", !.name = n]
    OBVIOUS
  <2>3. f \in FrameType /\ f.kind = Top.kind /\ f.pc = "next" /\ f.name = n /\ f.rc = Top.rc
    BY <1>1, <2>2 DEF FrameType, Pcs
  <2>4. Put(f)
    <3>1. f = [Top EXCEPT !.pc = "next", !.name = @ + 1]
      BY <1>1, <2>1, <2>2 DEF FrameType
    <3> QED
      BY <1>1, <1>2, <3>1 DEF LeaveLocal
  <2>5. Turned(f) /\ stack' \in Seq(FrameType) /\ stack' # <<>>
    BY <2>3, <2>4, PutIs DEF Sound, Types
  <2>6. Top' = f
    BY <2>5 DEF Turned
  <2> QED
    BY <1>2, <2>1, <2>3, <2>5, <2>6 DEF LeftLocal
<1>3. CASE ~(rc # 0 /\ Top.name < 2)
  <2>1. ReturnTo(rc) /\ rc \in RCs /\ (rc = 0 \/ Top.name = 2)
    BY <1>1, <1>3 DEF LeaveLocal, RCs
  <2>2. Popped(rc) /\ stack' \in Seq(FrameType) /\ stack' # <<>>
    BY <1>1, <2>1, ReturnIs DEF Sound, Types
  <2> QED
    BY <2>1, <2>2 DEF LeftLocal
<1> QED
  BY <1>2, <1>3

\* The packages of a manifest of `pwd`.
LEMMA LocalIs ==
  ASSUME Sound, Local
  PROVE  /\ Top.kind = "local" /\ Top.pc \in {"next", "devs", "last"}
         /\ root.deps \in Seq(Pkgs) /\ root.dev \in Seq(Pkgs)
         /\ \/ Top.pc = "next" /\ cmd.manifests[Top.name] = "good" /\ InstallList("devs", "deps", root.deps)
            \/ Top.pc = "next" /\ cmd.manifests[Top.name] # "good" /\ LeftLocal(1)
            \/ Top.pc = "devs" /\ Top.rc # -1 /\ cmd.dev /\ InstallList("last", "deps", root.dev)
            \/ Top.pc = "devs" /\ Top.rc # -1 /\ ~cmd.dev /\ LeftLocal(0)
            \/ Top.pc = "last" /\ Top.rc # -1 /\ LeftLocal(0)
            \/ Top.pc \in {"devs", "last"} /\ Top.rc = -1 /\ LeftLocal(1)
         /\ UNCHANGED <<cat, cmd, stale, raced, pkgVars, fetch, pkgs, visited, disk, cache, root,
                        failed, unmade, code>>
<1>1. /\ Top.kind = "local"
      /\ UNCHANGED <<cat, cmd, stale, raced, pkgVars, fetch, pkgs, visited, disk, cache, root,
                     failed, unmade, code>>
  BY DEF Local, CommandUnchanged, MainUnchanged
<1>2. root.deps \in Seq(Pkgs) /\ root.dev \in Seq(Pkgs)
  BY DEF Sound, Types, DataType
<1>3. LeaveLocal(0) => LeftLocal(0)
  BY <1>1, LeaveLocalIs
<1>4. LeaveLocal(1) => LeftLocal(1)
  BY <1>1, LeaveLocalIs
<1> QED
  BY <1>1, <1>2, <1>3, <1>4 DEF Local, MainAt

\* Local keeps the types, the shape and the library's place.
LEMMA LocalSound ==
  ASSUME Sound, Local
  PROVE  Sound'
<1>1. /\ Top.kind = "local" /\ Top.pc \in {"next", "devs", "last"}
      /\ root.deps \in Seq(Pkgs) /\ root.dev \in Seq(Pkgs)
      /\ \/ InstallList("devs", "deps", root.deps)
         \/ InstallList("last", "deps", root.dev)
         \/ LeftLocal(0) \/ LeftLocal(1)
      /\ UNCHANGED <<cat, cmd, stale, raced, pkgVars, fetch, pkgs, visited, disk, cache, root,
                     failed, unmade, code>>
  BY LocalIs
<1>2. UNCHANGED <<opts, lock, get, json, faults, retried, torn>>
  BY <1>1 DEF pkgVars
<1>3. ThreadsType'
  BY <1>1, <1>2, SameThreads
<1>4. Slugs'
  BY <1>1, <1>2 DEF Sound, Slugs
<1>5. ASSUME NEW rc \in {0, 1}, LeftLocal(rc) PROVE StackType' /\ Shape'
  <2>1. CASE /\ Turned(Top') /\ Top' \in FrameType
             /\ Top'.kind = Top.kind /\ Top'.pc = "next"
    <3>1. Top'.pc \in PcOf(Top.kind) /\ Top'.pc \notin ObjPcs \cup {"slug"}
      BY <1>1, <2>1, Points DEF PcOf
    <3> QED
      BY <1>1, <1>5, <2>1, <3>1, OuterSound DEF LeftLocal
  <2>2. CASE Popped(rc)
    BY <1>1, <1>5, <2>2, PopSound DEF LeftLocal, RCs
  <2> QED
    BY <1>5, <2>1, <2>2 DEF LeftLocal
<1>6. "devs" \in Pcs /\ "last" \in Pcs /\ "deps" \in Dirs
  BY DEF Pcs, Dirs
<1>7. CASE InstallList("devs", "deps", root.deps)
  <2>1. StackType' /\ Shape'
    BY <1>1, <1>2, <1>6, <1>7, ListSound
  <2> QED
    BY <1>1, <1>2, <1>3, <1>4, <2>1 DEF Sound, Types, GivenType, DataType, CallType
<1>8. CASE InstallList("last", "deps", root.dev)
  <2>1. StackType' /\ Shape'
    BY <1>1, <1>2, <1>6, <1>8, ListSound
  <2> QED
    BY <1>1, <1>2, <1>3, <1>4, <2>1 DEF Sound, Types, GivenType, DataType, CallType
<1>9. CASE LeftLocal(0) \/ LeftLocal(1)
  <2>1. StackType' /\ Shape'
    BY <1>5, <1>9
  <2> QED
    BY <1>1, <1>2, <1>3, <1>4, <2>1 DEF Sound, Types, GivenType, DataType, CallType
<1> QED
  BY <1>1, <1>7, <1>8, <1>9

\* What EndOfCommand does.
LEMMA EndOfCommandIs ==
  ASSUME Sound, EndOfCommand
  PROVE  /\ Top.pc = "next" /\ Top.kind = "command" /\ Top.todo = <<>> /\ code' = <<0>>
         /\ UNCHANGED <<cat, cmd, stale, raced, pkgVars, fetch, pkgs, visited, disk, cache, root,
                        failed, unmade, stack>>
  BY DEF EndOfCommand, MainAt, CommandUnchanged, MainUnchanged

\* EndOfCommand keeps the types, the shape and the library's place.
LEMMA EndOfCommandSound ==
  ASSUME Sound, EndOfCommand
  PROVE  Sound'
<1>1. /\ code' = <<0>>
      /\ UNCHANGED <<cat, cmd, stale, raced, pkgVars, fetch, pkgs, visited, disk, cache, root,
                     failed, unmade, stack>>
  BY EndOfCommandIs
<1>2. UNCHANGED <<opts, lock, get, json, faults, retried, torn>>
  BY <1>1 DEF pkgVars
<1>3. StackType' /\ Shape'
  BY <1>1, SameStack
<1>4. ThreadsType'
  BY <1>1, <1>2, SameThreads
<1>5. Slugs'
  BY <1>1, <1>2 DEF Sound, Slugs, Top
<1> QED
  BY <1>1, <1>2, <1>3, <1>4, <1>5 DEF Sound, Types, GivenType, DataType, CallType

\* What becomes of a call of the library.
LEMMA CallStep ==
  ASSUME NEW c \in Call, NEW pc \in {"idle", "ask", "held", "get", "save", "saving", "ok", "null"}
  PROVE  [c EXCEPT !.pc = pc] \in Call /\ [c EXCEPT !.pc = pc].pc = pc /\ [c EXCEPT !.pc = pc].pkg = c.pkg
  BY DEF Call

\* A call of the library goes to pc.
LEMMA GotoIs ==
  ASSUME get \in [Callers -> Call],
         NEW pc \in {"idle", "ask", "held", "get", "save", "saving", "ok", "null"}, Goto(Main, pc)
  PROVE  get' \in [Callers -> Call] /\ get'[Main].pc = pc /\ get'[Main].pkg = get[Main].pkg
<1>1. Main \in Callers /\ get[Main] \in Call
  BY MainAssumption
<1>0. PICK b \in Call : b = get[Main]
  BY <1>1
<1>2. PICK c \in Call : c = [b EXCEPT !.pc = pc]
  BY CallStep
<1>4. c.pc = pc /\ c.pkg = get[Main].pkg
  BY <1>0, <1>2, CallStep
<1>3. get' = [get EXCEPT ![Main] = c]
  BY <1>0, <1>2 DEF Goto
<1> QED
  BY <1>1, <1>3, <1>4

\* The library tries the next manifest name.
LEMMA NextNameIs ==
  ASSUME get \in [Callers -> Call], NextName(Main)
  PROVE  /\ get' \in [Callers -> Call] /\ get'[Main].pc \in {"ask", "null"}
         /\ get'[Main].pkg = get[Main].pkg
<1>1. Main \in Callers /\ get[Main] \in Call
  BY MainAssumption
<1>2. get[Main].name \in 1..2 /\ Retries \in 1..Retries /\ Len(ManifestNames) = 2
      /\ DOMAIN ManifestNames = 1..2
  BY <1>1, RetriesAssumption DEF Call, ManifestNames
<1>3. PICK c : c = IF get[Main].name < 2
                   THEN [get[Main] EXCEPT !.pc = "ask", !.name = get[Main].name + 1, !.left = Retries]
                   ELSE [get[Main] EXCEPT !.pc = "null"]
  OBVIOUS
<1>4. c \in Call /\ c.pc \in {"ask", "null"} /\ c.pkg = get[Main].pkg
  <2>1. CASE get[Main].name < 2
    <3>1. c = [get[Main] EXCEPT !.pc = "ask", !.name = get[Main].name + 1, !.left = Retries]
      BY <1>3, <2>1
    <3>2. get[Main].name + 1 \in DOMAIN ManifestNames
      BY <1>2, <2>1
    <3> QED
      BY <1>1, <1>2, <3>1, <3>2 DEF Call
  <2>2. CASE ~(get[Main].name < 2)
    <3>1. c = [get[Main] EXCEPT !.pc = "null"]
      BY <1>3, <2>2
    <3> QED
      BY <1>1, <3>1, CallStep
  <2> QED
    BY <2>1, <2>2
<1>5. get' = [get EXCEPT ![Main] = c]
  BY <1>2, <1>3 DEF NextName
<1> QED
  BY <1>1, <1>4, <1>5

\* What a step of the library's package maker leaves.
Made ==
    /\ get[Main].pc \in {"ask", "held", "get", "save", "saving"}
    /\ get' \in [Callers -> Call] /\ get'[Main].pc # "idle" /\ get'[Main].pkg = get[Main].pkg
    /\ json' \in [Pkgs -> Entry] /\ faults' \in Nat /\ retried' \in BOOLEAN
    /\ lock' \in {lock, NoThread, Main}
    /\ ~retried' =>
           /\ ~retried
           /\ get'[Main].pc \in {"held", "saving"} => lock' = Main
           /\ lock' # lock => lock = NoThread \/ get[Main].pc \in {"held", "saving"}
    /\ faults' = 0 =>
           /\ faults = 0
           /\ get'[Main].pc = "null" =>
                  get[Main].pc = "held" /\ get[Main].pkg \in Pkgs /\ json[get[Main].pkg] = "part"
    /\ \A p \in Pkgs : json'[p] = "part" =>
           \/ get'[Main].pc = "saving" /\ p = get[Main].pkg
           \/ json[p] = "part" /\ ~(get[Main].pc = "saving" /\ p = get[Main].pkg)

\* What the library does in a call of main.
LEMMA LibraryIs ==
  ASSUME Sound, Library
  PROVE  Made /\ Top.pc = "slug" /\ UNCHANGED <<installVars, opts>>
<1>1. MakePackage(Main) /\ UNCHANGED installVars
  BY DEF Library
<1>2. /\ Main \in Callers /\ get \in [Callers -> Call] /\ json \in [Pkgs -> Entry] /\ faults \in Nat
      /\ retried \in BOOLEAN /\ get[Main] \in Call /\ get[Main].pkg \in Pkgs
  <2>1. /\ Main \in Callers /\ get \in [Callers -> Call] /\ json \in [Pkgs -> Entry] /\ faults \in Nat
        /\ retried \in BOOLEAN
    BY MainAssumption DEF Sound, Types, CallType
  <2> QED
    BY <2>1 DEF Call
<1> DEFINE T == {"idle", "ask", "held", "get", "save", "saving", "ok", "null"}
<1>3. ASSUME NEW pc \in T, Goto(Main, pc)
      PROVE  get' \in [Callers -> Call] /\ get'[Main].pc = pc /\ get'[Main].pkg = get[Main].pkg
  BY <1>2, <1>3, GotoIs
<1>4. ASSUME NextName(Main)
      PROVE  /\ get' \in [Callers -> Call] /\ get'[Main].pc \in {"ask", "null"}
             /\ get'[Main].pkg = get[Main].pkg
  BY <1>2, <1>4, NextNameIs
<1>5. Fault => faults' \in Nat /\ faults' # 0
  BY FaultIs
<1>6. NoThread # Main
  BY NoThreadAssumption DEF Main
<1>7. CASE Lock(Main)
  <2>1. Goto(Main, "held") /\ get[Main].pc = "ask" /\ lock = NoThread /\ lock' = Main
        /\ UNCHANGED <<opts, json, faults, retried>>
    BY <1>7 DEF Lock, At
  <2>2. get' \in [Callers -> Call] /\ get'[Main].pc = "held" /\ get'[Main].pkg = get[Main].pkg
    BY <1>3, <2>1
  <2> QED
    BY <1>1, <1>2, <2>1, <2>2 DEF Made, Sound, Slugs
<1>8. CASE Hit(Main)
  <2>1. /\ get[Main].pc = "held" /\ lock' = NoThread /\ UNCHANGED <<opts, json, faults, retried>>
        /\ \/ json[get[Main].pkg] = "part" /\ NextName(Main)
           \/ json[get[Main].pkg] # "part" /\ Goto(Main, "save")
    BY <1>8 DEF Hit, At
  <2>2. CASE json[get[Main].pkg] = "part" /\ NextName(Main)
    <3>1. get' \in [Callers -> Call] /\ get'[Main].pc \in {"ask", "null"} /\ get'[Main].pkg = get[Main].pkg
      BY <1>4, <2>2
    <3> QED
      BY <1>1, <1>2, <2>1, <2>2, <3>1 DEF Made, Sound, Slugs
  <2>3. CASE Goto(Main, "save")
    <3>1. get' \in [Callers -> Call] /\ get'[Main].pc = "save" /\ get'[Main].pkg = get[Main].pkg
      BY <1>3, <2>3
    <3> QED
      BY <1>1, <1>2, <2>1, <2>3, <3>1 DEF Made, Sound, Slugs
  <2> QED
    BY <2>1, <2>2, <2>3
<1>9. CASE Expire(Main)
  <2>1. /\ get[Main].pc = "held" /\ lock' = NoThread /\ UNCHANGED <<opts, retried>> /\ Fault
        /\ json' = [json EXCEPT ![get[Main].pkg] = "old"] /\ Goto(Main, "get")
    BY <1>9 DEF Expire, At
  <2>2. get' \in [Callers -> Call] /\ get'[Main].pc = "get" /\ get'[Main].pkg = get[Main].pkg
    BY <1>3, <2>1
  <2>3. json' \in [Pkgs -> Entry] /\ \A p \in Pkgs : json'[p] = "part" => json[p] = "part"
    BY <1>2, <2>1 DEF Entry
  <2> QED
    BY <1>1, <1>2, <1>5, <2>1, <2>2, <2>3 DEF Made, Sound, Slugs
<1>10. CASE Miss(Main)
  <2>1. /\ get[Main].pc = "held" /\ lock' = NoThread /\ UNCHANGED <<opts, faults, retried>>
        /\ json' = [json EXCEPT ![get[Main].pkg] = IF @ \in {"part", "fresh"} THEN "none" ELSE @]
        /\ Goto(Main, "get")
    BY <1>10 DEF Miss, At
  <2>2. get' \in [Callers -> Call] /\ get'[Main].pc = "get" /\ get'[Main].pkg = get[Main].pkg
    BY <1>3, <2>1
  <2>3. json' \in [Pkgs -> Entry] /\ \A p \in Pkgs : json'[p] = "part" => json[p] = "part"
    BY <1>2, <2>1 DEF Entry
  <2> QED
    BY <1>1, <1>2, <2>1, <2>2, <2>3 DEF Made, Sound, Slugs
<1>11. CASE Receive(Main)
  <2>1. /\ get[Main].pc = "get" /\ UNCHANGED <<opts, lock, json, faults, retried>> /\ Goto(Main, "save")
    BY <1>11 DEF Receive, At
  <2>2. get' \in [Callers -> Call] /\ get'[Main].pc = "save" /\ get'[Main].pkg = get[Main].pkg
    BY <1>3, <2>1
  <2> QED
    BY <1>1, <1>2, <2>1, <2>2 DEF Made, Sound, Slugs
<1>12. CASE Garbage(Main)
  <2>1. /\ get[Main].pc = "get" /\ UNCHANGED <<opts, lock, json, retried>> /\ Fault /\ NextName(Main)
    BY <1>12 DEF Garbage, At
  <2>2. get' \in [Callers -> Call] /\ get'[Main].pc \in {"ask", "null"} /\ get'[Main].pkg = get[Main].pkg
    BY <1>4, <2>1
  <2> QED
    BY <1>1, <1>2, <1>5, <2>1, <2>2 DEF Made, Sound, Slugs
<1>13. CASE Refused(Main)
  <2>1. /\ get[Main].pc = "get" /\ UNCHANGED <<opts, json>> /\ Fault /\ retried' = TRUE /\ lock' = NoThread
        /\ \/ NextName(Main)
           \/ get[Main].left # 1 /\ get' = [get EXCEPT ![Main].left = get[Main].left - 1]
    BY <1>13 DEF Refused, At
  <2>2. get' \in [Callers -> Call] /\ get'[Main].pc # "idle" /\ get'[Main].pkg = get[Main].pkg
    <3>1. CASE NextName(Main)
      BY <1>4, <3>1
    <3>2. CASE get[Main].left # 1 /\ get' = [get EXCEPT ![Main].left = get[Main].left - 1]
      <4>1. PICK b \in Call : b = get[Main]
        BY <1>2
      <4>2. b.left - 1 \in 1..Retries
        BY <3>2, <4>1, RetriesAssumption DEF Call
      <4>3. PICK n \in 1..Retries : n = b.left - 1
        BY <4>2
      <4>4. PICK c : c = [b EXCEPT !.left = n]
        OBVIOUS
      <4>5. c \in Call /\ c.pc = b.pc /\ c.pkg = b.pkg
        BY <4>4 DEF Call
      <4>6. get' = [get EXCEPT ![Main] = c]
        BY <3>2, <4>1, <4>3, <4>4
      <4> QED
        BY <1>2, <2>1, <4>1, <4>5, <4>6
    <3> QED
      BY <2>1, <3>1, <3>2
  <2> QED
    BY <1>1, <1>2, <1>5, <2>1, <2>2 DEF Made, Sound, Slugs
<1>14. CASE Save(Main)
  <2>1. /\ get[Main].pc = "save" /\ lock = NoThread /\ lock' = Main /\ UNCHANGED <<opts, faults, retried>>
        /\ json' = [json EXCEPT ![get[Main].pkg] = "part"] /\ Goto(Main, "saving")
    BY <1>14 DEF Save, At
  <2>2. get' \in [Callers -> Call] /\ get'[Main].pc = "saving" /\ get'[Main].pkg = get[Main].pkg
    BY <1>3, <2>1
  <2>3. json' \in [Pkgs -> Entry] /\ \A p \in Pkgs : json'[p] = "part" => p = get[Main].pkg \/ json[p] = "part"
    BY <1>2, <2>1 DEF Entry
  <2> QED
    BY <1>1, <1>2, <2>1, <2>2, <2>3 DEF Made, Sound, Slugs
<1>15. CASE Saved(Main)
  <2>1. /\ get[Main].pc = "saving" /\ lock' = NoThread /\ UNCHANGED <<opts, faults, retried>>
        /\ json' = [json EXCEPT ![get[Main].pkg] = "fresh"] /\ Goto(Main, "ok")
    BY <1>15 DEF Saved, At
  <2>2. get' \in [Callers -> Call] /\ get'[Main].pc = "ok" /\ get'[Main].pkg = get[Main].pkg
    BY <1>3, <2>1
  <2>3. json' \in [Pkgs -> Entry]
        /\ \A p \in Pkgs : json'[p] = "part" => p # get[Main].pkg /\ json[p] = "part"
    BY <1>2, <2>1 DEF Entry
  <2> QED
    BY <1>1, <1>2, <2>1, <2>2, <2>3 DEF Made, Sound, Slugs
<1> QED
  BY <1>1, <1>7, <1>8, <1>9, <1>10, <1>11, <1>12, <1>13, <1>14, <1>15 DEF MakePackage

\* Library keeps the types, the shape and the library's place.
LEMMA LibrarySound ==
  ASSUME Sound, Library
  PROVE  Sound'
<1>1. /\ Top.pc = "slug" /\ UNCHANGED <<installVars, opts>> /\ lock' \in {lock, NoThread, Main}
      /\ get' \in [Callers -> Call] /\ json' \in [Pkgs -> Entry] /\ faults' \in Nat
      /\ retried' \in BOOLEAN
  BY LibraryIs DEF Made
<1>2. UNCHANGED <<cat, cmd, stack, fetch, pkgs, visited, disk, cache, root, code, failed, unmade, stale, raced>>
  BY <1>1 DEF installVars
<1>3. StackType' /\ Shape'
  BY <1>2, SameStack
<1>4. ThreadsType'
  BY <1>1, <1>2, SameThreads
<1>5. Slugs'
  BY <1>1, <1>2 DEF Slugs, Top
<1> QED
  BY <1>1, <1>2, <1>3, <1>4, <1>5 DEF Sound, Types, GivenType, DataType, CallType

-----------------------------------------------------------------------------
(* The fetch threads.                                                      *)

\* Thread n goes to pc.
Moved(n, pc) ==
    /\ fetch' \in Seq(ThreadType) /\ DOMAIN fetch' = DOMAIN fetch
    /\ fetch'[n].pc = pc /\ fetch'[n].obj = fetch[n].obj /\ fetch'[n].path = fetch[n].path
    /\ \A m \in DOMAIN fetch : m # n => fetch'[m] = fetch[m]

\* File n's thread writes is left at st.
Written(n, st) ==
    /\ disk' \in [Dirs \X Pkgs -> [Paths -> FileState]]
    /\ disk'[Dir(n)][fetch[n].path] = st
    /\ \A d \in Dirs \X Pkgs, f \in Paths :
           ~(d = Dir(n) /\ f = fetch[n].path) => disk'[d][f] = disk[d][f]

\* What a fetch thread's step leaves, point by point.
Worked(n) ==
    \/ /\ fetch[n].pc = "start" /\ Moved(n, "check")
       /\ stale' = (stale \/ pkgs[fetch[n].obj].name = "freed")
       /\ UNCHANGED <<lock, faults, pkgs, disk, raced>>
    \/ /\ fetch[n].pc = "check" /\ Moved(n, "checked") /\ lock = NoThread /\ lock' = n
       /\ UNCHANGED <<faults, pkgs, disk, stale, raced>>
    \/ /\ fetch[n].pc = "log" /\ Moved(n, "logged") /\ lock = NoThread /\ lock' = n
       /\ UNCHANGED <<faults, pkgs, disk, stale, raced>>
    \/ /\ fetch[n].pc = "checked" /\ lock' = NoThread
       /\ \/ (opts.force \/ File(n) = "none") /\ Moved(n, "open")
          \/ ~opts.force /\ File(n) # "none" /\ Moved(n, "drop")
       /\ UNCHANGED <<faults, pkgs, disk, stale, raced>>
    \/ /\ fetch[n].pc = "open" /\ Moved(n, "get") /\ Written(n, "part")
       /\ UNCHANGED <<lock, faults, pkgs, stale, raced>>
    \/ /\ fetch[n].pc = "get" /\ (Moved(n, "log") \/ Moved(n, "drop"))
       /\ \/ Written(n, "full") /\ UNCHANGED faults
          \/ faults' # 0 /\ UNCHANGED disk
       /\ UNCHANGED <<lock, pkgs, stale, raced>>
    \/ /\ fetch[n].pc = "logged" /\ Moved(n, "drop") /\ lock' = NoThread
       /\ UNCHANGED <<faults, pkgs, disk, stale, raced>>
    \/ /\ fetch[n].pc = "drop" /\ Moved(n, "dropping")
       /\ UNCHANGED <<lock, faults, pkgs, disk, stale, raced>>
    \/ /\ fetch[n].pc = "dropping" /\ Moved(n, "done")
       /\ pkgs'[fetch[n].obj].refs = fetch[n].seen - 1
       /\ raced' = (raced \/ fetch[n].seen # pkgs[fetch[n].obj].refs)
       /\ UNCHANGED <<lock, faults, disk, stale>>

\* The objects keep what they are, but for the count of thread n's.
Released(n) ==
    /\ pkgs' \in Seq(ObjectType) /\ DOMAIN pkgs' = DOMAIN pkgs
    /\ \A q \in DOMAIN pkgs :
           /\ pkgs'[q].pkg = pkgs[q].pkg /\ pkgs'[q].dir = pkgs[q].dir
           /\ pkgs'[q].name = pkgs[q].name /\ pkgs'[q].freed = pkgs[q].freed
           /\ pkgs'[q].rc = pkgs[q].rc
           /\ q # fetch[n].obj => pkgs'[q] = pkgs[q]

\* A thread has a package and a path.
LEMMA ThreadHas ==
  ASSUME Sound, NEW n \in DOMAIN fetch
  PROVE  /\ fetch[n] \in ThreadType /\ fetch[n].obj \in DOMAIN pkgs /\ fetch[n].path \in Paths
         /\ fetch[n].seen \in Int /\ Object(n) \in ObjectType /\ Dir(n) \in Dirs \X Pkgs
         /\ n \in Nat \ {0} /\ DOMAIN fetch = 1..Len(fetch) /\ fetch[n].pc \in ThreadPcs
<1>1. fetch \in Seq(ThreadType) /\ pkgs \in Seq(ObjectType) /\ fetch[n].obj \in DOMAIN pkgs
  BY DEF Sound, Types, ThreadsType
<1>2. fetch[n] \in ThreadType /\ DOMAIN fetch = 1..Len(fetch) /\ n \in Nat \ {0}
  BY <1>1, LenProperties
<1>3. Object(n) \in ObjectType
  BY <1>1 DEF Object
<1>4. Object(n).dir \in Dirs /\ Object(n).pkg \in Pkgs
  BY <1>3 DEF ObjectType
<1> QED
  BY <1>1, <1>2, <1>3, <1>4 DEF ThreadType, Dir

\* A thread goes on.
LEMMA StepIs ==
  ASSUME Sound, NEW n \in DOMAIN fetch, NEW pc \in ThreadPcs, Step(n, pc)
  PROVE  Moved(n, pc)
<1>1. fetch[n] \in ThreadType /\ fetch \in Seq(ThreadType)
  BY ThreadHas DEF Sound, Types, ThreadsType
<1>2. PICK t : t = [fetch[n] EXCEPT !.pc = pc]
  OBVIOUS
<1>3. t \in ThreadType /\ t.pc = pc /\ t.obj = fetch[n].obj /\ t.path = fetch[n].path
  BY <1>1, <1>2 DEF ThreadType
<1>4. fetch' = [fetch EXCEPT ![n] = t]
  BY <1>2 DEF Step
<1>5. /\ fetch' \in Seq(ThreadType) /\ DOMAIN fetch' = DOMAIN fetch
      /\ fetch'[n] = t /\ \A m \in DOMAIN fetch : m # n => fetch'[m] = fetch[m]
  BY <1>1, <1>3, <1>4, ReplaceType
<1> QED
  BY <1>3, <1>5 DEF Moved

\* A thread writes its file.
LEMMA WroteIs ==
  ASSUME Sound, NEW n \in DOMAIN fetch, NEW st \in FileState, Wrote(n, st)
  PROVE  Written(n, st)
<1>1. Dir(n) \in Dirs \X Pkgs /\ fetch[n].path \in Paths
      /\ disk \in [Dirs \X Pkgs -> [Paths -> FileState]]
  BY ThreadHas DEF Sound, Types, DataType
<1>2. PICK d \in Dirs \X Pkgs, f \in Paths : d = Dir(n) /\ f = fetch[n].path
  BY <1>1
<1>3. PICK g : g = [disk[d] EXCEPT ![f] = st]
  OBVIOUS
<1>4. g \in [Paths -> FileState] /\ g[f] = st /\ \A e \in Paths : e # f => g[e] = disk[d][e]
  BY <1>1, <1>3
<1>5. disk' = [disk EXCEPT ![d] = g]
  BY <1>2, <1>3 DEF Wrote
<1>6. disk' \in [Dirs \X Pkgs -> [Paths -> FileState]] /\ disk'[d] = g
      /\ \A e \in Dirs \X Pkgs : e # d => disk'[e] = disk[e]
  BY <1>1, <1>4, <1>5
<1>7. \A e \in Dirs \X Pkgs, h \in Paths : ~(e = d /\ h = f) => disk'[e][h] = disk[e][h]
  BY <1>4, <1>6
<1> QED
  BY <1>2, <1>4, <1>6, <1>7 DEF Written

\* What a fetch thread does.
LEMMA FetchFileIs ==
  ASSUME Sound, NEW n \in DOMAIN fetch, FetchFile(n)
  PROVE  /\ Running /\ Worked(n) /\ Released(n) /\ faults' \in Nat /\ (faults' = 0 => faults = 0)
         /\ stale' \in BOOLEAN /\ raced' \in BOOLEAN
         /\ UNCHANGED <<cat, cmd, stack, visited, cache, root, code, failed, unmade,
                        opts, get, json, retried, torn>>
<1>1. /\ fetch[n].obj \in DOMAIN pkgs /\ fetch[n].seen \in Int /\ pkgs \in Seq(ObjectType)
      /\ faults \in Nat /\ stale \in BOOLEAN /\ raced \in BOOLEAN /\ fetch[n] \in ThreadType
      /\ fetch \in Seq(ThreadType)
  BY ThreadHas DEF Sound, Types, CallType, DataType, ThreadsType
<1>2. \A pc \in ThreadPcs : Step(n, pc) => Moved(n, pc)
  BY StepIs
<1>3. \A st \in FileState : Wrote(n, st) => Written(n, st)
  BY WroteIs
<1>4. UNCHANGED pkgs => Released(n)
  BY <1>1 DEF Released
<1>5. CASE FetchStart(n)
  <2>1. Moved(n, "check")
    BY <1>2, <1>5 DEF FetchStart, ThreadPcs
  <2> QED
    BY <1>1, <1>4, <1>5, <2>1 DEF FetchStart, Thread, FetchUnchanged, pkgVars, Worked, Object
<1>6. CASE FetchLock(n)
  <2>1. \/ fetch[n].pc = "check" /\ Moved(n, "checked")
        \/ fetch[n].pc = "log" /\ Moved(n, "logged")
    BY <1>2, <1>6 DEF FetchLock, Thread, ThreadPcs
  <2> QED
    BY <1>1, <1>4, <1>6, <2>1 DEF FetchLock, Thread, FetchUnchanged, Worked
<1>7. CASE FetchCheck(n)
  <2>1. \/ (opts.force \/ File(n) = "none") /\ Moved(n, "open")
        \/ ~opts.force /\ File(n) # "none" /\ Moved(n, "drop")
    <3>1. CASE opts.force \/ File(n) = "none"
      BY <1>2, <1>7, <3>1 DEF FetchCheck, ThreadPcs
    <3>2. CASE ~(opts.force \/ File(n) = "none")
      BY <1>2, <1>7, <3>2 DEF FetchCheck, ThreadPcs
    <3> QED
      BY <3>1, <3>2
  <2> QED
    BY <1>1, <1>4, <1>7, <2>1 DEF FetchCheck, Thread, FetchUnchanged, Worked
<1>8. CASE FetchOpen(n)
  <2>1. Moved(n, "get") /\ Written(n, "part")
    BY <1>2, <1>3, <1>8 DEF FetchOpen, ThreadPcs, FileState
  <2> QED
    BY <1>1, <1>4, <1>8, <2>1 DEF FetchOpen, Thread, FetchUnchanged, pkgVars, Worked
<1>9. CASE FetchEnd(n)
  <2>1. Moved(n, "log") \/ Moved(n, "drop")
    <3>1. CASE cmd.verbose
      BY <1>2, <1>9, <3>1 DEF FetchEnd, ThreadPcs
    <3>2. CASE ~cmd.verbose
      BY <1>2, <1>9, <3>2 DEF FetchEnd, ThreadPcs
    <3> QED
      BY <3>1, <3>2
  <2>2. \/ Written(n, "full") /\ UNCHANGED faults
        \/ faults' # 0 /\ faults' \in Nat /\ UNCHANGED disk
    BY <1>3, <1>9, FaultIs DEF FetchEnd, FileState
  <2> QED
    BY <1>1, <1>4, <1>9, <2>1, <2>2 DEF FetchEnd, Thread, FetchUnchanged, Worked
<1>10. CASE FetchLog(n)
  <2>1. Moved(n, "drop")
    BY <1>2, <1>10 DEF FetchLog, ThreadPcs
  <2> QED
    BY <1>1, <1>4, <1>10, <2>1 DEF FetchLog, Thread, FetchUnchanged, Worked
<1>11. CASE FetchRead(n)
  <2>1. PICK r \in Int : r = Object(n).refs
    BY ThreadHas, ObjectType1
  <2>2. PICK t : t = [fetch[n] EXCEPT !.pc = "dropping", !.seen = r]
    OBVIOUS
  <2>3. t \in ThreadType /\ t.pc = "dropping" /\ t.obj = fetch[n].obj /\ t.path = fetch[n].path
    BY <1>1, <2>2 DEF ThreadType, ThreadPcs
  <2>4. fetch' = [fetch EXCEPT ![n] = t]
    <3>1. fetch' = [fetch EXCEPT ![n].pc = "dropping", ![n].seen = r]
      BY <1>11, <2>1 DEF FetchRead
    <3>2. DOMAIN fetch = DOMAIN fetch' /\ \A m \in DOMAIN fetch : fetch'[m] = IF m = n THEN t ELSE fetch[m]
      BY <1>1, <2>2, <3>1
    <3>3. PICK g : g = [fetch EXCEPT ![n] = t]
      OBVIOUS
    <3>4. g \in Seq(ThreadType) /\ DOMAIN g = DOMAIN fetch
          /\ \A m \in DOMAIN fetch : g[m] = IF m = n THEN t ELSE fetch[m]
      BY <1>1, <2>3, <3>3, ReplaceType
    <3>5. fetch' = [m \in DOMAIN fetch' |-> fetch'[m]] /\ g = [m \in DOMAIN g |-> g[m]]
      BY <1>1, <3>1, <3>3
    <3> QED
      BY <3>2, <3>3, <3>4, <3>5
  <2>5. /\ fetch' \in Seq(ThreadType) /\ DOMAIN fetch' = DOMAIN fetch
        /\ fetch'[n] = t /\ \A m \in DOMAIN fetch : m # n => fetch'[m] = fetch[m]
    BY <1>1, <2>3, <2>4, ReplaceType
  <2>6. Moved(n, "dropping")
    BY <2>3, <2>5 DEF Moved
  <2> QED
    BY <1>1, <1>4, <1>11, <2>6 DEF FetchRead, Thread, FetchUnchanged, pkgVars, Worked
<1>12. CASE FetchDrop(n)
  <2>1. Moved(n, "done")
    BY <1>2, <1>12 DEF FetchDrop, ThreadPcs
  <2>2. PICK o \in DOMAIN pkgs, r \in Int : o = fetch[n].obj /\ r = fetch[n].seen - 1
    BY <1>1
  <2>3. pkgs' = [pkgs EXCEPT ![o].refs = r]
    BY <1>12, <2>2 DEF FetchDrop
  <2>4. /\ pkgs' \in Seq(ObjectType) /\ DOMAIN pkgs' = DOMAIN pkgs
        /\ pkgs'[o] = [pkgs[o] EXCEPT !.refs = r]
        /\ \A q \in DOMAIN pkgs : q # o => pkgs'[q] = pkgs[q]
    BY <2>3, RefsIs
  <2>5. pkgs[o] \in ObjectType
    BY <1>1
  <2>6. /\ pkgs'[o].refs = r /\ pkgs'[o].pkg = pkgs[o].pkg /\ pkgs'[o].dir = pkgs[o].dir
        /\ pkgs'[o].name = pkgs[o].name /\ pkgs'[o].freed = pkgs[o].freed /\ pkgs'[o].rc = pkgs[o].rc
    BY <2>4, <2>5 DEF ObjectType
  <2>7. Released(n)
    BY <2>2, <2>4, <2>6 DEF Released
  <2> QED
    BY <1>1, <1>12, <2>1, <2>2, <2>6, <2>7 DEF FetchDrop, Thread, FetchUnchanged, pkgVars, Worked, Object
<1> QED
  BY <1>5, <1>6, <1>7, <1>8, <1>9, <1>10, <1>11, <1>12 DEF FetchFile

\* FetchFile keeps the types, the shape and the library's place.
LEMMA FetchFileSound ==
  ASSUME Sound, NEW n \in DOMAIN fetch, FetchFile(n)
  PROVE  Sound'
<1>1. /\ Worked(n) /\ Released(n) /\ faults' \in Nat
      /\ stale' \in BOOLEAN /\ raced' \in BOOLEAN
      /\ UNCHANGED <<cat, cmd, stack, visited, cache, root, code, failed, unmade,
                     opts, get, json, retried, torn>>
  BY FetchFileIs
<1>2. pkgs' \in Seq(ObjectType) /\ DOMAIN pkgs' = DOMAIN pkgs
  BY <1>1 DEF Released
<1>3. /\ fetch' \in Seq(ThreadType) /\ DOMAIN fetch' = DOMAIN fetch
      /\ \A m \in DOMAIN fetch : fetch'[m].obj = fetch[m].obj
  <2>1. \E pc \in ThreadPcs : Moved(n, pc)
    BY <1>1 DEF Worked, ThreadPcs
  <2> QED
    BY <2>1 DEF Moved
<1>4. lock' \in {lock, NoThread, n}
  BY <1>1 DEF Worked
<1>5. ThreadsType'
  BY <1>2, <1>3, <1>4 DEF Sound, Types, ThreadsType
<1>6. disk' \in [Dirs \X Pkgs -> [Paths -> FileState]]
  BY <1>1 DEF Worked, Written, Sound, Types, DataType
<1>7. StackType' /\ Shape'
  BY <1>1, <1>2, SameStack
<1>8. Slugs'
  BY <1>1 DEF Sound, Slugs, Top
<1> QED
  BY <1>1, <1>2, <1>5, <1>6, <1>7, <1>8 DEF Sound, Types, GivenType, DataType, CallType

\* Nothing happens, and nothing is lost.
LEMMA StutterSound ==
  ASSUME Sound, UNCHANGED vars
  PROVE  Sound'
<1>1. /\ UNCHANGED <<opts, lock, get, json, faults, retried, torn>>
      /\ UNCHANGED <<cat, cmd, stack, fetch, pkgs, visited, disk, cache, root, code, failed, unmade, stale, raced>>
  BY DEF vars, pkgVars, installVars
<1>2. StackType' /\ Shape'
  BY <1>1, SameStack
<1>3. ThreadsType'
  BY <1>1, SameThreads
<1>4. Slugs'
  BY <1>1 DEF Sound, Slugs, Top
<1> QED
  BY <1>1, <1>2, <1>3, <1>4 DEF Sound, Types, GivenType, DataType, CallType

\* Every step keeps the types, the stack's shape and the library's place.
LEMMA StepSound ==
  ASSUME Sound, Pathed, Next
  PROVE  Sound'
<1>1. CASE MainStep
  <2>1. CASE \/ NextPackage \/ GotPackage \/ NoPackage \/ ListReturned \/ EndOfList
             \/ PackageReturned \/ Upgraded \/ Developed \/ LocalArgument \/ Alone \/ Local \/ EndOfCommand
    BY <2>1, NextPackageSound, GotPackageSound, NoPackageSound, ListReturnedSound, EndOfListSound,
       PackageReturnedSound, UpgradedSound, DevelopedSound, LocalArgumentSound, AloneSound,
       LocalSound, EndOfCommandSound
  <2>2. CASE \/ EnterSection \/ Tested \/ Prepare \/ Marked \/ Reference \/ FetchMakefile \/ JoinMakefile
             \/ Looked \/ Download \/ Join \/ Stored
    BY <2>2, EnterSectionSound, TestedSound, PrepareSound, MarkedSound, ReferenceSound,
       FetchMakefileSound, JoinMakefileSound, LookedSound, DownloadSound, JoinSound, StoredSound
  <2>3. CASE \/ Configure \/ Unpack \/ RunInstall
             \/ Dependencies \/ DependenciesDone \/ Cleanup \/ Library
    BY <2>3, ConfigureSound, UnpackSound, RunInstallSound, DependenciesSound, DependenciesDoneSound,
       CleanupSound, LibrarySound
  <2> QED
    BY <1>1, <2>1, <2>2, <2>3 DEF MainStep
<1>2. CASE \E n \in DOMAIN fetch : FetchFile(n)
  BY <1>2, FetchFileSound
<1> QED
  BY <1>1, <1>2 DEF Next

\* The options a program sets are options.
LEMMA OptionsIs ==
  ASSUME NEW o \in Options, NEW program \in {"install", "update", "upgrade"}
  PROVE  /\ SetOpts(DefaultOpts, ProgramOpts(program, o)) \in Options
         /\ SetOpts(DefaultOpts, ProgramOpts(program, o)).concurrency \in Nat
<1>1. PICK q \in Options : q = ProgramOpts(program, o)
  <2>1. UpdateOpts(o) \in Options /\ UpgradeOpts(o) \in Options /\ InstallOpts(o) \in Options
    BY DEF UpdateOpts, UpgradeOpts, InstallOpts, Options
  <2> QED
    BY <2>1 DEF ProgramOpts
<1>2. q.concurrency \in Int /\ DefaultOpts.concurrency = 4
  BY DEF Options, DefaultOpts
<1>3. PICK c \in Nat : c = IF q.concurrency = 0 THEN DefaultOpts.concurrency
                          ELSE IF q.concurrency < 0 THEN 0 ELSE q.concurrency
  BY <1>2
<1>4. PICK r : r = [q EXCEPT !.concurrency = c]
  OBVIOUS
<1>5. r \in Options /\ r.concurrency = c
  BY <1>3, <1>4 DEF Options
<1>6. SetOpts(DefaultOpts, q) = r
  BY <1>3, <1>4 DEF SetOpts
<1> QED
  BY <1>1, <1>3, <1>5, <1>6

\* What a run begins with.
LEMMA InitIs ==
  ASSUME Init
  PROVE  /\ GivenType /\ cmd \in Invocation
         /\ \E kind \in {"alone", "command"}, dir \in Dirs, todo \in Seq(Pkgs \cup {"here", "file"}) :
               /\ stack = <<Frame(kind, dir, todo)>> /\ todo = cmd.args
               /\ kind = (IF cmd.args = <<>> THEN "alone" ELSE "command")
         /\ json \in [Pkgs -> {"none", "fresh", "old"}] /\ cache \in [Pkgs -> Copy]
         /\ disk \in [Dirs \X Pkgs -> [Paths -> FileState]]
         /\ root = cmd.given /\ root \in [deps : Seq(Pkgs), dev : Seq(Pkgs)]
         /\ fetch = <<>> /\ pkgs = <<>> /\ visited = {} /\ code = <<>> /\ failed = {}
         /\ unmade = FALSE /\ stale = FALSE /\ raced = FALSE
         /\ lock = NoThread /\ get = [t \in Callers |-> Idle] /\ faults = 0 /\ retried = FALSE
         /\ ~cmd.twins => \A p \in Pkgs : NoTwins(cat[p])
         /\ ~cmd.leftover =>
              /\ \A d \in Dirs \X Pkgs, f \in Paths : disk[d][f] # "part"
              /\ \A p \in Pkgs : cache[p].age = "fresh" =>
                     /\ \A f \in Paths : cache[p].copy[f] # "part"
                     /\ \A f \in SrcOf(p) : cache[p].copy[f] = "full"
         /\ cmd.program = "upgrade" => Len(cmd.args) = 1 /\ cmd.args[1] \in Pkgs
         /\ \A m, n \in DOMAIN ManifestNames :
                cmd.manifests[m] = "good" /\ cmd.manifests[n] = "good" => m = n
<1>1. PICK s \in Scenarios :
        /\ cat = s.cat
        /\ cmd = s.cmd
        /\ opts = SetOpts(DefaultOpts, ProgramOpts(s.cmd.program, s.opts))
        /\ root = s.root
        /\ json = s.json
        /\ cache = s.cache
        /\ disk = s.disk
  BY DEF Init
<1>2. /\ s \in Scenario
      /\ s.root = s.cmd.given
      /\ ~s.cmd.twins => \A p \in Pkgs : NoTwins(s.cat[p])
      /\ ~s.cmd.leftover => NoLeftover(s)
      /\ s.cmd.program = "upgrade" => Len(s.cmd.args) = 1 /\ s.cmd.args[1] \in Pkgs
      /\ \A m, n \in DOMAIN ManifestNames :
             s.cmd.manifests[m] = "good" /\ s.cmd.manifests[n] = "good" => m = n
  BY ScenariosAssumption
<1>3. /\ cat \in [Pkgs -> Manifest] /\ cmd \in Invocation /\ s.opts \in Options
      /\ json \in [Pkgs -> {"none", "fresh", "old"}] /\ cache \in [Pkgs -> Copy]
      /\ disk \in [Dirs \X Pkgs -> [Paths -> FileState]]
      /\ root \in [deps : Seq(Pkgs), dev : Seq(Pkgs)]
  BY <1>1, <1>2 DEF Scenario
<1>4. cmd.program \in {"install", "update", "upgrade"} /\ cmd.args \in Seq(Pkgs \cup {"here", "file"})
  BY <1>3 DEF Invocation
<1>5. opts \in Options /\ opts.concurrency \in Nat
  <2>1. PICK o \in Options : o = s.opts
    BY <1>3
  <2>2. PICK program \in {"install", "update", "upgrade"} : program = cmd.program
    BY <1>4
  <2>3. opts = SetOpts(DefaultOpts, ProgramOpts(program, o))
    BY <1>1, <2>1, <2>2
  <2> QED
    BY <2>3, OptionsIs
<1>6. GivenType
  BY <1>3, <1>5 DEF GivenType
<1>7. \E kind \in {"alone", "command"}, dir \in Dirs, todo \in Seq(Pkgs \cup {"here", "file"}) :
         /\ stack = <<Frame(kind, dir, todo)>> /\ todo = cmd.args
         /\ kind = (IF cmd.args = <<>> THEN "alone" ELSE "command")
  <2>1. PICK kind \in {"alone", "command"} : kind = IF cmd.args = <<>> THEN "alone" ELSE "command"
    OBVIOUS
  <2>2. PICK dir \in Dirs : dir = IF cmd.program = "upgrade" THEN "tmp" ELSE "deps"
    BY DEF Dirs
  <2>3. stack = <<Frame(kind, dir, cmd.args)>>
    BY <2>1, <2>2 DEF Init
  <2> QED
    BY <1>4, <2>1, <2>3
<1>8. ~cmd.leftover =>
        /\ \A d \in Dirs \X Pkgs, f \in Paths : disk[d][f] # "part"
        /\ \A p \in Pkgs : cache[p].age = "fresh" =>
               /\ \A f \in Paths : cache[p].copy[f] # "part"
               /\ \A f \in SrcOf(p) : cache[p].copy[f] = "full"
  BY <1>1, <1>2 DEF NoLeftover, SrcOf, Src
<1> QED
  BY <1>1, <1>2, <1>3, <1>6, <1>7, <1>8 DEF Init, PackageInit

\* What a run begins with is sound.
LEMMA InitSound ==
  ASSUME Init, Pkgs # {}
  PROVE  Sound /\ Pathed /\ Len(stack) = 1 /\ Top.pc = "next"
<1>1. PICK kind \in {"alone", "command"}, dir \in Dirs, todo \in Seq(Pkgs \cup {"here", "file"}) :
         stack = <<Frame(kind, dir, todo)>>
  BY InitIs
<1>2. PICK f \in FrameType : f = Frame(kind, dir, todo) /\ f.kind = kind /\ f.pc = "next" /\ f.rc = 0
  BY NewFrame DEF Kinds
<1>3. stack = <<f>>
  BY <1>1, <1>2
<1>4. stack \in Seq(FrameType) /\ Len(stack) = 1 /\ stack[1] = f /\ stack # <<>> /\ DOMAIN stack = 1..1
  BY <1>3
<1>5. Top = f
  BY <1>4 DEF Top
<1>6. StackType
  <2>1. \A d \in DOMAIN stack : stack[d].pc = "next"
    BY <1>2, <1>4
  <2> QED
    BY <1>4, <2>1, Points DEF StackType
<1>7. Framed(f, 1)
  BY <1>2 DEF Framed, PcOf
<1>8. Shape
  <2>1. \A d \in 1..1 : d = 1 /\ d + 1 \notin 1..1
    OBVIOUS
  <2> QED
    BY <1>4, <1>7, <2>1 DEF Shape
<1>9. /\ GivenType /\ cmd \in Invocation
      /\ json \in [Pkgs -> {"none", "fresh", "old"}] /\ cache \in [Pkgs -> Copy]
      /\ disk \in [Dirs \X Pkgs -> [Paths -> FileState]]
      /\ root \in [deps : Seq(Pkgs), dev : Seq(Pkgs)]
      /\ fetch = <<>> /\ pkgs = <<>> /\ visited = {} /\ code = <<>>
      /\ unmade = FALSE /\ stale = FALSE /\ raced = FALSE
      /\ lock = NoThread /\ get = [t \in Callers |-> Idle] /\ faults = 0 /\ retried = FALSE
  BY InitIs
<1>10. DataType
  BY <1>9 DEF DataType
<1>11. Idle \in Call /\ Idle.pc = "idle"
  <2>1. Retries \in 1..Retries /\ 1 \in DOMAIN ManifestNames /\ (CHOOSE p \in Pkgs : TRUE) \in Pkgs
    BY RetriesAssumption DEF ManifestNames
  <2> QED
    BY <2>1 DEF Idle, Call
<1>12. CallType
  <2>1. get \in [Callers -> Call]
    BY <1>9, <1>11
  <2>2. json \in [Pkgs -> Entry]
    BY <1>9 DEF Entry
  <2> QED
    BY <1>9, <2>1, <2>2 DEF CallType
<1>13. ThreadsType /\ pkgs \in Seq(ObjectType)
  <2>1. fetch \in Seq(ThreadType) /\ DOMAIN fetch = {} /\ pkgs \in Seq(ObjectType)
    BY <1>9
  <2> QED
    BY <1>9, <2>1 DEF ThreadsType
<1>14. Slugs
  <2>1. get[Main] = Idle
    BY <1>9, MainAssumption
  <2> QED
    BY <1>11, <2>1 DEF Slugs
<1>15. Pathed
  BY <1>2, <1>5 DEF Pathed, Looking, Batch
<1> QED
  BY <1>2, <1>4, <1>5, <1>6, <1>8, <1>9, <1>10, <1>12, <1>13, <1>14, <1>15 DEF Sound, Types

-----------------------------------------------------------------------------
(* The steps that leave the threads, the files and the sections alone.     *)

Beside ==
    /\ UNCHANGED <<cat, cmd, opts, fetch, visited, disk, cache, unmade, stale, raced, lock, retried>>
    /\ Top.pc \notin LoadPcs /\ Top'.pc \notin LoadPcs
    /\ get'[Main].pc \notin {"held", "saving"}
    /\ faults' = 0 => faults = 0
    /\ DOMAIN pkgs' = DOMAIN pkgs
    /\ \A q \in DOMAIN pkgs :
           /\ pkgs'[q].pkg = pkgs[q].pkg /\ pkgs'[q].dir = pkgs[q].dir
           /\ pkgs'[q].refs = pkgs[q].refs
           /\ pkgs'[q].freed => pkgs[q].freed \/ pkgs[q].refs = 0

\* Where they go from and to.
LEMMA OuterPcs ==
  /\ \A pc \in {"next", "slug", "end", "alone", "devs", "last", "configure", "exec", "unpacked",
                "deps", "depsdone", "cleanup", "returned", "developed"} : pc \notin LoadPcs
  /\ LoadPcs \cap Sections = Sections
  BY DEF LoadPcs, Fresh, Unseen, Looking, Batch, Sections

\* A caller waits outside.
LEMMA PoppedOuter ==
  ASSUME Sound, NEW rc \in RCs, Popped(rc)
  PROVE  /\ Top'.pc \in {"next", "alone", "devs", "last", "unpacked", "depsdone", "developed"}
         /\ Top'.rc = rc /\ Kept(Top', stack[Len(stack) - 1]) /\ Top'.pc = stack[Len(stack) - 1].pc
<1>1. Len(stack) > 1 /\ Link(stack[Len(stack) - 1], Top) /\ stack[Len(stack) - 1] \in FrameType
  BY Caller DEF Popped
<1>2. PICK f \in FrameType : f = stack[Len(stack) - 1]
  BY <1>1
<1>3. PICK t \in FrameType : t = [f EXCEPT !.rc = rc]
  BY RcType
<1>4. t.pc = f.pc /\ t.rc = rc /\ Kept(t, f)
  BY <1>3, RcType
<1>5. Top' = t
  BY <1>2, <1>3 DEF Popped
<1>6. f.pc \in {"next", "alone", "devs", "last", "unpacked", "depsdone", "developed"}
  BY <1>1, <1>2 DEF Link
<1> QED
  BY <1>2, <1>4, <1>5, <1>6

\* The library is idle outside of it.
LEMMA IdleHere ==
  ASSUME Sound, Top.pc # "slug", UNCHANGED pkgVars
  PROVE  /\ get'[Main].pc \notin {"held", "saving"} /\ (faults' = 0 => faults = 0)
         /\ UNCHANGED <<opts, lock, retried>>
<1>1. get[Main].pc = "idle"
  BY DEF Sound, Slugs
<1> QED
  BY <1>1 DEF pkgVars

\* A result is given, and nothing else of a package.
LEMMA SettledBeside ==
  ASSUME NEW o, NEW rc, Settled(o, rc)
  PROVE  /\ DOMAIN pkgs' = DOMAIN pkgs
         /\ \A q \in DOMAIN pkgs :
                /\ pkgs'[q].pkg = pkgs[q].pkg /\ pkgs'[q].dir = pkgs[q].dir
                /\ pkgs'[q].refs = pkgs[q].refs
                /\ pkgs'[q].freed => pkgs[q].freed \/ pkgs[q].refs = 0
  BY DEF Settled

\* The steps of a list are beside the loading.
LEMMA ListBeside ==
  ASSUME Sound, NextPackage \/ NoPackage \/ ListReturned \/ EndOfList
  PROVE  Beside
<1>1. CASE NextPackage
  <2>1. /\ Top.pc = "next" /\ Top'.pc = "slug" /\ get'[Main].pc = "ask"
        /\ UNCHANGED <<cat, cmd, stale, raced, fetch, pkgs, visited, disk, cache, unmade, opts, lock,
                       faults, retried>>
    BY <1>1, NextPackageIs
  <2> QED
    BY <2>1, OuterPcs DEF Beside
<1>2. CASE NoPackage
  <2>1. /\ Top.pc = "slug" /\ get'[Main].pc = "idle"
        /\ Top'.pc = "end" \/ UNCHANGED stack
        /\ UNCHANGED <<cat, cmd, stale, raced, fetch, pkgs, visited, disk, cache, unmade, opts, lock,
                       faults, retried>>
    BY <1>2, NoPackageIs
  <2>2. Top'.pc \in {"end", "slug"}
    BY <2>1 DEF Top
  <2> QED
    BY <2>1, <2>2, OuterPcs DEF Beside
<1>3. CASE ListReturned
  <2>1. /\ Top.pc = "returned" /\ Settled(Top.obj, Top.rc) /\ Top'.pc \in {"end", "next"}
        /\ UNCHANGED <<cat, cmd, stale, raced, pkgVars, fetch, visited, disk, cache, unmade>>
    BY <1>3, ListReturnedIs
  <2> QED
    BY <2>1, OuterPcs, IdleHere, SettledBeside DEF Beside
<1>4. CASE EndOfList
  <2>1. /\ Top.pc \in {"end", "next"} /\ Settled(0, 0)
        /\ Popped(IF Top.pc = "end" THEN -1 ELSE 0)
        /\ UNCHANGED <<cat, cmd, stale, raced, pkgVars, fetch, visited, disk, cache, unmade>>
    BY <1>4, EndOfListIs
  <2>2. PICK rc \in RCs : rc = IF Top.pc = "end" THEN -1 ELSE 0
    BY DEF RCs
  <2>3. Top'.pc \in {"next", "alone", "devs", "last", "unpacked", "depsdone", "developed"}
    BY <2>1, <2>2, PoppedOuter
  <2> QED
    BY <2>1, <2>3, OuterPcs, IdleHere, SettledBeside DEF Beside
<1> QED
  BY <1>1, <1>2, <1>3, <1>4

\* So are the steps of the command.
LEMMA CommandBeside ==
  ASSUME Sound, PackageReturned \/ Upgraded \/ Developed \/ LocalArgument \/ Alone \/ Local \/ EndOfCommand
  PROVE  Beside
<1>1. CASE PackageReturned
  <2>1. /\ Top.pc = "returned"
        /\ UNCHANGED <<cat, cmd, stale, raced, pkgVars, fetch, visited, disk, cache, unmade>>
        /\ \/ cat[Pkg].dev \in Seq(Pkgs) /\ InstallList("developed", "deps", cat[Pkg].dev) /\ UNCHANGED pkgs
           \/ LeftWith(Top.rc)
    BY <1>1, PackageReturnedIs
  <2>2. CASE cat[Pkg].dev \in Seq(Pkgs) /\ InstallList("developed", "deps", cat[Pkg].dev) /\ UNCHANGED pkgs
    <3>1. "developed" \in Pcs /\ "deps" \in Dirs
      BY DEF Pcs, ObjPcs, Dirs
    <3>2. PICK list \in Seq(Pkgs) : list = cat[Pkg].dev
      BY <2>2
    <3>3. Top'.pc = "next"
      BY <2>2, <3>1, <3>2, ListIs
    <3> QED
      BY <2>1, <2>2, <3>3, OuterPcs, IdleHere DEF Beside
  <2>3. CASE LeftWith(Top.rc)
    <3>1. Settled(Top.obj, Top.rc) /\ Top'.pc \in {"next", "returned"}
      BY <2>1, <2>3 DEF LeftWith, Top
    <3> QED
      BY <2>1, <3>1, OuterPcs, IdleHere, SettledBeside DEF Beside
  <2> QED
    BY <2>1, <2>2, <2>3
<1>2. CASE Upgraded
  <2>1. /\ Top.pc = "returned" /\ Settled(Top.obj, Top.rc)
        /\ UNCHANGED <<cat, cmd, stale, raced, pkgVars, fetch, visited, disk, cache, unmade, stack>>
    BY <1>2, UpgradedIs
  <2>2. Top'.pc = "returned"
    BY <2>1 DEF Top
  <2> QED
    BY <2>1, <2>2, OuterPcs, IdleHere, SettledBeside DEF Beside
<1>3. CASE Developed
  <2>1. /\ Top.pc = "developed" /\ LeftWith(Top.rc)
        /\ UNCHANGED <<cat, cmd, stale, raced, pkgVars, fetch, visited, disk, cache, unmade>>
    BY <1>3, DevelopedIs
  <2>2. Settled(Top.obj, Top.rc) /\ Top'.pc \in {"next", "developed"}
    BY <2>1 DEF LeftWith, Top
  <2> QED
    BY <2>1, <2>2, OuterPcs, IdleHere, SettledBeside DEF Beside
<1>4. CASE LocalArgument
  <2>1. /\ Top.pc = "next" /\ Top'.pc = "next"
        /\ UNCHANGED <<cat, cmd, stale, raced, pkgVars, fetch, pkgs, visited, disk, cache, unmade>>
    BY <1>4, LocalArgumentIs
  <2> QED
    BY <2>1, OuterPcs, IdleHere DEF Beside
<1>5. CASE Alone
  <2>1. /\ \/ Top.pc = "next" /\ \E g \in FrameType : Called("alone", g) /\ g.pc = "next"
           \/ Top.pc = "alone" /\ UNCHANGED stack
        /\ UNCHANGED <<cat, cmd, stale, raced, pkgVars, fetch, pkgs, visited, disk, cache, unmade>>
    BY <1>5, AloneIs
  <2>2. Top.pc \in {"next", "alone"} /\ Top'.pc \in {"next", "alone"}
    BY <2>1 DEF Called, Top
  <2> QED
    BY <2>1, <2>2, OuterPcs, IdleHere DEF Beside
<1>6. CASE Local
  <2>1. /\ Top.pc \in {"next", "devs", "last"}
        /\ root.deps \in Seq(Pkgs) /\ root.dev \in Seq(Pkgs)
        /\ \/ InstallList("devs", "deps", root.deps)
           \/ InstallList("last", "deps", root.dev)
           \/ LeftLocal(0) \/ LeftLocal(1)
        /\ UNCHANGED <<cat, cmd, stale, raced, pkgVars, fetch, pkgs, visited, disk, cache, unmade>>
    BY <1>6, LocalIs
  <2>2. "devs" \in Pcs /\ "last" \in Pcs /\ "deps" \in Dirs
    BY DEF Pcs, Dirs
  <2>3. InstallList("devs", "deps", root.deps) => Top'.pc = "next"
    BY <2>1, <2>2, ListIs
  <2>4. InstallList("last", "deps", root.dev) => Top'.pc = "next"
    BY <2>1, <2>2, ListIs
  <2>5. ASSUME NEW rc \in {0, 1}, LeftLocal(rc) PROVE Top'.pc \notin LoadPcs
    <3>1. Popped(rc) => Top'.pc \notin LoadPcs
      BY PoppedOuter, OuterPcs DEF RCs
    <3> QED
      BY <2>5, <3>1, OuterPcs DEF LeftLocal
  <2>6. Top'.pc \notin LoadPcs
    BY <2>1, <2>3, <2>4, <2>5, OuterPcs
  <2> QED
    BY <2>1, <2>6, OuterPcs, IdleHere DEF Beside
<1>7. CASE EndOfCommand
  <2>1. /\ Top.pc = "next"
        /\ UNCHANGED <<cat, cmd, stale, raced, pkgVars, fetch, pkgs, visited, disk, cache, unmade, stack>>
    BY <1>7, EndOfCommandIs
  <2>2. Top'.pc = "next"
    BY <2>1 DEF Top
  <2> QED
    BY <2>1, <2>2, OuterPcs, IdleHere DEF Beside
<1> QED
  BY <1>1, <1>2, <1>3, <1>4, <1>5, <1>6, <1>7

\* So are the commands that are run, and the clean up.
LEMMA CommandsBeside ==
  ASSUME Sound, Configure \/ Unpack \/ RunInstall \/ Dependencies \/ DependenciesDone \/ Cleanup
  PROVE  Beside
<1>0. Top.pc # "slug" => get[Main].pc = "idle"
  BY DEF Sound, Slugs
<1>1. CASE Configure
  <2>1. /\ Top.pc = "configure" /\ Top'.pc \in {"exec", "cleanup"} /\ (UNCHANGED faults \/ Fault)
        /\ UNCHANGED <<cat, cmd, stale, raced, fetch, pkgs, visited, disk, cache, unmade, opts, lock,
                       get, retried>>
    BY <1>1, ConfigureIs
  <2>2. faults' = 0 => faults = 0
    BY <2>1, FaultIs
  <2> QED
    BY <1>0, <2>1, <2>2, OuterPcs DEF Beside
<1>2. CASE Unpack
  <2>1. /\ Top.pc = "exec" /\ Top.pc \in ObjPcs
        /\ \/ InstallList("unpacked", "unpacked", cat[Pkg].deps) /\ UNCHANGED faults
           \/ Fault /\ Top'.pc = "cleanup"
        /\ UNCHANGED <<cat, cmd, stale, raced, fetch, pkgs, visited, disk, cache, unmade, opts, lock,
                       get, retried>>
    BY <1>2, UnpackIs
  <2>2. faults' = 0 => faults = 0
    BY <2>1, FaultIs
  <2>3. InstallList("unpacked", "unpacked", cat[Pkg].deps) => Top'.pc = "next"
    <3>1. "unpacked" \in Pcs /\ "unpacked" \in Dirs
      BY Points DEF Dirs
    <3>2. PICK list \in Seq(Pkgs) : list = cat[Pkg].deps
      BY <2>1, Inside, DepsType
    <3> QED
      BY <3>1, <3>2, ListIs
  <2> QED
    BY <1>0, <2>1, <2>2, <2>3, OuterPcs DEF Beside
<1>3. CASE RunInstall
  <2>1. /\ Top.pc = "unpacked" /\ Top'.pc \in {"deps", "cleanup"} /\ (UNCHANGED faults \/ Fault)
        /\ UNCHANGED <<cat, cmd, stale, raced, fetch, pkgs, visited, disk, cache, unmade, opts, lock,
                       get, retried>>
    BY <1>3, RunInstallIs
  <2>2. faults' = 0 => faults = 0
    BY <2>1, FaultIs
  <2> QED
    BY <1>0, <2>1, <2>2, OuterPcs DEF Beside
<1>4. CASE Dependencies
  <2>1. /\ Top.pc \in {"deps", "exec"} /\ Top.dir \in Dirs
        /\ InstallList("depsdone", Top.dir, cat[Pkg].deps) /\ cat[Pkg].deps \in Seq(Pkgs)
        /\ UNCHANGED <<cat, cmd, stale, raced, pkgVars, fetch, pkgs, visited, disk, cache, unmade>>
    BY <1>4, DependenciesIs
  <2>2. Top'.pc = "next"
    <3>1. "depsdone" \in Pcs
      BY Points
    <3>2. PICK list \in Seq(Pkgs), dir \in Dirs : list = cat[Pkg].deps /\ dir = Top.dir
      BY <2>1
    <3> QED
      BY <2>1, <3>1, <3>2, ListIs
  <2> QED
    BY <2>1, <2>2, OuterPcs, IdleHere DEF Beside
<1>5. CASE DependenciesDone
  <2>1. /\ Top.pc = "depsdone" /\ Top'.pc = "cleanup"
        /\ UNCHANGED <<cat, cmd, stale, raced, pkgVars, fetch, pkgs, visited, disk, cache, unmade>>
    BY <1>5, DependenciesDoneIs
  <2> QED
    BY <2>1, OuterPcs, IdleHere DEF Beside
<1>6. CASE Cleanup
  <2>1. /\ Top.pc = "cleanup" /\ Top'.pc = "returned" /\ Top.obj \in DOMAIN pkgs
        /\ DOMAIN pkgs' = DOMAIN pkgs
        /\ pkgs'[Top.obj] = [pkgs[Top.obj] EXCEPT !.name = "freed"]
        /\ \A q \in DOMAIN pkgs : q # Top.obj => pkgs'[q] = pkgs[q]
        /\ UNCHANGED <<cat, cmd, stale, raced, pkgVars, fetch, visited, disk, cache, unmade>>
    BY <1>6, CleanupIs
  <2>2. pkgs[Top.obj] \in ObjectType
    BY <2>1 DEF Sound, Types
  <2>3. \A q \in DOMAIN pkgs :
           /\ pkgs'[q].pkg = pkgs[q].pkg /\ pkgs'[q].dir = pkgs[q].dir
           /\ pkgs'[q].refs = pkgs[q].refs /\ pkgs'[q].freed = pkgs[q].freed
    BY <2>1, <2>2 DEF ObjectType
  <2> QED
    BY <2>1, <2>3, OuterPcs, IdleHere DEF Beside
<1> QED
  BY <1>1, <1>2, <1>3, <1>4, <1>5, <1>6

\* The steps around the loading of a package.
LEMMA BesideSteps ==
  ASSUME Sound,
         \/ NextPackage \/ NoPackage \/ ListReturned \/ EndOfList
         \/ PackageReturned \/ Upgraded \/ Developed \/ LocalArgument \/ Alone \/ Local \/ EndOfCommand
         \/ Configure \/ Unpack \/ RunInstall \/ Dependencies \/ DependenciesDone \/ Cleanup
  PROVE  Beside
  BY ListBeside, CommandBeside, CommandsBeside

-----------------------------------------------------------------------------
(* The sections and what is between them.                                  *)

\* main goes to pc in the same call of clib_package_install.
Went(pc) == Advanced /\ Top'.pc = pc /\ Top'.rc = Top.rc

\* What a step inside the sections does.
LEMMA WentIs ==
  ASSUME Sound, NEW pc \in Pcs, Go(pc)
  PROVE  Went(pc)
  BY GoIs DEF Went, Advanced, Sound, Types

\* What EnterSection does.
LEMMA EnterSectionIs ==
  ASSUME Sound, EnterSection
  PROVE  /\ Top.pc \in ObjPcs
         /\ \/ Top.pc = "test" /\ Went("tested")
            \/ Top.pc = "mark" /\ Went("marked")
            \/ Top.pc = "look" /\ Went("looked")
            \/ Top.pc = "store" /\ Went("stored")
         /\ lock = NoThread /\ lock' = Main
         /\ UNCHANGED <<cat, cmd, stale, raced, root, code, failed, fetch, pkgs, visited, disk,
                        cache, unmade, opts, get, json, faults, retried, torn>>
<1>1. /\ Top.pc \in {"test", "mark", "look", "store"} /\ Go(Section[Top.pc])
      /\ lock = NoThread /\ lock' = Main
      /\ UNCHANGED <<cat, cmd, stale, raced, root, code, failed, fetch, pkgs, visited, disk,
                     cache, unmade, opts, get, json, faults, retried, torn>>
  BY DEF EnterSection, Section, Installing, MainUnchanged
<1>2. /\ Top.pc = "test" => Section[Top.pc] = "tested"
      /\ Top.pc = "mark" => Section[Top.pc] = "marked"
      /\ Top.pc = "look" => Section[Top.pc] = "looked"
      /\ Top.pc = "store" => Section[Top.pc] = "stored"
  BY DEF Section
<1>3. {"tested", "marked", "looked", "stored"} \subseteq Pcs
  BY Points
<1>4. \A pc \in {"tested", "marked", "looked", "stored"} : Section[Top.pc] = pc => Went(pc)
  BY <1>1, <1>3, WentIs
<1>5. Top.pc \in ObjPcs
  BY <1>1, Points
<1> QED
  BY <1>1, <1>2, <1>4, <1>5

\* What Tested does.
LEMMA TestedIs ==
  ASSUME Sound, Tested
  PROVE  /\ Top.pc = "tested" /\ Top.pc \in ObjPcs
         /\ \/ Pkg \in visited /\ Went("returned")
            \/ Pkg \notin visited /\ Went("prepare")
         /\ lock' = NoThread
         /\ UNCHANGED <<cat, cmd, stale, raced, root, code, failed, fetch, pkgs, visited, disk,
                        cache, unmade, opts, get, json, faults, retried, torn>>
<1>1. /\ Top.pc = "tested" /\ Go(IF Pkg \in visited THEN "returned" ELSE "prepare")
      /\ lock' = NoThread
      /\ UNCHANGED <<cat, cmd, stale, raced, root, code, failed, fetch, pkgs, visited, disk,
                     cache, unmade, opts, get, json, faults, retried, torn>>
  BY DEF Tested, Installing, MainUnchanged, MainAt
<1>2. "returned" \in Pcs /\ "prepare" \in Pcs /\ "tested" \in ObjPcs
  BY Points
<1>3. CASE Pkg \in visited
  BY <1>1, <1>2, <1>3, WentIs
<1>4. CASE Pkg \notin visited
  BY <1>1, <1>2, <1>4, WentIs
<1> QED
  BY <1>3, <1>4

\* What Prepare does.
LEMMA PrepareIs ==
  ASSUME Sound, Prepare
  PROVE  /\ Top.pc = "prepare" /\ Top.pc \in ObjPcs /\ Top.obj \in DOMAIN pkgs
         /\ \/ Went("mark") /\ UNCHANGED faults
            \/ Fault /\ Advanced /\ Top'.pc = "cleanup" /\ Top'.rc = -1
         /\ faults' \in Nat /\ (faults' = 0 => faults = 0)
         /\ pkgs' \in Seq(ObjectType) /\ DOMAIN pkgs' = DOMAIN pkgs
         /\ pkgs'[Top.obj] = [pkgs[Top.obj] EXCEPT !.name = "live"]
         /\ \A q \in DOMAIN pkgs : q # Top.obj => pkgs'[q] = pkgs[q]
         /\ UNCHANGED <<cat, cmd, stale, raced, root, code, failed, fetch, visited, disk,
                        cache, unmade, opts, lock, get, json, retried, torn>>
<1>1. /\ Top.pc = "prepare" /\ pkgs' = [pkgs EXCEPT ![Top.obj].name = "live"]
      /\ \/ Go("mark") /\ UNCHANGED faults
         \/ Fault /\ Leave(-1)
      /\ UNCHANGED <<cat, cmd, stale, raced, root, code, failed, fetch, visited, disk,
                     cache, unmade, opts, lock, get, json, retried, torn>>
  BY DEF Prepare, Installing, MainUnchanged, MainAt
<1>2. "mark" \in Pcs /\ Top.pc \in ObjPcs /\ -1 \in RCs
  BY <1>1, Points DEF RCs
<1>3. PICK o \in DOMAIN pkgs : o = Top.obj
  BY <1>2, Inside
<1>4. pkgs' = [pkgs EXCEPT ![o].name = "live"]
  BY <1>1, <1>3
<1>5. /\ pkgs' \in Seq(ObjectType) /\ DOMAIN pkgs' = DOMAIN pkgs
      /\ pkgs'[o] = [pkgs[o] EXCEPT !.name = "live"]
      /\ \A q \in DOMAIN pkgs : q # o => pkgs'[q] = pkgs[q]
  BY <1>4, NameIs
<1>6. CASE Go("mark") /\ UNCHANGED faults
  BY <1>1, <1>2, <1>3, <1>5, <1>6, WentIs DEF Sound, Types, CallType
<1>7. CASE Fault /\ Leave(-1)
  BY <1>1, <1>2, <1>3, <1>5, <1>7, LeaveIs, FaultIs DEF Advanced, Sound, Types
<1> QED
  BY <1>1, <1>6, <1>7

\* What Marked does.
LEMMA MarkedIs ==
  ASSUME Sound, Marked
  PROVE  /\ Top.pc = "marked" /\ Top.pc \in ObjPcs /\ Pkg \in Pkgs
         /\ \/ cat[Pkg].makefile # "none" /\ Went("make")
            \/ Went(Sources)
         /\ visited' = visited \cup {Pkg} /\ lock' = NoThread
         /\ UNCHANGED <<cat, cmd, stale, raced, root, code, failed, fetch, pkgs, disk,
                        cache, unmade, opts, get, json, faults, retried, torn>>
<1>1. /\ Top.pc = "marked" /\ Go(IF ~opts.global /\ cat[Pkg].makefile # "none" THEN "make" ELSE Sources)
      /\ visited' = visited \cup {Pkg} /\ lock' = NoThread
      /\ UNCHANGED <<cat, cmd, stale, raced, root, code, failed, fetch, pkgs, disk,
                     cache, unmade, opts, get, json, faults, retried, torn>>
  BY DEF Marked, Installing, MainUnchanged, MainAt
<1>2. "make" \in Pcs /\ Top.pc \in ObjPcs /\ {"configure", "look"} \subseteq Pcs
  BY <1>1, Points
<1>3. CASE ~opts.global /\ cat[Pkg].makefile # "none"
  BY <1>1, <1>2, <1>3, WentIs, Inside
<1>4. CASE ~(~opts.global /\ cat[Pkg].makefile # "none")
  <2>1. PICK pc \in {"configure", "look"} : pc = Sources
    BY SourcesIs
  <2>2. Go(pc)
    BY <1>1, <1>4, <2>1
  <2> QED
    BY <1>1, <1>2, <2>1, <2>2, WentIs, Inside
<1> QED
  BY <1>3, <1>4

\* What Looked does.
LEMMA LookedIs ==
  ASSUME Sound, Looked
  PROVE  /\ Top.pc = "looked" /\ Top.pc \in ObjPcs /\ Pkg \in Pkgs /\ Place \in Dirs \X Pkgs
         /\ \/ Went("download") /\ UNCHANGED <<disk, cache, faults>> /\ cache[Pkg].age # "fresh"
            \/ /\ Went("download") /\ UNCHANGED <<disk, faults>>
               /\ cache'[Pkg].age = "none" /\ \A q \in Pkgs : q # Pkg => cache'[q] = cache[q]
            \/ /\ cache[Pkg].age = "fresh"
               /\ Went("configure") /\ UNCHANGED <<cache, faults>>
               /\ \A d \in Dirs \X Pkgs : d # Place => disk'[d] = disk[d]
               /\ \A f \in Paths : disk'[Place][f] =
                      IF cache[Pkg].copy[f] = "none" THEN disk[Place][f] ELSE cache[Pkg].copy[f]
            \/ /\ Went("download") /\ UNCHANGED disk /\ Fault
               /\ cache'[Pkg].age = "none" /\ \A q \in Pkgs : q # Pkg => cache'[q] = cache[q]
            \/ (Went("download") \/ Went("configure")) /\ Fault /\ UNCHANGED cache
         /\ faults' \in Nat /\ (faults' = 0 => faults = 0)
         /\ disk' \in [Dirs \X Pkgs -> [Paths -> FileState]] /\ cache' \in [Pkgs -> Copy]
         /\ lock' = NoThread
         /\ UNCHANGED <<cat, cmd, stale, raced, root, code, failed, fetch, pkgs, visited,
                        unmade, opts, get, json, retried, torn>>
<1>1. /\ Top.pc = "looked" /\ lock' = NoThread
      /\ \/ ~HasPackage(Pkg) /\ Go("download") /\ UNCHANGED <<disk, cache, faults>>
         \/ HasPackage(Pkg) /\ opts.skip_cache /\ DeletePackage(Pkg) /\ Go("download")
            /\ UNCHANGED <<disk, faults>>
         \/ HasPackage(Pkg) /\ ~opts.skip_cache /\ LoadPackage(Pkg, "download", "configure")
      /\ UNCHANGED <<cat, cmd, stale, raced, root, code, failed, fetch, pkgs, visited,
                     unmade, opts, get, json, retried, torn>>
  BY DEF Looked, Installing, MainUnchanged, MainAt
<1>2. "download" \in Pcs /\ "configure" \in Pcs /\ Top.pc \in ObjPcs
  BY <1>1, Points
<1>3. Pkg \in Pkgs /\ Place \in Dirs \X Pkgs
  BY <1>2, Inside
<1>4. /\ faults \in Nat /\ disk \in [Dirs \X Pkgs -> [Paths -> FileState]] /\ cache \in [Pkgs -> Copy]
  BY DEF Sound, Types, CallType, DataType
<1>5. (Go("download") => Went("download")) /\ (Go("configure") => Went("configure"))
  BY <1>2, WentIs
<1>6. CASE ~HasPackage(Pkg) /\ Go("download") /\ UNCHANGED <<disk, cache, faults>>
  BY <1>1, <1>2, <1>3, <1>4, <1>5, <1>6 DEF HasPackage
<1>7. CASE HasPackage(Pkg) /\ opts.skip_cache /\ DeletePackage(Pkg) /\ Go("download")
            /\ UNCHANGED <<disk, faults>>
  <2>1. /\ cache' \in [Pkgs -> Copy] /\ cache'[Pkg].age = "none"
        /\ \A q \in Pkgs : q # Pkg => cache'[q] = cache[q]
    BY <1>3, <1>7, DeleteIs
  <2> QED
    BY <1>1, <1>2, <1>3, <1>4, <1>5, <1>7, <2>1
<1>8. CASE HasPackage(Pkg) /\ ~opts.skip_cache /\ LoadPackage(Pkg, "download", "configure")
  <2>1. /\ disk' \in [Dirs \X Pkgs -> [Paths -> FileState]] /\ cache' \in [Pkgs -> Copy]
        /\ faults' \in Nat
        /\ \/ /\ Go("configure") /\ UNCHANGED <<cache, faults>>
              /\ \A d \in Dirs \X Pkgs : d # Place => disk'[d] = disk[d]
              /\ \A f \in Paths : disk'[Place][f] =
                     IF cache[Pkg].copy[f] = "none" THEN disk[Place][f] ELSE cache[Pkg].copy[f]
           \/ /\ Go("download") /\ UNCHANGED disk /\ Fault
              /\ cache' = [cache EXCEPT ![Pkg].age = "none"]
           \/ (Go("download") \/ Go("configure")) /\ Fault /\ UNCHANGED cache
    BY <1>2, <1>8, LoadIs
  <2>2. CASE Go("download") /\ UNCHANGED disk /\ Fault /\ cache' = [cache EXCEPT ![Pkg].age = "none"]
    <3>1. DeletePackage(Pkg)
      BY <2>2 DEF DeletePackage
    <3>2. /\ cache'[Pkg].age = "none" /\ \A q \in Pkgs : q # Pkg => cache'[q] = cache[q]
      BY <1>3, <3>1, DeleteIs
    <3>3. faults' # 0
      BY <2>2, FaultIs
    <3> QED
      BY <1>1, <1>2, <1>3, <1>5, <2>1, <2>2, <3>2, <3>3
  <2>3. CASE /\ Go("configure") /\ UNCHANGED <<cache, faults>>
             /\ \A d \in Dirs \X Pkgs : d # Place => disk'[d] = disk[d]
             /\ \A f \in Paths : disk'[Place][f] =
                     IF cache[Pkg].copy[f] = "none" THEN disk[Place][f] ELSE cache[Pkg].copy[f]
    BY <1>1, <1>2, <1>3, <1>5, <1>8, <2>1, <2>3 DEF HasPackage
  <2>4. CASE (Go("download") \/ Go("configure")) /\ Fault /\ UNCHANGED cache
    <3>1. faults' # 0
      BY <2>4, FaultIs
    <3> QED
      BY <1>1, <1>2, <1>3, <1>5, <2>1, <2>4, <3>1
  <2> QED
    BY <2>1, <2>2, <2>3, <2>4
<1> QED
  BY <1>1, <1>6, <1>7, <1>8

\* What Stored does.
LEMMA StoredIs ==
  ASSUME Sound, Stored
  PROVE  /\ Top.pc = "stored" /\ Top.pc \in ObjPcs /\ Pkg \in Pkgs /\ Place \in Dirs \X Pkgs
         /\ Went("configure")
         /\ cache' \in [Pkgs -> Copy] /\ faults' \in Nat /\ (faults' = 0 => faults = 0)
         /\ faults' # 0 \/ cache'[Pkg] = [age |-> "fresh", copy |-> disk[Place]]
         /\ \A q \in Pkgs : q # Pkg => cache'[q] = cache[q]
         /\ lock' = NoThread
         /\ UNCHANGED <<cat, cmd, stale, raced, root, code, failed, fetch, pkgs, visited, disk,
                        unmade, opts, get, json, retried, torn>>
<1>1. /\ Top.pc = "stored" /\ Go("configure") /\ SavePackage(Pkg) /\ lock' = NoThread
      /\ UNCHANGED <<cat, cmd, stale, raced, root, code, failed, fetch, pkgs, visited, disk,
                     unmade, opts, get, json, retried, torn>>
  BY DEF Stored, Installing, MainUnchanged, MainAt
<1>2. "configure" \in Pcs /\ Top.pc \in ObjPcs
  BY <1>1, Points
<1>3. Pkg \in Pkgs /\ Place \in Dirs \X Pkgs
  BY <1>2, Inside
<1>4. /\ cache' \in [Pkgs -> Copy] /\ faults' \in Nat /\ (faults' = 0 => faults = 0)
      /\ faults' # 0 \/ cache'[Pkg] = [age |-> "fresh", copy |-> disk[Place]]
      /\ \A q \in Pkgs : q # Pkg => cache'[q] = cache[q]
  BY <1>1, <1>2, SaveIs, FaultIs
<1>5. Went("configure")
  BY <1>1, <1>2, WentIs
<1> QED
  BY <1>1, <1>2, <1>3, <1>4, <1>5

-----------------------------------------------------------------------------
(* Who is in the sections of the mutex has it, until a download is retried.*)

Held ==
    ~retried =>
        /\ \A n \in DOMAIN fetch : fetch[n].pc \in {"checked", "logged"} => lock = n
        /\ get[Main].pc \in {"held", "saving"} \/ Top.pc \in Sections => lock = Main

\* No thread takes main's place or that of a free mutex.
LEMMA ThreadsAreNot ==
  ASSUME Sound, NEW n \in DOMAIN fetch
  PROVE  n # Main /\ n # NoThread /\ NoThread # Main
<1>1. n \in Nat \ {0}
  BY ThreadHas
<1> QED
  BY <1>1, NoThreadAssumption DEF Main

\* The threads are as they were, but for one that begins.
Joining ==
    \A n \in DOMAIN fetch' :
        \/ n \in DOMAIN fetch /\ fetch'[n] = fetch[n]
        \/ n \notin DOMAIN fetch /\ fetch'[n].pc = "start"

\* What waits outside the sections leaves the mutex to its holder.
LEMMA HeldKept ==
  ASSUME Sound, Held, UNCHANGED <<lock, retried>>, Joining,
         get'[Main].pc \notin {"held", "saving"}, Top'.pc \notin Sections
  PROVE  Held'
  BY DEF Held, Joining

\* Main leaves its section.
LEMMA HeldLeft ==
  ASSUME Sound, Held, Top.pc \in Sections, Top'.pc \notin Sections, lock' = NoThread,
         UNCHANGED <<fetch, retried, get>>
  PROVE  Held'
<1>1. Top.pc # "slug"
  BY DEF Sections
<1>2. get'[Main].pc = "idle"
  BY <1>1 DEF Sound, Slugs
<1>3. ~retried => \A n \in DOMAIN fetch : fetch[n].pc \notin {"checked", "logged"}
  BY ThreadsAreNot DEF Held
<1> QED
  BY <1>2, <1>3 DEF Held

\* Main enters a section.
LEMMA HeldEntered ==
  ASSUME Sound, Held, lock = NoThread, lock' = Main, Top.pc \in ObjPcs, UNCHANGED <<fetch, retried, get>>
  PROVE  Held'
<1>1. ~retried => \A n \in DOMAIN fetch : fetch[n].pc \notin {"checked", "logged"}
  BY ThreadsAreNot DEF Held
<1> QED
  BY <1>1 DEF Held

\* The library keeps the mutex apart.
LEMMA HeldMade ==
  ASSUME Sound, Held, Library
  PROVE  Held'
<1>1. Made /\ Top.pc = "slug" /\ UNCHANGED <<fetch, stack>>
  BY LibraryIs DEF installVars
<1>2. Top'.pc \notin Sections
  BY <1>1 DEF Top, Sections
<1>3. SUFFICES ASSUME ~retried'
               PROVE  /\ \A n \in DOMAIN fetch' : fetch'[n].pc \in {"checked", "logged"} => lock' = n
                      /\ get'[Main].pc \in {"held", "saving"} \/ Top'.pc \in Sections => lock' = Main
  BY DEF Held
<1>4. /\ ~retried /\ (get'[Main].pc \in {"held", "saving"} => lock' = Main)
      /\ lock' # lock => lock = NoThread \/ get[Main].pc \in {"held", "saving"}
  BY <1>1, <1>3 DEF Made
<1>5. ASSUME NEW n \in DOMAIN fetch, fetch[n].pc \in {"checked", "logged"} PROVE lock' = n
  <2>1. lock = n /\ (get[Main].pc \in {"held", "saving"} => lock = Main)
    BY <1>4, <1>5 DEF Held
  <2> QED
    BY <1>4, <2>1, ThreadsAreNot
<1> QED
  BY <1>1, <1>2, <1>4, <1>5

\* A thread's step, for whom it is not.
LEMMA HeldWorked ==
  ASSUME Sound, Held, NEW n \in DOMAIN fetch, FetchFile(n)
  PROVE  Held'
<1>1. Worked(n) /\ UNCHANGED <<stack, get, retried>>
  BY FetchFileIs
<1>2. SUFFICES ASSUME ~retried
               PROVE  /\ \A m \in DOMAIN fetch' : fetch'[m].pc \in {"checked", "logged"} => lock' = m
                      /\ get[Main].pc \in {"held", "saving"} \/ Top.pc \in Sections => lock' = Main
  BY <1>1 DEF Held, Top
<1>3. /\ \A m \in DOMAIN fetch : fetch[m].pc \in {"checked", "logged"} => lock = m
      /\ get[Main].pc \in {"held", "saving"} \/ Top.pc \in Sections => lock = Main
  BY <1>2 DEF Held
<1>4. \A m \in DOMAIN fetch : m # Main /\ m # NoThread /\ NoThread # Main
  BY ThreadsAreNot
<1>5. ASSUME NEW pc, Moved(n, pc)
      PROVE  /\ DOMAIN fetch' = DOMAIN fetch /\ fetch'[n].pc = pc
             /\ \A m \in DOMAIN fetch : m # n => fetch'[m] = fetch[m]
  BY <1>5 DEF Moved
<1>6. CASE lock' = lock /\ \E pc \in {"check", "get", "log", "drop", "dropping", "done"} : Moved(n, pc)
  BY <1>3, <1>5, <1>6
<1>7. CASE lock = NoThread /\ lock' = n /\ \E pc \in {"checked", "logged"} : Moved(n, pc)
  BY <1>3, <1>4, <1>5, <1>7
<1>8. CASE /\ fetch[n].pc \in {"checked", "logged"} /\ lock' = NoThread
           /\ \E pc \in {"open", "drop"} : Moved(n, pc)
  <2>1. lock = n
    BY <1>3, <1>8
  <2> QED
    BY <1>3, <1>4, <1>5, <1>8, <2>1
<1>9. \/ lock' = lock /\ \E pc \in {"check", "get", "log", "drop", "dropping", "done"} : Moved(n, pc)
      \/ lock = NoThread /\ lock' = n /\ \E pc \in {"checked", "logged"} : Moved(n, pc)
      \/ /\ fetch[n].pc \in {"checked", "logged"} /\ lock' = NoThread
         /\ \E pc \in {"open", "drop"} : Moved(n, pc)
  BY <1>1 DEF Worked
<1> QED
  BY <1>6, <1>7, <1>8, <1>9

\* A thread that was made begins.
LEMMA NewJoins ==
  ASSUME Sound, Top.pc \in ObjPcs, NEW path \in Paths, NewFetch(path)
  PROVE  Joining
<1>1. fetch' = Append(fetch, [obj |-> Top.obj, path |-> path, pc |-> "start", seen |-> 0])
  BY DEF NewFetch
<1>2. /\ Len(fetch) \in Nat
      /\ DOMAIN fetch = 1..Len(fetch) /\ DOMAIN fetch' = 1..(Len(fetch) + 1)
      /\ \A n \in DOMAIN fetch : fetch'[n] = fetch[n]
      /\ fetch'[Len(fetch) + 1] = [obj |-> Top.obj, path |-> path, pc |-> "start", seen |-> 0]
  BY <1>1, NewThread
<1>3. ASSUME NEW n \in DOMAIN fetch'
      PROVE  n \in DOMAIN fetch \/ (n = Len(fetch) + 1 /\ n \notin DOMAIN fetch)
  BY <1>2, <1>3
<1>4. fetch'[Len(fetch) + 1].pc = "start"
  BY <1>2
<1> QED
  BY <1>2, <1>3, <1>4 DEF Joining

\* What is to be fetched has a path.
LEMMA PathsAre ==
  ASSUME Sound, Pathed
  PROVE  /\ Top.pc = "makefetch" => cat[Pkg].makefile \in Paths
         /\ Top.pc = "fetch" => Src(Pkg)[Top.k] \in Paths
<1>1. CASE Top.pc = "makefetch"
  BY <1>1, Inside, Points DEF Pathed, Manifest
<1>2. CASE Top.pc = "fetch"
  <2>1. Src(Pkg) # NoList /\ Top.k <= Len(Src(Pkg)) /\ Pkg \in Pkgs
    BY <1>2, Inside, Points DEF Pathed, Batch
  <2>2. Src(Pkg) \in Seq(Paths) /\ Len(Src(Pkg)) \in Nat /\ DOMAIN Src(Pkg) = 1..Len(Src(Pkg))
    BY <2>1, SrcType
  <2>3. Top.k \in Nat \ {0}
    BY TopType, Fields DEF Sound, Types
  <2>4. Top.k \in 1..Len(Src(Pkg))
    BY <2>1, <2>2, <2>3
  <2> QED
    BY <1>2, <2>2, <2>4, ElementOfSeq
<1> QED
  BY <1>1, <1>2

\* A new thread is outside the sections.
LEMMA HeldFetched ==
  ASSUME Sound, Pathed, Held, FetchMakefile \/ Download
  PROVE  Held'
<1>1. \A pc \in {"makewait", "cleanup", "download", "drain"} : pc \notin Sections
  BY DEF Sections
<1>2. UNCHANGED <<lock, get, retried>>
  BY DEF FetchMakefile, Download
<1>3. CASE FetchMakefile
  <2>1. /\ Top.pc = "makefetch" /\ Top.pc \in ObjPcs /\ Top'.pc \in {"makewait", "cleanup"}
        /\ NewFetch(cat[Pkg].makefile) \/ NoFetch
    BY <1>3, FetchMakefileIs
  <2>2. cat[Pkg].makefile \in Paths
    BY <2>1, PathsAre
  <2>3. Joining
    <3>1. NoFetch => UNCHANGED fetch
      BY DEF NoFetch
    <3> QED
      BY <2>1, <2>2, <3>1, NewJoins DEF Joining
  <2>4. get[Main].pc = "idle"
    BY <2>1 DEF Sound, Slugs
  <2> QED
    BY <1>1, <1>2, <2>1, <2>3, <2>4, HeldKept
<1>4. CASE Download
  <2>1. /\ Top.pc = "fetch" /\ Top.pc \in ObjPcs /\ Top'.pc \in {"download", "drain", "cleanup"}
        /\ NewFetch(Src(Pkg)[Top.k]) \/ NoFetch
    BY <1>4, DownloadIs
  <2>2. Src(Pkg)[Top.k] \in Paths
    BY <2>1, PathsAre
  <2>3. Joining
    <3>1. NoFetch => UNCHANGED fetch
      BY DEF NoFetch
    <3> QED
      BY <2>1, <2>2, <3>1, NewJoins DEF Joining
  <2>4. get[Main].pc = "idle"
    BY <2>1 DEF Sound, Slugs
  <2> QED
    BY <1>1, <1>2, <2>1, <2>3, <2>4, HeldKept
<1> QED
  BY <1>3, <1>4

\* Steps beside the sections.
LEMMA HeldStill ==
  ASSUME Sound, Held, GotPackage \/ Prepare \/ Reference \/ JoinMakefile \/ Join
  PROVE  Held'
<1>1. ASSUME UNCHANGED fetch PROVE Joining
  BY <1>1 DEF Joining
<1>2. \A pc \in {"prepare", "test", "mark", "cleanup", "makefetch", "fetch", "configure", "look",
                 "drain", "download", "store"} : pc \notin Sections
  BY DEF Sections
<1>3. Top.pc # "slug" => get[Main].pc = "idle"
  BY DEF Sound, Slugs
<1>4. CASE GotPackage
  <2>1. Top'.pc \in {"prepare", "test"} /\ UNCHANGED fetch /\ Return(Main)
    BY <1>4, GotPackageIs
  <2>2. get'[Main].pc = "idle" /\ UNCHANGED <<lock, retried>>
    BY <2>1, ReturnCall
  <2> QED
    BY <1>1, <1>2, <2>1, <2>2, HeldKept
<1>5. CASE Prepare
  <2>1. Top.pc = "prepare" /\ Top'.pc \in {"mark", "cleanup"} /\ UNCHANGED <<fetch, lock, retried, get>>
    BY <1>5, PrepareIs DEF Went
  <2> QED
    BY <1>1, <1>2, <1>3, <2>1, HeldKept
<1>6. CASE Reference
  <2>1. /\ Top.pc \in {"make", "download"} /\ Top'.pc \in {"makefetch", "fetch"}
        /\ UNCHANGED <<fetch, lock, retried, get>>
    BY <1>6, ReferenceIs DEF pkgVars
  <2> QED
    BY <1>1, <1>2, <1>3, <2>1, HeldKept
<1>7. CASE JoinMakefile
  <2>1. /\ Top.pc = "makewait" /\ Top'.pc \in {"configure", "look"}
        /\ UNCHANGED <<fetch, lock, retried, get>>
    BY <1>7, JoinMakefileIs, SourcesIs DEF pkgVars
  <2> QED
    BY <1>1, <1>2, <1>3, <2>1, HeldKept
<1>8. CASE Join
  <2>1. /\ Top.pc \in {"drain", "download"} /\ Top'.pc \in {"drain", "download", "store"}
        /\ UNCHANGED <<fetch, lock, retried, get>>
    BY <1>8, JoinIs DEF pkgVars
  <2> QED
    BY <1>1, <1>2, <1>3, <2>1, HeldKept
<1> QED
  BY <1>4, <1>5, <1>6, <1>7, <1>8

\* Steps into the sections and out of them.
LEMMA HeldSections ==
  ASSUME Sound, Held, EnterSection \/ Tested \/ Marked \/ Looked \/ Stored
  PROVE  Held'
<1>1. \A pc \in {"returned", "prepare", "make", "configure", "look", "download"} : pc \notin Sections
  BY DEF Sections
<1>2. CASE EnterSection
  BY <1>2, EnterSectionIs, HeldEntered
<1>3. CASE Tested
  <2>1. /\ Top.pc = "tested" /\ Top'.pc \in {"returned", "prepare"} /\ lock' = NoThread
        /\ UNCHANGED <<fetch, retried, get>>
    BY <1>3, TestedIs DEF Went
  <2> QED
    BY <1>1, <2>1, HeldLeft DEF Sections
<1>4. CASE Marked
  <2>1. /\ Top.pc = "marked" /\ Top'.pc \in {"make", "configure", "look"} /\ lock' = NoThread
        /\ UNCHANGED <<fetch, retried, get>>
    BY <1>4, MarkedIs, SourcesIs DEF Went
  <2> QED
    BY <1>1, <2>1, HeldLeft DEF Sections
<1>5. CASE Looked
  <2>1. /\ Top.pc = "looked" /\ Top'.pc \in {"download", "configure"} /\ lock' = NoThread
        /\ UNCHANGED <<fetch, retried, get>>
    BY <1>5, LookedIs DEF Went
  <2> QED
    BY <1>1, <2>1, HeldLeft DEF Sections
<1>6. CASE Stored
  <2>1. /\ Top.pc = "stored" /\ Top'.pc = "configure" /\ lock' = NoThread
        /\ UNCHANGED <<fetch, retried, get>>
    BY <1>6, StoredIs DEF Went
  <2> QED
    BY <1>1, <2>1, HeldLeft DEF Sections
<1> QED
  BY <1>2, <1>3, <1>4, <1>5, <1>6

\* The kinds of steps main takes.
LEMMA MainSteps ==
  ASSUME Sound, MainStep
  PROVE  \/ Beside \/ Library
         \/ GotPackage \/ Prepare \/ Reference \/ JoinMakefile \/ Join
         \/ EnterSection \/ Tested \/ Marked \/ Looked \/ Stored
         \/ FetchMakefile \/ Download
  BY BesideSteps DEF MainStep

\* Every step keeps the mutex with its holder.
LEMMA HeldStep ==
  ASSUME Sound, Pathed, Held, Next
  PROVE  Held'
<1>1. CASE Beside
  <2>1. Top'.pc \notin Sections /\ UNCHANGED <<fetch, lock, retried>> /\ get'[Main].pc \notin {"held", "saving"}
    BY <1>1, OuterPcs DEF Beside
  <2> QED
    BY <2>1, HeldKept DEF Joining
<1> QED
  BY <1>1, MainSteps, HeldMade, HeldStill, HeldSections, HeldFetched, HeldWorked DEF Next

\* Nobody has the mutex at first.
LEMMA HeldInit ==
  ASSUME Init, Pkgs # {}
  PROVE  Held
<1>1. fetch = <<>> /\ Top.pc = "next" /\ Sound
  BY InitIs, InitSound
<1>2. get[Main].pc = "idle"
  BY <1>1 DEF Sound, Slugs
<1>3. DOMAIN fetch = {}
  BY <1>1
<1> QED
  BY <1>1, <1>2, <1>3 DEF Held, Sections

\* One at a time is in the sections.
LEMMA HeldAlone ==
  ASSUME Sound, Held
  PROVE  OneInside
<1> DEFINE fetching == {n \in DOMAIN fetch : fetch[n].pc \in {"checked", "logged"}}
           mainToo == InSection(Main) \/ \E pc \in DOMAIN Section : Top.pc = Section[pc]
<1>1. SUFFICES ASSUME ~retried PROVE Cardinality(fetching) <= 1 /\ (mainToo => fetching = {})
  BY DEF OneInside
<1>2. \A n \in fetching : lock = n
  BY <1>1 DEF Held
<1>3. Cardinality(fetching) <= 1
  <2>1. CASE fetching = {}
    <3>1. Cardinality({}) = 0
      BY FS_EmptySet
    <3> QED
      BY <2>1, <3>1
  <2>2. CASE fetching # {}
    <3>1. fetching = {lock}
      BY <1>2, <2>2
    <3>2. Cardinality({lock}) = 1
      BY FS_Singleton
    <3> HIDE DEF fetching
    <3> QED
      BY <3>1, <3>2
  <2> QED
    BY <2>1, <2>2
<1>4. mainToo => lock = Main
  <2>1. (\E pc \in DOMAIN Section : Top.pc = Section[pc]) => Top.pc \in Sections
    BY DEF Section, Sections
  <2> QED
    BY <1>1, <2>1 DEF Held, InSection
<1>5. mainToo => fetching = {}
  BY <1>2, <1>4, ThreadsAreNot
<1> QED
  BY <1>3, <1>5

-----------------------------------------------------------------------------
(* The package that is loaded, and its threads.                            *)

\* Where main waits for threads.
Waits == {"makewait", "download", "fetch", "drain"}

\* Threads of the package that the slots in use do not hold.
Loose(f) == LiveOf(f.obj) \ {f.slots[j] : j \in 1..f.i}

\* m groups of sources have each left a thread behind.
Paced(f, m) ==
    /\ f.i <= Len(f.slots) /\ f.i <= opts.concurrency /\ f.i >= -1
    /\ Cardinality(Loose(f)) <= m
    /\ m * (opts.concurrency + 1) <= f.k - 1
    /\ f.k <= Len(Src(pkgs[f.obj].pkg)) + 1
    /\ f.pc \in {"store", "stored"} => f.i = -1
    /\ f.pc = "fetch" \/ (f.pc = "download" /\ f.k <= Len(Src(pkgs[f.obj].pkg)))
          => f.k - 1 = m * (opts.concurrency + 1) + Slot(f)
    /\ f.pc = "drain" => f.k - 1 = m * (opts.concurrency + 1)

\* The object is main's.
Owns ==
    Top.pc \in LoadPcs =>
        /\ ~pkgs[Top.obj].freed /\ pkgs[Top.obj].dir = Top.dir
        /\ pkgs[Top.obj].name = (IF Top.pc \in Unseen THEN "none" ELSE "live")

\* Nothing runs for it yet, or its makefile's thread alone.
Starts ==
    /\ Top.pc \in Fresh \cup {"makewait"} \cup Looking => Top.i = 0 /\ Top.k = 1
    /\ Top.pc \in Fresh \cup Looking => Top.slots = <<>>
    /\ Top.pc \in Fresh => \A n \in DOMAIN fetch : fetch[n].obj # Top.obj
    /\ Top.pc = "makewait" => LiveOf(Top.obj) \subseteq {Top.slots[1]}
    /\ Top.pc \in Looking => LiveOf(Top.obj) = {}

\* Its sources' threads.
Batched == Top.pc \in Batch => \E m \in Nat : Paced(Top, m)

Loading == Owns /\ Starts /\ Pathed /\ Batched

\* Main is not, and does not come to be, among the threads.
Outside ==
    /\ UNCHANGED <<cat, cmd, opts, fetch, unmade, stale, raced>>
    /\ Top.pc \notin Waits /\ Top'.pc \notin LoadPcs
    /\ DOMAIN pkgs' = DOMAIN pkgs
    /\ \A q \in DOMAIN pkgs :
           /\ pkgs'[q].pkg = pkgs[q].pkg /\ pkgs'[q].dir = pkgs[q].dir
           /\ pkgs'[q].refs = pkgs[q].refs
           /\ pkgs'[q].freed => pkgs[q].freed \/ pkgs[q].refs = 0

\* Main goes on towards or from the sections, and no thread is made or joined.
Onward ==
    /\ UNCHANGED <<cat, cmd, opts, fetch, unmade, stale, raced>>
    /\ Top.pc \in LoadPcs /\ Kept(Top', Top)
    /\ \/ Top.pc \in Fresh /\ Top'.pc \in Fresh \ {"makefetch"}
       \/ Top.pc = "marked" /\ Top'.pc = "look"
       \/ Top.pc = "look" /\ Top'.pc = "looked"
       \/ Top.pc = "looked" /\ Top'.pc = "download"
       \/ Top.pc = "store" /\ Top'.pc = "stored"
    /\ Top'.pc = "make" => cat[Pkg].makefile # "none"
    /\ Top'.pc = "look" => Src(Pkg) # NoList
    /\ DOMAIN pkgs' = DOMAIN pkgs
    /\ pkgs'[Top.obj].name = (IF Top'.pc \in Unseen THEN "none" ELSE "live")
    /\ \A q \in DOMAIN pkgs :
           /\ pkgs'[q].pkg = pkgs[q].pkg /\ pkgs'[q].dir = pkgs[q].dir
           /\ pkgs'[q].refs = pkgs[q].refs /\ pkgs'[q].freed = pkgs[q].freed

\* The points by name.
LEMMA LoadPoints ==
  /\ Fresh = {"test", "tested", "prepare", "mark", "marked", "make", "makefetch"}
  /\ Looking = {"look", "looked"} /\ Batch = {"download", "fetch", "drain", "store", "stored"}
  /\ Unseen = {"test", "tested", "prepare"}
  /\ LoadPcs = {"test", "tested", "prepare", "mark", "marked", "make", "makefetch", "makewait",
                "look", "looked", "download", "fetch", "drain", "store", "stored"}
  BY DEF Fresh, Looking, Batch, Unseen, LoadPcs

\* A step beside the loading is outside the threads.
LEMMA BesideOutside ==
  ASSUME Beside
  PROVE  Outside
<1>1. Waits \subseteq LoadPcs
  BY LoadPoints DEF Waits
<1> QED
  BY <1>1 DEF Beside, Outside

\* So is the library's.
LEMMA LibraryOutside ==
  ASSUME Sound, Library
  PROVE  Outside
<1>1. Top.pc = "slug" /\ UNCHANGED <<cat, cmd, opts, fetch, unmade, stale, raced, pkgs, stack>>
  BY LibraryIs DEF installVars
<1>2. Top'.pc = "slug"
  BY <1>1 DEF Top
<1> QED
  BY <1>1, <1>2, LoadPoints DEF Outside, Waits

\* No thread is waited for in the sections.
LEMMA WentOnward ==
  ASSUME Sound, Loading, Top.pc \in LoadPcs, NEW pc, Went(pc), pc \in LoadPcs,
         pc = "make" => cat[Pkg].makefile # "none", pc = "look" => Src(Pkg) # NoList,
         UNCHANGED <<cat, cmd, opts, fetch, unmade, stale, raced, pkgs>>,
         \/ Top.pc \in Fresh /\ pc \in Fresh \ {"makefetch"}
         \/ Top.pc = "marked" /\ pc = "look"
         \/ Top.pc = "look" /\ pc = "looked"
         \/ Top.pc = "looked" /\ pc = "download"
         \/ Top.pc = "store" /\ pc = "stored",
         Top.pc \in Unseen <=> pc \in Unseen
  PROVE  Onward
  BY DEF Onward, Went, Advanced, Loading, Owns

\* So is one from a section to another point.
LEMMA WentOutside ==
  ASSUME Top.pc \notin Waits, Top'.pc \notin LoadPcs,
         UNCHANGED <<cat, cmd, opts, fetch, unmade, stale, raced, pkgs>>
  PROVE  Outside
  BY DEF Outside

\* The sections lead onward.
LEMMA SectionsOnward ==
  ASSUME Sound, Loading, EnterSection \/ Tested \/ Prepare \/ Marked \/ Looked \/ Stored
  PROVE  Outside \/ Onward
<1>1. CASE EnterSection
  <2>1. /\ \/ Top.pc = "test" /\ Went("tested")
           \/ Top.pc = "mark" /\ Went("marked")
           \/ Top.pc = "look" /\ Went("looked")
           \/ Top.pc = "store" /\ Went("stored")
        /\ UNCHANGED <<cat, cmd, opts, fetch, unmade, stale, raced, pkgs>>
    BY <1>1, EnterSectionIs
  <2>2. CASE Top.pc = "test" /\ Went("tested")
    BY <2>1, <2>2, LoadPoints, WentOnward
  <2>3. CASE Top.pc = "mark" /\ Went("marked")
    BY <2>1, <2>3, LoadPoints, WentOnward
  <2>4. CASE Top.pc = "look" /\ Went("looked")
    BY <2>1, <2>4, LoadPoints, WentOnward
  <2>5. CASE Top.pc = "store" /\ Went("stored")
    BY <2>1, <2>5, LoadPoints, WentOnward
  <2> QED
    BY <2>1, <2>2, <2>3, <2>4, <2>5
<1>2. CASE Tested
  <2>1. /\ Top.pc = "tested" /\ (Went("returned") \/ Went("prepare"))
        /\ UNCHANGED <<cat, cmd, opts, fetch, unmade, stale, raced, pkgs>>
    BY <1>2, TestedIs
  <2>2. CASE Went("returned")
    BY <2>1, <2>2, LoadPoints, WentOutside DEF Went, Waits
  <2>3. CASE Went("prepare")
    BY <2>1, <2>3, LoadPoints, WentOnward
  <2> QED
    BY <2>1, <2>2, <2>3
<1>3. CASE Prepare
  <2>1. /\ Top.pc = "prepare" /\ Top.obj \in DOMAIN pkgs
        /\ Advanced /\ Top'.pc \in {"mark", "cleanup"}
        /\ pkgs' \in Seq(ObjectType) /\ DOMAIN pkgs' = DOMAIN pkgs
        /\ pkgs'[Top.obj] = [pkgs[Top.obj] EXCEPT !.name = "live"]
        /\ \A q \in DOMAIN pkgs : q # Top.obj => pkgs'[q] = pkgs[q]
        /\ UNCHANGED <<cat, cmd, opts, fetch, unmade, stale, raced>>
    BY <1>3, PrepareIs DEF Went
  <2>2. pkgs[Top.obj] \in ObjectType
    BY <2>1, LoadPoints, Points, Inside
  <2>3. pkgs'[Top.obj].name = "live"
    BY <2>1, <2>2 DEF ObjectType
  <2>4. \A q \in DOMAIN pkgs :
           /\ pkgs'[q].pkg = pkgs[q].pkg /\ pkgs'[q].dir = pkgs[q].dir
           /\ pkgs'[q].refs = pkgs[q].refs /\ pkgs'[q].freed = pkgs[q].freed
    BY <2>1, <2>2 DEF ObjectType
  <2>5. CASE Top'.pc = "mark"
    BY <2>1, <2>3, <2>4, <2>5, LoadPoints DEF Onward, Advanced
  <2>6. CASE Top'.pc = "cleanup"
    BY <2>1, <2>4, <2>6, LoadPoints DEF Outside, Waits
  <2> QED
    BY <2>1, <2>5, <2>6
<1>4. CASE Marked
  <2>1. /\ Top.pc = "marked"
        /\ \/ cat[Pkg].makefile # "none" /\ Went("make")
           \/ Went(Sources)
        /\ UNCHANGED <<cat, cmd, opts, fetch, unmade, stale, raced, pkgs>>
    BY <1>4, MarkedIs
  <2>2. CASE cat[Pkg].makefile # "none" /\ Went("make")
    BY <2>1, <2>2, LoadPoints, WentOnward
  <2>3. CASE Went(Sources) /\ Sources = "configure"
    BY <2>1, <2>3, LoadPoints, WentOutside DEF Went, Waits
  <2>4. CASE Went(Sources) /\ Sources = "look"
    <3>1. Src(Pkg) # NoList
      BY <2>4 DEF Sources
    <3>2. Went("look")
      BY <2>4
    <3> QED
      BY <2>1, <3>1, <3>2, LoadPoints, WentOnward
  <2> QED
    BY <2>1, <2>2, <2>3, <2>4, SourcesIs
<1>5. CASE Looked
  <2>1. /\ Top.pc = "looked" /\ (Went("download") \/ Went("configure"))
        /\ UNCHANGED <<cat, cmd, opts, fetch, unmade, stale, raced, pkgs>>
    BY <1>5, LookedIs
  <2>2. CASE Went("configure")
    BY <2>1, <2>2, LoadPoints, WentOutside DEF Went, Waits
  <2>3. CASE Went("download")
    BY <2>1, <2>3, LoadPoints, WentOnward
  <2> QED
    BY <2>1, <2>2, <2>3
<1>6. CASE Stored
  <2>1. /\ Top.pc = "stored" /\ Went("configure")
        /\ UNCHANGED <<cat, cmd, opts, fetch, unmade, stale, raced, pkgs>>
    BY <1>6, StoredIs
  <2> QED
    BY <2>1, LoadPoints, WentOutside DEF Went, Waits
<1> QED
  BY <1>1, <1>2, <1>3, <1>4, <1>5, <1>6

\* The threads of a package are finitely many.
LEMMA LiveFinite ==
  ASSUME Sound, NEW o
  PROVE  /\ IsFiniteSet(LiveOf(o)) /\ Cardinality(LiveOf(o)) \in Nat
         /\ \A S \in SUBSET LiveOf(o) : IsFiniteSet(S) /\ Cardinality(S) \in Nat
<1>1. DOMAIN fetch = 1..Len(fetch) /\ Len(fetch) \in Nat
  BY LenProperties DEF Sound, Types, ThreadsType
<1>2. IsFiniteSet(DOMAIN fetch)
  BY <1>1, FS_Interval
<1>3. LiveOf(o) \in SUBSET DOMAIN fetch
  BY DEF LiveOf
<1>4. IsFiniteSet(LiveOf(o))
  BY <1>2, <1>3, FS_Subset
<1>5. \A S \in SUBSET LiveOf(o) : IsFiniteSet(S)
  BY <1>4, FS_Subset
<1> QED
  BY <1>4, <1>5, FS_CardinalityType

\* A thread that steps was running, and the others are as they were.
LEMMA MovedLive ==
  ASSUME Sound, NEW n \in DOMAIN fetch, FetchFile(n)
  PROVE  /\ DOMAIN fetch' = DOMAIN fetch /\ Live(n)
         /\ \A m \in DOMAIN fetch :
                /\ fetch'[m].obj = fetch[m].obj /\ fetch'[m].path = fetch[m].path
                /\ m # n => fetch'[m] = fetch[m]
         /\ fetch[n].pc = "dropping" \/ fetch'[n].pc # "done"
<1>1. Worked(n)
  BY FetchFileIs
<1>2. \E pc : Moved(n, pc)
  BY <1>1 DEF Worked
<1>3. fetch[n].pc # "done" /\ (fetch[n].pc = "dropping" \/ fetch'[n].pc # "done")
  BY <1>1 DEF Worked, Moved
<1> QED
  BY <1>2, <1>3 DEF Moved, Live

\* Fewer threads run where none is made.
LEMMA LessLive ==
  ASSUME Sound, NEW n \in DOMAIN fetch, FetchFile(n), NEW o
  PROVE  LiveOf(o)' \subseteq LiveOf(o)
  BY MovedLive DEF LiveOf, Live

\* The same package is loaded.
LEMMA SamePkg ==
  ASSUME Top'.obj = Top.obj, UNCHANGED cat, pkgs'[Top.obj].pkg = pkgs[Top.obj].pkg
  PROVE  Pkg' = Pkg /\ Src(Pkg)' = Src(Pkg) /\ cat[Pkg]' = cat[Pkg]
<1>1. Pkg' = Pkg
  BY DEF Pkg
<1> QED
  BY <1>1 DEF Src

\* There are so many sources.
LEMMA SourceLen ==
  ASSUME Sound, Pathed, Top.pc \in Looking \cup Batch
  PROVE  Len(Src(Pkg)) \in Nat /\ Src(Pkg) # NoList /\ Src(Pkg) \in Seq(Paths) /\ Pkg \in Pkgs
<1>1. Pkg \in Pkgs
  BY Inside, Points, LoadPoints
<1> QED
  BY <1>1, SrcType DEF Pathed

\* Fewer threads of the package, and nothing else of it.
LEMMA PacedLess ==
  ASSUME Sound, Pathed, Top.pc \in Batch, NEW m \in Nat, Paced(Top, m),
         Top'.obj = Top.obj, Top'.i = Top.i, Top'.k = Top.k, Top'.slots = Top.slots,
         \/ Top'.pc = Top.pc
         \/ Top.pc = "store" /\ Top'.pc = "stored"
         \/ Top.pc = "download" /\ Top.k <= Len(Src(Pkg)) /\ Top'.pc = "fetch",
         LiveOf(Top.obj)' \subseteq LiveOf(Top.obj),
         UNCHANGED <<cat, opts>>, pkgs'[Top.obj].pkg = pkgs[Top.obj].pkg
  PROVE  Paced(Top, m)'
<1>1. Src(Pkg)' = Src(Pkg)
  BY SamePkg
<1>2. Loose(Top)' \in SUBSET Loose(Top) /\ Loose(Top) \in SUBSET LiveOf(Top.obj)
  BY DEF Loose
<1>3. Cardinality(Loose(Top)') <= Cardinality(Loose(Top)) /\ Cardinality(Loose(Top)) \in Nat
      /\ Cardinality(Loose(Top)') \in Nat
  BY <1>2, LiveFinite, FS_Subset, FS_CardinalityType
<1>4. Slot(Top)' = Slot(Top)
  BY DEF Slot
<1>5. /\ Top.i <= Len(Top.slots) /\ Top.i <= opts.concurrency /\ Top.i >= -1
      /\ Cardinality(Loose(Top)) <= m
      /\ m * (opts.concurrency + 1) <= Top.k - 1
      /\ Top.k <= Len(Src(Pkg)) + 1
      /\ Top.pc \in {"store", "stored"} => Top.i = -1
      /\ Top.pc = "fetch" \/ (Top.pc = "download" /\ Top.k <= Len(Src(Pkg)))
            => Top.k - 1 = m * (opts.concurrency + 1) + Slot(Top)
      /\ Top.pc = "drain" => Top.k - 1 = m * (opts.concurrency + 1)
  BY DEF Paced, Pkg
<1>6. Cardinality(Loose(Top)') <= m
  BY <1>3, <1>5
<1>7. Src(pkgs[Top.obj].pkg)' = Src(Pkg)
  BY <1>1 DEF Pkg
<1> HIDE DEF Loose, Slot
<1> QED
  BY <1>4, <1>5, <1>6, <1>7 DEF Paced

\* No thread has been left behind when the first source is to be fetched.
LEMMA PacedFirst ==
  ASSUME Sound, Pathed, Top.pc = "looked", Top'.pc = "download", Kept(Top', Top),
         LiveOf(Top.obj) = {}, Top.i = 0, Top.k = 1,
         UNCHANGED <<cat, opts, fetch>>, pkgs'[Top.obj].pkg = pkgs[Top.obj].pkg
  PROVE  Paced(Top, 0)'
<1>1. Src(Pkg)' = Src(Pkg) /\ Len(Src(Pkg)) \in Nat
  BY SamePkg, SourceLen, LoadPoints DEF Kept
<1>2. Loose(Top)' = {}
  BY DEF Loose, LiveOf, Kept, Live
<1>3. Cardinality(Loose(Top)') = 0
  BY <1>2, FS_EmptySet
<1>4. Top'.i = 0 /\ Top'.k = 1 /\ Top'.slots = Top.slots
  BY DEF Kept
<1>5. opts.concurrency \in Nat /\ Len(Top.slots) \in Nat
  <2>1. Top.slots \in Seq(Nat)
    BY TopType, Fields DEF Sound, Types
  <2> QED
    BY <2>1, LenProperties DEF Sound, Types, GivenType
<1>6. Slot(Top)' = 0
  BY <1>4 DEF Slot
<1>7. Src(pkgs[Top.obj].pkg)' = Src(Pkg)
  BY <1>1 DEF Pkg
<1> HIDE DEF Loose, Slot
<1> QED
  BY <1>1, <1>3, <1>4, <1>5, <1>6, <1>7 DEF Paced

\* The loading, beside it.
LEMMA LoadingOutside ==
  ASSUME Sound, Outside
  PROVE  Loading'
<1>1. Top'.pc \notin {"test", "tested", "prepare", "mark", "marked", "make", "makefetch", "makewait",
                "look", "looked", "download", "fetch", "drain", "store", "stored"}
  BY LoadPoints DEF Outside
<1> QED
  BY <1>1, LoadPoints DEF Loading, Owns, Starts, Pathed, Batched

\* The loading goes onward.
LEMMA LoadingOnward ==
  ASSUME Sound, Loading, Onward
  PROVE  Loading'
<1>0. Top.pc \in ObjPcs /\ Top.obj \in DOMAIN pkgs
  BY Points, Inside DEF Onward
<1>1. /\ Top'.obj = Top.obj /\ Top'.i = Top.i /\ Top'.k = Top.k /\ Top'.slots = Top.slots
      /\ Top'.dir = Top.dir
  BY DEF Onward, Kept
<1>2. Pkg' = Pkg /\ Src(Pkg)' = Src(Pkg) /\ cat[Pkg]' = cat[Pkg]
  BY <1>0, <1>1, SamePkg DEF Onward
<1>3. LiveOf(Top.obj)' = LiveOf(Top.obj)
  BY <1>1 DEF LiveOf, Onward, Live
<1>4. Owns'
  BY <1>0, <1>1 DEF Owns, Onward, Loading
<1>5. Starts'
  <2>1. CASE Top.pc \in Fresh /\ Top'.pc \in Fresh \ {"makefetch"}
    BY <1>1, <1>3, <2>1, LoadPoints DEF Starts, Loading, Onward
  <2>2. CASE Top.pc = "marked" /\ Top'.pc = "look"
    <3>1. LiveOf(Top.obj) = {}
      BY <2>2, LoadPoints DEF Starts, Loading, LiveOf
    <3> QED
      BY <1>1, <1>3, <2>2, <3>1, LoadPoints DEF Starts, Loading, Onward
  <2>3. CASE Top.pc = "look" /\ Top'.pc = "looked"
    BY <1>1, <1>3, <2>3, LoadPoints DEF Starts, Loading, Onward
  <2>4. CASE Top.pc = "looked" /\ Top'.pc = "download"
    BY <2>4, LoadPoints DEF Starts
  <2>5. CASE Top.pc = "store" /\ Top'.pc = "stored"
    BY <2>5, LoadPoints DEF Starts
  <2> QED
    BY <2>1, <2>2, <2>3, <2>4, <2>5 DEF Onward
<1>6. Pathed'
  BY <1>1, <1>2, LoadPoints DEF Pathed, Loading, Onward
<1>7. Batched'
  <2>1. CASE Top.pc = "looked" /\ Top'.pc = "download"
    <3>1. LiveOf(Top.obj) = {} /\ Top.i = 0 /\ Top.k = 1
      BY <2>1, LoadPoints DEF Starts, Loading
    <3>2. Paced(Top, 0)'
      BY <1>0, <2>1, <3>1, PacedFirst DEF Onward, Loading
    <3> QED
      BY <3>2 DEF Batched
  <2>2. CASE Top.pc = "store" /\ Top'.pc = "stored"
    <3>1. PICK m \in Nat : Paced(Top, m)
      BY <2>2, LoadPoints DEF Loading, Batched
    <3>2. Paced(Top, m)'
      BY <1>0, <1>1, <1>3, <2>2, <3>1, LoadPoints, PacedLess DEF Onward, Loading
    <3> QED
      BY <3>2 DEF Batched
  <2>3. CASE Top'.pc \in Fresh \cup Looking
    BY <2>3, LoadPoints DEF Batched
  <2> QED
    BY <2>1, <2>2, <2>3, LoadPoints DEF Onward
<1> QED
  BY <1>4, <1>5, <1>6, <1>7 DEF Loading

\* The loading, when a thread goes on.
LEMMA LoadingThread ==
  ASSUME Sound, Loading, NEW n \in DOMAIN fetch, FetchFile(n)
  PROVE  Loading'
<1>1. UNCHANGED <<stack, cat, cmd, opts>> /\ Released(n)
  BY FetchFileIs
<1>2. Top' = Top
  BY <1>1 DEF Top
<1>3. /\ DOMAIN fetch' = DOMAIN fetch
      /\ \A m \in DOMAIN fetch : fetch'[m].obj = fetch[m].obj
  BY MovedLive
<1>4. \A o : LiveOf(o)' \subseteq LiveOf(o)
  BY LessLive
<1>5. LiveOf(Top.obj)' \subseteq LiveOf(Top.obj)
  <2>1. PICK o : o = Top.obj
    OBVIOUS
  <2>2. LiveOf(Top.obj)' = LiveOf(o)'
    BY <1>2, <2>1 DEF LiveOf
  <2> QED
    BY <1>4, <2>1, <2>2
<1>6. Top.pc \in LoadPcs => Top.obj \in DOMAIN pkgs
  BY Inside, Points
<1>7. \A q \in DOMAIN pkgs : /\ pkgs'[q].pkg = pkgs[q].pkg /\ pkgs'[q].dir = pkgs[q].dir
                             /\ pkgs'[q].name = pkgs[q].name /\ pkgs'[q].freed = pkgs[q].freed
  BY <1>1 DEF Released
<1>8. Owns'
  BY <1>2, <1>6, <1>7 DEF Loading, Owns
<1>9. Starts'
  <2>1. Starts
    BY DEF Loading
  <2>2. LiveOf(Top.obj) = {} => LiveOf(Top.obj)' = {}
    BY <1>5
  <2> QED
    BY <1>2, <1>3, <1>5, <2>1, <2>2 DEF Starts
<1>10. Top.pc \in LoadPcs => Pkg' = Pkg /\ Src(Pkg)' = Src(Pkg) /\ cat[Pkg]' = cat[Pkg]
  BY <1>1, <1>2, <1>6, <1>7, SamePkg
<1>11. Pathed'
  BY <1>2, <1>10, LoadPoints DEF Pathed, Loading
<1>12. Batched'
  <2>1. SUFFICES ASSUME Top.pc \in Batch PROVE \E m \in Nat : Paced(Top, m)'
    BY <1>2 DEF Batched
  <2>2. PICK m \in Nat : Paced(Top, m)
    BY <2>1 DEF Loading, Batched
  <2>3. pkgs'[Top.obj].pkg = pkgs[Top.obj].pkg
    BY <1>6, <1>7, <2>1, LoadPoints
  <2>4. Paced(Top, m)'
    BY <1>1, <1>2, <1>5, <2>1, <2>2, <2>3, PacedLess DEF Loading
  <2> QED
    BY <2>4
<1> QED
  BY <1>8, <1>9, <1>11, <1>12 DEF Loading

\* The loading, when there is a package.
LEMMA LoadingGot ==
  ASSUME Sound, GotPackage
  PROVE  Loading'
<1>1. /\ Top'.pc \in {"prepare", "test"} /\ Top'.dir = Top.dir
      /\ Top'.obj = Len(pkgs) + 1 /\ Top'.i = 0 /\ Top'.k = 1 /\ Top'.slots = <<>>
      /\ Len(pkgs) \in Nat /\ DOMAIN pkgs = 1..Len(pkgs)
      /\ pkgs'[Len(pkgs) + 1] = NewObject(Head(Top.todo), Top.dir)
      /\ UNCHANGED fetch
  BY GotPackageIs
<1>2. \A n \in DOMAIN fetch : fetch[n].obj # Len(pkgs) + 1
  <2>1. Len(pkgs) + 1 \notin DOMAIN pkgs
    BY <1>1
  <2>2. \A n \in DOMAIN fetch : fetch[n].obj \in DOMAIN pkgs
    BY DEF Sound, Types, ThreadsType
  <2> QED
    BY <2>1, <2>2
<1>3. Owns'
  BY <1>1, LoadPoints DEF Owns, NewObject
<1>4. Starts'
  BY <1>1, <1>2, LoadPoints DEF Starts
<1>5. Pathed' /\ Batched'
  BY <1>1, LoadPoints DEF Pathed, Batched
<1> QED
  BY <1>3, <1>4, <1>5 DEF Loading

\* The loading begins.
LEMMA LoadingReference ==
  ASSUME Sound, Loading, Reference
  PROVE  Loading'
<1>1. /\ Top.pc \in {"make", "download"}
      /\ Top.pc = "download" => Top.k <= Len(Src(Pkg))
      /\ Top'.pc = (IF Top.pc = "make" THEN "makefetch" ELSE "fetch")
      /\ Top'.obj = Top.obj /\ Top'.dir = Top.dir
      /\ Top'.i = Top.i /\ Top'.k = Top.k /\ Top'.slots = Top.slots
      /\ UNCHANGED <<fetch, pkgs, opts>>
  BY ReferenceIs DEF Same, pkgVars
<1>2. UNCHANGED cat
  BY DEF Reference, Installing, MainUnchanged
<1>3. LiveOf(Top.obj)' = LiveOf(Top.obj)
  BY <1>1 DEF LiveOf, Live
<1>4. Owns'
  BY <1>1, LoadPoints DEF Owns, Loading
<1>5. Starts'
  BY <1>1, <1>3, LoadPoints DEF Starts, Loading
<1>6. Pkg' = Pkg /\ Src(Pkg)' = Src(Pkg) /\ cat[Pkg]' = cat[Pkg]
  BY <1>1, <1>2, SamePkg
<1>7. Pathed'
  BY <1>1, <1>6, LoadPoints DEF Pathed, Loading
<1>8. Batched'
  <2>1. CASE Top.pc = "make"
    BY <1>1, <2>1, LoadPoints DEF Batched
  <2>2. CASE Top.pc = "download"
    <3>1. PICK m \in Nat : Paced(Top, m)
      BY <2>2, LoadPoints DEF Loading, Batched
    <3>2. Paced(Top, m)'
      BY <1>1, <1>2, <1>3, <2>2, <3>1, LoadPoints, PacedLess DEF Loading
    <3> QED
      BY <3>2 DEF Batched
  <2> QED
    BY <1>1, <2>1, <2>2
<1> QED
  BY <1>4, <1>5, <1>7, <1>8 DEF Loading

\* What a thread that is made leaves, and one that could not be.
LEMMA NewFetchIs ==
  ASSUME Sound, Top.pc \in ObjPcs, NEW path \in Paths, NewFetch(path), UNCHANGED lock
  PROVE  /\ DOMAIN fetch' = DOMAIN fetch \cup {Len(fetch) + 1}
         /\ Len(fetch) + 1 \notin DOMAIN fetch /\ Len(fetch) + 1 \in Nat \ {0}
         /\ \A n \in DOMAIN fetch : fetch'[n] = fetch[n]
         /\ fetch'[Len(fetch) + 1].obj = Top.obj /\ fetch'[Len(fetch) + 1].path = path
         /\ fetch'[Len(fetch) + 1].pc = "start"
         /\ \A o : LiveOf(o)' = LiveOf(o) \cup (IF o = Top.obj THEN {Len(fetch) + 1} ELSE {})
         /\ DOMAIN pkgs' = DOMAIN pkgs /\ Top.obj \in DOMAIN pkgs
         /\ pkgs'[Top.obj].refs = Top.seen + 1
         /\ \A q \in DOMAIN pkgs :
                /\ pkgs'[q].pkg = pkgs[q].pkg /\ pkgs'[q].dir = pkgs[q].dir
                /\ pkgs'[q].name = pkgs[q].name /\ pkgs'[q].freed = pkgs[q].freed
                /\ q # Top.obj => pkgs'[q] = pkgs[q]
         /\ UNCHANGED <<faults, unmade>>
<1>1. fetch' = Append(fetch, [obj |-> Top.obj, path |-> path, pc |-> "start", seen |-> 0])
  BY DEF NewFetch
<1>2. /\ Len(fetch) \in Nat
      /\ DOMAIN fetch = 1..Len(fetch) /\ DOMAIN fetch' = 1..(Len(fetch) + 1)
      /\ \A n \in DOMAIN fetch : fetch'[n] = fetch[n]
      /\ fetch'[Len(fetch) + 1] = [obj |-> Top.obj, path |-> path, pc |-> "start", seen |-> 0]
  BY <1>1, NewThread
<1>3. PICK x \in Nat \ {0} : x = Len(fetch) + 1
  BY <1>2
<1>4. DOMAIN fetch' = DOMAIN fetch \cup {x} /\ x \notin DOMAIN fetch
  BY <1>2, <1>3
<1>5. fetch'[x].obj = Top.obj /\ fetch'[x].path = path /\ fetch'[x].pc = "start"
  BY <1>2, <1>3
<1>6. ASSUME NEW o PROVE LiveOf(o)' = LiveOf(o) \cup (IF o = Top.obj THEN {x} ELSE {})
  <2>1. \A n \in DOMAIN fetch : n \in LiveOf(o)' <=> n \in LiveOf(o)
    BY <1>2, <1>4 DEF LiveOf, Live
  <2>2. x \in LiveOf(o)' <=> o = Top.obj
    BY <1>4, <1>5 DEF LiveOf, Live
  <2>3. LiveOf(o)' \subseteq DOMAIN fetch \cup {x} /\ LiveOf(o) \subseteq DOMAIN fetch
    BY <1>4 DEF LiveOf
  <2> QED
    BY <1>4, <2>1, <2>2, <2>3
<1>7. /\ pkgs' \in Seq(ObjectType) /\ DOMAIN pkgs' = DOMAIN pkgs
      /\ pkgs'[Top.obj] = [pkgs[Top.obj] EXCEPT !.refs = Top.seen + 1]
      /\ \A q \in DOMAIN pkgs : q # Top.obj => pkgs'[q] = pkgs[q]
  BY NewThreadSound
<1>8. Top.obj \in DOMAIN pkgs /\ pkgs[Top.obj] \in ObjectType
  BY Inside
<1>9. UNCHANGED <<faults, unmade>>
  BY DEF NewFetch
<1>10. PICK p \in ObjectType : p = pkgs[Top.obj]
  BY <1>8
<1>11. PICK r : r = Top.seen + 1
  OBVIOUS
<1>12. /\ [p EXCEPT !.refs = r].refs = r /\ [p EXCEPT !.refs = r].pkg = p.pkg
       /\ [p EXCEPT !.refs = r].dir = p.dir /\ [p EXCEPT !.refs = r].name = p.name
       /\ [p EXCEPT !.refs = r].freed = p.freed
  BY DEF ObjectType
<1>13. pkgs'[Top.obj] = [p EXCEPT !.refs = r]
  BY <1>7, <1>10, <1>11
<1>14. /\ pkgs'[Top.obj].refs = Top.seen + 1
       /\ \A q \in DOMAIN pkgs :
                /\ pkgs'[q].pkg = pkgs[q].pkg /\ pkgs'[q].dir = pkgs[q].dir
                /\ pkgs'[q].name = pkgs[q].name /\ pkgs'[q].freed = pkgs[q].freed
                /\ q # Top.obj => pkgs'[q] = pkgs[q]
  BY <1>7, <1>10, <1>11, <1>12, <1>13
<1> QED
  BY <1>2, <1>3, <1>4, <1>5, <1>6, <1>7, <1>8, <1>9, <1>14

\* What a fetch that cannot begin does.
LEMMA NoFetchIs ==
  ASSUME Sound, Top.pc \in ObjPcs, NoFetch, UNCHANGED lock
  PROVE  /\ UNCHANGED fetch /\ unmade' = TRUE /\ Fault
         /\ DOMAIN pkgs' = DOMAIN pkgs /\ Top.obj \in DOMAIN pkgs
         /\ pkgs'[Top.obj].refs = Top.seen + 1
         /\ \A q \in DOMAIN pkgs :
                /\ pkgs'[q].pkg = pkgs[q].pkg /\ pkgs'[q].dir = pkgs[q].dir
                /\ pkgs'[q].name = pkgs[q].name /\ pkgs'[q].freed = pkgs[q].freed
                /\ q # Top.obj => pkgs'[q] = pkgs[q]
<1>1. /\ pkgs' \in Seq(ObjectType) /\ DOMAIN pkgs' = DOMAIN pkgs
      /\ pkgs'[Top.obj] = [pkgs[Top.obj] EXCEPT !.refs = Top.seen + 1]
      /\ \A q \in DOMAIN pkgs : q # Top.obj => pkgs'[q] = pkgs[q]
  BY NoThreadSound
<1>2. PICK p \in ObjectType : p = pkgs[Top.obj]
  BY Inside
<1>3. PICK r : r = Top.seen + 1
  OBVIOUS
<1>4. /\ [p EXCEPT !.refs = r].refs = r /\ [p EXCEPT !.refs = r].pkg = p.pkg
      /\ [p EXCEPT !.refs = r].dir = p.dir /\ [p EXCEPT !.refs = r].name = p.name
      /\ [p EXCEPT !.refs = r].freed = p.freed
  BY DEF ObjectType
<1>5. pkgs'[Top.obj] = [p EXCEPT !.refs = r]
  BY <1>1, <1>2, <1>3
<1>6. UNCHANGED fetch /\ unmade' = TRUE /\ Fault /\ Top.obj \in DOMAIN pkgs
  BY Inside DEF NoFetch
<1> QED
  BY <1>1, <1>2, <1>3, <1>4, <1>5, <1>6

\* main gives the package up.
LEMMA LoadingLeft ==
  ASSUME Top'.pc \notin LoadPcs
  PROVE  Loading'
<1>1. Top'.pc \notin {"test", "tested", "prepare", "mark", "marked", "make", "makefetch", "makewait",
                "look", "looked", "download", "fetch", "drain", "store", "stored"}
  BY LoadPoints
<1> QED
  BY <1>1, LoadPoints DEF Loading, Owns, Starts, Pathed, Batched

\* The loading of the makefile.
LEMMA LoadingMakefile ==
  ASSUME Sound, Loading, FetchMakefile
  PROVE  Loading'
<1>1. /\ Top.pc = "makefetch" /\ Top.pc \in ObjPcs
      /\ Top'.obj = Top.obj /\ Top'.dir = Top.dir
      /\ \/ /\ NewFetch(cat[Pkg].makefile) /\ Top'.pc = "makewait"
            /\ Top'.i = Top.i /\ Top'.k = Top.k /\ Top'.slots = <<Len(fetch) + 1>>
         \/ NoFetch /\ Top'.pc = "cleanup"
  BY FetchMakefileIs DEF Same
<1>2. CASE Top'.pc = "cleanup"
  BY <1>2, LoadPoints, LoadingLeft
<1>3. CASE NewFetch(cat[Pkg].makefile) /\ Top'.pc = "makewait"
  <2>1. cat[Pkg].makefile \in Paths
    BY <1>1, PathsAre DEF Loading
  <2>2. UNCHANGED lock
    BY DEF FetchMakefile
  <2>3. PICK path \in Paths : path = cat[Pkg].makefile
    BY <2>1
  <2>4. /\ \A o : LiveOf(o)' = LiveOf(o) \cup (IF o = Top.obj THEN {Len(fetch) + 1} ELSE {})
        /\ Top.obj \in DOMAIN pkgs
        /\ \A q \in DOMAIN pkgs :
               /\ pkgs'[q].dir = pkgs[q].dir
               /\ pkgs'[q].name = pkgs[q].name /\ pkgs'[q].freed = pkgs[q].freed
    BY <1>1, <1>3, <2>2, <2>3, NewFetchIs
  <2>5. LiveOf(Top.obj)' = {Len(fetch) + 1}
    <3>1. LiveOf(Top.obj) = {}
      BY <1>1, LoadPoints DEF Loading, Starts, LiveOf
    <3>2. PICK o : o = Top.obj
      OBVIOUS
    <3>3. LiveOf(Top.obj)' = LiveOf(o)'
      BY <1>1, <3>2 DEF LiveOf
    <3> QED
      BY <2>4, <3>1, <3>2, <3>3
  <2>6. Top'.i = 0 /\ Top'.k = 1 /\ Top'.slots = <<Len(fetch) + 1>>
    BY <1>1, <1>3, LoadPoints DEF Loading, Starts
  <2>7. Top'.slots[1] = Len(fetch) + 1
    BY <2>6
  <2>8. Starts'
    BY <1>3, <2>5, <2>6, <2>7, LoadPoints DEF Starts
  <2>9. Owns'
    BY <1>1, <1>3, <2>4, LoadPoints DEF Owns, Loading
  <2>10. Pathed' /\ Batched'
    BY <1>3, LoadPoints DEF Pathed, Batched
  <2> QED
    BY <2>8, <2>9, <2>10 DEF Loading
<1> QED
  BY <1>1, <1>2, <1>3

\* The makefile's thread is waited for.
LEMMA LoadingJoinMakefile ==
  ASSUME Sound, Loading, JoinMakefile
  PROVE  Loading'
<1>1. /\ Top.pc = "makewait" /\ Top.pc \in ObjPcs /\ ~Live(Top.slots[1])
      /\ Top'.pc = Sources /\ Top'.obj = Top.obj /\ Top'.dir = Top.dir
      /\ Top'.i = Top.i /\ Top'.k = Top.k /\ Top'.slots = <<>>
      /\ UNCHANGED <<opts, fetch, pkgs>>
  BY JoinMakefileIs DEF Same, pkgVars
<1>2. UNCHANGED cat
  BY DEF JoinMakefile, Installing, MainUnchanged
<1>3. CASE Top'.pc = "configure"
  BY <1>3, LoadPoints, LoadingLeft
<1>4. CASE Top'.pc = "look"
  <2>1. LiveOf(Top.obj) = {}
    <3>1. LiveOf(Top.obj) \subseteq {Top.slots[1]}
      BY <1>1, LoadPoints DEF Loading, Starts
    <3>2. \A n \in LiveOf(Top.obj) : Live(n)
      BY DEF LiveOf
    <3> QED
      BY <1>1, <3>1, <3>2
  <2>2. LiveOf(Top.obj)' = {}
    BY <1>1, <2>1 DEF LiveOf, Live
  <2>3. Top'.i = 0 /\ Top'.k = 1
    BY <1>1, LoadPoints DEF Loading, Starts
  <2>4. Starts'
    BY <1>1, <1>4, <2>2, <2>3, LoadPoints DEF Starts
  <2>5. Owns'
    BY <1>1, <1>4, LoadPoints DEF Owns, Loading
  <2>6. Src(Pkg) # NoList
    BY <1>1, <1>4 DEF Sources
  <2>7. Src(Pkg)' = Src(Pkg)
    BY <1>1, <1>2, SamePkg
  <2>8. Pathed' /\ Batched'
    BY <1>4, <2>6, <2>7, LoadPoints DEF Pathed, Batched
  <2> QED
    BY <2>4, <2>5, <2>8 DEF Loading
<1> QED
  BY <1>1, <1>3, <1>4, SourcesIs

\* The thread of a source is in its slot, or left behind when there is none.
LEMMA LooseFilled ==
  ASSUME Sound, NEW n \in Nat \ {0}, Top.i <= Len(Top.slots), Top'.obj = Top.obj,
         LiveOf(Top.obj)' = LiveOf(Top.obj) \cup {n}, Filled(Top, Top', n)
  PROVE  /\ Top'.i = Slot(Top) + 1 => Loose(Top)' \subseteq Loose(Top)
         /\ Top'.i = Slot(Top) => Loose(Top)' \subseteq Loose(Top) \cup {n}
<1>1. Top \in FrameType
  BY TopType DEF Sound, Types
<1>2. Top.i \in Int /\ Top.slots \in Seq(Nat) /\ Len(Top.slots) \in Nat
  BY <1>1, Fields, LenProperties
<1>3. PICK i \in Int, len \in Nat : i = Top.i /\ len = Len(Top.slots)
  BY <1>2
<1>4. PICK s \in Nat : s = Slot(Top) /\ s = (IF i < 0 THEN 0 ELSE i)
  BY <1>3 DEF Slot
<1>5. /\ Len(Top'.slots) = (IF s = len THEN s + 1 ELSE len)
      /\ \A m \in 1..Len(Top'.slots) : Top'.slots[m] = IF m = s + 1 THEN n ELSE Top.slots[m]
  BY <1>3, <1>4 DEF Filled
<1>6. \A j \in 1..i : j \in 1..s /\ j \in 1..Len(Top'.slots) /\ j # s + 1
  BY <1>3, <1>4, <1>5
<1>7. \A j \in 1..i : Top'.slots[j] = Top.slots[j]
  BY <1>5, <1>6
<1>8. s + 1 \in 1..Len(Top'.slots)
  BY <1>3, <1>4, <1>5
<1>9. Top'.slots[s + 1] = n
  BY <1>5, <1>8
<1>10. Loose(Top)' = (LiveOf(Top.obj) \cup {n}) \ {Top'.slots[j] : j \in 1..Top'.i}
  BY DEF Loose
<1>11. Loose(Top) = LiveOf(Top.obj) \ {Top.slots[j] : j \in 1..i}
  BY <1>3 DEF Loose
<1>12. (1..i) \subseteq (1..s) /\ (1..s) \subseteq 1..(s + 1) /\ s + 1 \in 1..(s + 1)
  BY <1>4
<1>13. CASE Top'.i = s + 1
  <2>1. \A x \in Loose(Top)' : x \in Loose(Top)
    BY <1>7, <1>9, <1>10, <1>11, <1>12, <1>13
  <2> QED
    BY <1>4, <1>13, <2>1
<1>14. CASE Top'.i = s
  <2>1. \A x \in Loose(Top)' : x \in Loose(Top) \cup {n}
    BY <1>7, <1>10, <1>11, <1>12, <1>14
  <2> QED
    BY <1>4, <1>14, <2>1
<1> QED
  BY <1>4, <1>13, <1>14

\* What Paced says of the package that is loaded.
LEMMA PacedTop ==
  ASSUME NEW m \in Nat, Paced(Top, m)
  PROVE  /\ Top.i <= Len(Top.slots) /\ Top.i <= opts.concurrency /\ Top.i >= -1
         /\ Cardinality(Loose(Top)) <= m
         /\ m * (opts.concurrency + 1) <= Top.k - 1
         /\ Top.k <= Len(Src(Pkg)) + 1
         /\ Top.pc \in {"store", "stored"} => Top.i = -1
         /\ Top.pc = "fetch" \/ (Top.pc = "download" /\ Top.k <= Len(Src(Pkg)))
               => Top.k - 1 = m * (opts.concurrency + 1) + Slot(Top)
         /\ Top.pc = "drain" => Top.k - 1 = m * (opts.concurrency + 1)
  BY DEF Paced, Pkg

\* The pace behind a thread that was joined.
LEMMA PacedTop2 ==
  ASSUME NEW m \in Nat,
         Src(Pkg)' = Src(Pkg), UNCHANGED opts,
         Top'.i <= Len(Top'.slots) /\ Top'.i <= opts.concurrency /\ Top'.i >= -1,
         Cardinality(Loose(Top)') <= m,
         m * (opts.concurrency + 1) <= Top'.k - 1,
         Top'.k <= Len(Src(Pkg)) + 1,
         Top'.pc \in {"store", "stored"} => Top'.i = -1,
         Top'.pc = "fetch" \/ (Top'.pc = "download" /\ Top'.k <= Len(Src(Pkg)))
               => Top'.k - 1 = m * (opts.concurrency + 1) + Slot(Top)',
         Top'.pc = "drain" => Top'.k - 1 = m * (opts.concurrency + 1)
  PROVE  Paced(Top, m)'
<1>1. Src(pkgs[Top.obj].pkg)' = Src(Pkg)
  BY DEF Pkg
<1> HIDE DEF Loose, Slot
<1> QED
  BY <1>1 DEF Paced

\* The loading of a source.
LEMMA LoadingDownload ==
  ASSUME Sound, Loading, Download
  PROVE  Loading'
<1>1. /\ Top.pc = "fetch" /\ Top.pc \in ObjPcs
      /\ Top'.obj = Top.obj /\ Top'.dir = Top.dir
      /\ \/ /\ NewFetch(Src(Pkg)[Top.k]) /\ Top'.k = Top.k + 1
            /\ Top'.i = (IF Slot(Top) < opts.concurrency THEN Slot(Top) + 1 ELSE Slot(Top))
            /\ Top'.pc = (IF Slot(Top) < opts.concurrency THEN "download" ELSE "drain")
            /\ Filled(Top, Top', Len(fetch) + 1)
         \/ NoFetch /\ Top'.pc = "cleanup"
  BY DownloadIs DEF Same
<1>2. CASE Top'.pc = "cleanup"
  BY <1>2, LoadPoints, LoadingLeft
<1>3. CASE /\ NewFetch(Src(Pkg)[Top.k]) /\ Top'.k = Top.k + 1
           /\ Top'.i = (IF Slot(Top) < opts.concurrency THEN Slot(Top) + 1 ELSE Slot(Top))
           /\ Top'.pc = (IF Slot(Top) < opts.concurrency THEN "download" ELSE "drain")
           /\ Filled(Top, Top', Len(fetch) + 1)
  <2>1. PICK path \in Paths : path = Src(Pkg)[Top.k]
    BY <1>1, PathsAre DEF Loading
  <2>2. UNCHANGED <<lock, cat, opts>>
    BY DEF Download, Installing, MainUnchanged
  <2>3. PICK n \in Nat \ {0} : n = Len(fetch) + 1
    BY <1>1, <1>3, <2>1, <2>2, NewFetchIs
  <2>4. /\ \A o : LiveOf(o)' = LiveOf(o) \cup (IF o = Top.obj THEN {n} ELSE {})
        /\ Top.obj \in DOMAIN pkgs
        /\ \A q \in DOMAIN pkgs :
               /\ pkgs'[q].dir = pkgs[q].dir /\ pkgs'[q].pkg = pkgs[q].pkg
               /\ pkgs'[q].name = pkgs[q].name /\ pkgs'[q].freed = pkgs[q].freed
    BY <1>1, <1>3, <2>1, <2>2, <2>3, NewFetchIs
  <2>5. LiveOf(Top.obj)' = LiveOf(Top.obj) \cup {n}
    <3>1. PICK o : o = Top.obj
      OBVIOUS
    <3>2. LiveOf(Top.obj)' = LiveOf(o)'
      BY <1>1, <3>1 DEF LiveOf
    <3> QED
      BY <2>4, <3>1, <3>2
  <2>6. Filled(Top, Top', n)
    BY <1>3, <2>3
  <2>7. Src(Pkg)' = Src(Pkg) /\ Len(Src(Pkg)) \in Nat /\ Top.k <= Len(Src(Pkg)) /\ Src(Pkg) # NoList
    BY <1>1, <2>2, <2>4, SamePkg, SourceLen, LoadPoints DEF Loading, Pathed
  <2>8. PICK m \in Nat : Paced(Top, m)
    BY <1>1, LoadPoints DEF Loading, Batched
  <2>9. Top.i \in Int /\ Top.k \in Nat \ {0} /\ Len(Top.slots) \in Nat /\ opts.concurrency \in Nat
    <3>1. Top.slots \in Seq(Nat) /\ Top.i \in Int /\ Top.k \in Nat \ {0}
      BY TopType, Fields DEF Sound, Types
    <3> QED
      BY <3>1, LenProperties DEF Sound, Types, GivenType
  <2>10. PICK c \in Nat, L \in Nat, k \in Nat, i \in Int, len \in Nat :
           c = opts.concurrency /\ L = Len(Src(Pkg)) /\ k = Top.k /\ i = Top.i /\ len = Len(Top.slots)
    BY <2>7, <2>9
  <2>11. PICK s \in Nat : s = Slot(Top) /\ s = (IF i < 0 THEN 0 ELSE i)
    BY <2>10 DEF Slot
  <2>12. PICK w \in Nat : w = m * (c + 1)
    OBVIOUS
  <2>13. /\ i <= len /\ i <= c /\ i >= -1 /\ k <= L /\ k - 1 = w + s
         /\ Cardinality(Loose(Top)) <= m
    BY <1>1, <2>7, <2>8, <2>10, <2>11, <2>12, PacedTop
  <2>14. /\ Len(Top'.slots) = (IF s = len THEN s + 1 ELSE len)
         /\ Top'.k = k + 1
    BY <1>3, <2>6, <2>10, <2>11 DEF Filled
  <2>15. /\ Top'.i = s + 1 => Loose(Top)' \subseteq Loose(Top)
         /\ Top'.i = s => Loose(Top)' \subseteq Loose(Top) \cup {n}
    <3>1. Top.i <= Len(Top.slots)
      BY <2>10, <2>13
    <3> QED
      BY <1>1, <2>5, <2>6, <2>11, <3>1, LooseFilled
  <2>16. IsFiniteSet(Loose(Top)) /\ Cardinality(Loose(Top)) \in Nat
    <3>1. Loose(Top) \in SUBSET LiveOf(Top.obj)
      BY DEF Loose
    <3> QED
      BY <3>1, LiveFinite
  <2>17. Batched'
    <3>1. CASE s < c
      <4>1. Top'.i = s + 1 /\ Top'.pc = "download"
        BY <1>3, <2>10, <2>11, <3>1
      <4>2. Cardinality(Loose(Top)') <= m
        <5>1. Loose(Top)' \in SUBSET Loose(Top)
          BY <2>15, <4>1
        <5>2. Cardinality(Loose(Top)') <= Cardinality(Loose(Top)) /\ Cardinality(Loose(Top)') \in Nat
          BY <2>16, <5>1, FS_Subset, FS_CardinalityType
        <5> QED
          BY <2>13, <2>16, <5>2
      <4>3. Slot(Top)' = s + 1
        BY <4>1 DEF Slot
      <4>4. /\ s + 1 <= Len(Top'.slots) /\ s + 1 <= c /\ s + 1 >= -1
            /\ w <= Top'.k - 1 /\ Top'.k <= L + 1 /\ Top'.k - 1 = w + (s + 1)
        BY <2>11, <2>13, <2>14, <3>1
      <4>5. Paced(Top, m)'
        BY <2>2, <2>7, <2>10, <2>12, <4>1, <4>2, <4>3, <4>4, PacedTop2
      <4> QED
        BY <4>5 DEF Batched
    <3>2. CASE ~(s < c)
      <4>1. Top'.i = s /\ Top'.pc = "drain" /\ s = c
        BY <1>3, <2>10, <2>11, <2>13, <3>2
      <4>2. Cardinality(Loose(Top)') <= m + 1
        <5>1. Loose(Top)' \in SUBSET (Loose(Top) \cup {n})
          BY <2>15, <4>1
        <5>2. IsFiniteSet(Loose(Top) \cup {n}) /\ Cardinality(Loose(Top) \cup {n}) <= Cardinality(Loose(Top)) + 1
              /\ Cardinality(Loose(Top) \cup {n}) \in Nat
          <6>1. PICK S : S = Loose(Top)
            OBVIOUS
          <6>2. IsFiniteSet(S) /\ Cardinality(S) \in Nat
            BY <2>16, <6>1
          <6>3. /\ IsFiniteSet(S \cup {n})
                /\ Cardinality(S \cup {n}) = IF n \in S THEN Cardinality(S) ELSE Cardinality(S) + 1
            BY <6>2, FS_AddElement
          <6> QED
            BY <6>1, <6>2, <6>3
        <5>3. Cardinality(Loose(Top)') <= Cardinality(Loose(Top) \cup {n}) /\ Cardinality(Loose(Top)') \in Nat
          BY <5>1, <5>2, FS_Subset, FS_CardinalityType
        <5> QED
          BY <2>13, <2>16, <5>2, <5>3
      <4>3. (m + 1) * (c + 1) = w + c + 1
        BY <2>12
      <4>4. /\ s <= Len(Top'.slots) /\ s <= c /\ s >= -1
            /\ w + c + 1 <= Top'.k - 1 /\ Top'.k <= L + 1 /\ Top'.k - 1 = w + c + 1
        BY <2>11, <2>13, <2>14, <4>1
      <4>5. PICK p \in Nat : p = m + 1
        OBVIOUS
      <4>6. Paced(Top, p)'
        BY <2>2, <2>7, <2>10, <4>1, <4>2, <4>3, <4>4, <4>5, PacedTop2
      <4> QED
        BY <4>6 DEF Batched
    <3> QED
      BY <3>1, <3>2
  <2>18. Top'.pc \in {"download", "drain"}
    BY <1>3
  <2>19. Owns'
    BY <1>1, <2>4, <2>18, LoadPoints DEF Owns, Loading
  <2>20. Starts'
    BY <2>18, LoadPoints DEF Starts
  <2>21. Pathed'
    BY <2>7, <2>18, LoadPoints DEF Pathed
  <2> QED
    BY <2>17, <2>19, <2>20, <2>21 DEF Loading
<1> QED
  BY <1>1, <1>2, <1>3

\* The threads of a group are waited for.
LEMMA LoadingJoin ==
  ASSUME Sound, Loading, Join
  PROVE  Loading'
<1>1. /\ Top.pc \in {"drain", "download"} /\ Top.pc \in ObjPcs
      /\ Top.pc = "download" => Top.k > Len(Src(Pkg))
      /\ Top'.obj = Top.obj /\ Top'.dir = Top.dir /\ Top'.k = Top.k
      /\ \/ /\ Top.i > 0 /\ ~Live(Top.slots[Top.i]) /\ Top'.i = Top.i - 1
            /\ Top'.slots = [Top.slots EXCEPT ![Top.i] = None] /\ Top'.pc = Top.pc
         \/ /\ ~(Top.i > 0) /\ Top'.i = -1 /\ Top'.slots = Top.slots
            /\ Top'.pc = IF Top.pc = "drain" THEN "download" ELSE "store"
      /\ UNCHANGED <<opts, fetch, pkgs>>
  BY JoinIs DEF Same, pkgVars
<1>2. UNCHANGED cat
  BY DEF Join, Installing, MainUnchanged
<1>3. Top'.pc \in {"drain", "download", "store"}
  BY <1>1
<1>4. LiveOf(Top.obj)' = LiveOf(Top.obj)
  BY <1>1 DEF LiveOf, Live
<1>5. Src(Pkg)' = Src(Pkg) /\ Len(Src(Pkg)) \in Nat /\ Src(Pkg) # NoList
  BY <1>1, <1>2, SamePkg, SourceLen, LoadPoints DEF Loading
<1>6. Owns'
  BY <1>1, <1>3, LoadPoints DEF Owns, Loading
<1>7. Starts'
  BY <1>3, LoadPoints DEF Starts
<1>8. Pathed'
  <2>1. Top'.pc = "store" => Top'.k > Len(Src(Pkg))
    BY <1>1
  <2> QED
    BY <1>3, <1>5, <2>1, LoadPoints DEF Pathed
<1>9. Batched'
  <2>1. PICK m \in Nat : Paced(Top, m)
    BY <1>1, LoadPoints DEF Loading, Batched
  <2>2. Top.slots \in Seq(Nat) /\ Top.i \in Int /\ Top.k \in Nat \ {0}
    BY TopType, Fields DEF Sound, Types
  <2>3. Len(Top.slots) \in Nat /\ opts.concurrency \in Nat /\ DOMAIN Top.slots = 1..Len(Top.slots)
    BY <2>2, LenProperties DEF Sound, Types, GivenType
  <2>4. PICK c \in Nat, L \in Nat, k \in Nat, i \in Int, len \in Nat, slots \in Seq(Nat) :
           c = opts.concurrency /\ L = Len(Src(Pkg)) /\ k = Top.k /\ i = Top.i /\ len = Len(Top.slots)
           /\ slots = Top.slots
    BY <1>5, <2>2, <2>3
  <2>5. PICK w \in Nat : w = m * (c + 1)
    OBVIOUS
  <2>6. /\ i <= len /\ i <= c /\ i >= -1 /\ k <= L + 1
        /\ Cardinality(Loose(Top)) <= m /\ w <= k - 1
        /\ Top.pc = "drain" => k - 1 = w
    BY <1>5, <2>1, <2>4, <2>5, PacedTop
  <2>7. Top'.k = k /\ (Top.pc = "download" => k > L)
    BY <1>1, <2>4
  <2>8. CASE /\ Top.i > 0 /\ ~Live(Top.slots[Top.i]) /\ Top'.i = Top.i - 1
             /\ Top'.slots = [Top.slots EXCEPT ![Top.i] = None] /\ Top'.pc = Top.pc
    <3>1. i \in DOMAIN slots /\ Top'.slots = [slots EXCEPT ![i] = None] /\ None \in Nat
      BY <2>3, <2>4, <2>6, <2>8 DEF None
    <3>2. /\ Len(Top'.slots) = len
          /\ \A j \in DOMAIN slots : j # i => Top'.slots[j] = slots[j]
      BY <2>4, <3>1, ReplaceType
    <3>3. Loose(Top)' \subseteq Loose(Top)
      <4>1. Loose(Top)' = LiveOf(Top.obj) \ {Top'.slots[j] : j \in 1..(i - 1)}
        BY <1>4, <2>4, <2>8 DEF Loose
      <4>2. Loose(Top) = LiveOf(Top.obj) \ {slots[j] : j \in 1..i}
        BY <2>4 DEF Loose
      <4>3. slots[i] \notin LiveOf(Top.obj)
        BY <2>4, <2>8 DEF LiveOf
      <4>4. \A j \in 1..i : j = i \/ (j \in 1..(i - 1) /\ j \in DOMAIN slots /\ j # i)
        <5>1. DOMAIN slots = 1..len /\ i <= len
          BY <2>3, <2>4, <2>6
        <5> QED
          BY <5>1
      <4> QED
        BY <3>2, <4>1, <4>2, <4>3, <4>4
    <3>4. Loose(Top) \in SUBSET LiveOf(Top.obj) /\ Loose(Top)' \in SUBSET Loose(Top)
      BY <3>3 DEF Loose
    <3>5. IsFiniteSet(Loose(Top)) /\ Cardinality(Loose(Top)) \in Nat
      BY <3>4, LiveFinite
    <3>6. Cardinality(Loose(Top)') <= Cardinality(Loose(Top)) /\ Cardinality(Loose(Top)') \in Nat
      BY <3>4, <3>5, FS_Subset, FS_CardinalityType
    <3>7. Cardinality(Loose(Top)') <= m
      BY <2>6, <3>5, <3>6
    <3>8. Top'.i = i - 1 /\ i > 0 /\ Top'.pc \in {"drain", "download"}
      BY <1>1, <2>4, <2>8
    <3>9. i - 1 <= Len(Top'.slots) /\ i - 1 <= c /\ i - 1 >= -1
      BY <2>6, <3>2, <3>8
    <3>10. Top'.pc = Top.pc
      BY <2>8
    <3>11. /\ Top'.pc = "download" => ~(k <= L)
           /\ Top'.pc = "drain" => k - 1 = w
      BY <2>6, <2>7, <3>10
    <3>12. Paced(Top, m)'
      BY <1>1, <1>5, <2>4, <2>5, <2>6, <2>7, <3>7, <3>8, <3>9, <3>11, PacedTop2
    <3> QED
      BY <3>12 DEF Batched
  <2>9. CASE /\ ~(Top.i > 0) /\ Top'.i = -1 /\ Top'.slots = Top.slots
             /\ Top'.pc = IF Top.pc = "drain" THEN "download" ELSE "store"
    <3>1. Loose(Top)' = Loose(Top)
      <4>1. (1..Top.i) = {} /\ (1..(-1)) = {}
        BY <2>2, <2>9
      <4> QED
        BY <1>1, <1>4, <2>9, <4>1 DEF Loose
    <3>2. Cardinality(Loose(Top)') <= m
      BY <2>6, <3>1
    <3>3. Slot(Top)' = 0
      BY <2>9 DEF Slot
    <3>4. -1 <= Len(Top'.slots) /\ -1 <= c /\ -1 >= -1
      BY <2>4, <2>9
    <3>5. /\ Top'.pc \in {"download", "store"}
          /\ Top'.pc = "download" => k - 1 = w + 0
      BY <1>1, <2>6, <2>9
    <3>6. Paced(Top, m)'
      BY <1>1, <1>5, <2>4, <2>5, <2>6, <2>7, <2>9, <3>2, <3>3, <3>4, <3>5, PacedTop2
    <3> QED
      BY <3>6 DEF Batched
  <2> QED
    BY <1>1, <2>8, <2>9
<1> QED
  BY <1>6, <1>7, <1>8, <1>9 DEF Loading

\* Every step keeps what is loaded.
LEMMA LoadingStep ==
  ASSUME Sound, Loading, Next
  PROVE  Loading'
<1>1. CASE Outside \/ Onward
  BY <1>1, LoadingOutside, LoadingOnward
<1> QED
  BY <1>1, MainSteps, BesideOutside, LibraryOutside, SectionsOnward, LoadingGot, LoadingReference,
     LoadingMakefile, LoadingJoinMakefile, LoadingDownload, LoadingJoin, LoadingThread DEF Next

-----------------------------------------------------------------------------
(* Which threads may run on.                                               *)

\* Until sources go without a slot, or a thread without its making, main waits
\* for every thread there is.
Joined ==
    ~Many /\ ~unmade =>
        \A n \in DOMAIN fetch : Live(n) => fetch[n].obj = Top.obj /\ Top.pc \in Waits

\* As many threads run.
LEMMA SameMany ==
  ASSUME UNCHANGED <<cat, opts>>
  PROVE  Many' = Many
  BY DEF Many, Src

\* No step but main's waits ends a thread.
LEMMA JoinedIdle ==
  ASSUME Sound, Joined, UNCHANGED <<cat, opts, fetch, unmade>>,
         Top.pc \notin Waits \/ (Top'.pc \in Waits /\ Top'.obj = Top.obj)
  PROVE  Joined'
  BY SameMany DEF Joined, Live

\* A new thread is joined later.
LEMMA JoinedMade ==
  ASSUME Sound, Joined, Loading, FetchMakefile \/ Download
  PROVE  Joined'
<1>1. UNCHANGED <<cat, opts, lock>>
  BY DEF FetchMakefile, Download, Installing, MainUnchanged
<1>2. /\ Top.pc \in {"makefetch", "fetch"} /\ Top.pc \in ObjPcs /\ Top'.obj = Top.obj
      /\ \/ NoFetch
         \/ Top'.pc \in Waits /\ \E path \in Paths : NewFetch(path)
  <2>1. CASE FetchMakefile
    <3>1. /\ Top.pc = "makefetch" /\ Top.pc \in ObjPcs /\ Top'.obj = Top.obj
          /\ NoFetch \/ (Top'.pc = "makewait" /\ NewFetch(cat[Pkg].makefile))
      BY <2>1, FetchMakefileIs DEF Same
    <3>2. cat[Pkg].makefile \in Paths
      BY <3>1, PathsAre DEF Loading
    <3> QED
      BY <3>1, <3>2 DEF Waits
  <2>2. CASE Download
    <3>1. /\ Top.pc = "fetch" /\ Top.pc \in ObjPcs /\ Top'.obj = Top.obj
          /\ NoFetch \/ (Top'.pc \in {"download", "drain"} /\ NewFetch(Src(Pkg)[Top.k]))
      BY <2>2, DownloadIs DEF Same
    <3>2. Src(Pkg)[Top.k] \in Paths
      BY <3>1, PathsAre DEF Loading
    <3> QED
      BY <3>1, <3>2 DEF Waits
  <2> QED
    BY <2>1, <2>2
<1>3. CASE NoFetch
  BY <1>3 DEF NoFetch, Joined
<1>4. CASE Top'.pc \in Waits /\ \E path \in Paths : NewFetch(path)
  <2>1. PICK path \in Paths : NewFetch(path)
    BY <1>4
  <2>2. /\ DOMAIN fetch' = DOMAIN fetch \cup {Len(fetch) + 1}
        /\ \A n \in DOMAIN fetch : fetch'[n] = fetch[n]
        /\ fetch'[Len(fetch) + 1].obj = Top.obj /\ UNCHANGED unmade
    BY <1>1, <1>2, <2>1, NewFetchIs
  <2> QED
    BY <1>1, <1>2, <1>4, <2>2, SameMany DEF Joined, Live
<1> QED
  BY <1>2, <1>3, <1>4

\* With a slot for every source no thread is left behind.
LEMMA NoneLoose ==
  ASSUME Sound, Loading, Top.pc \in Batch, ~Many, Top.i <= 0, Top.pc # "fetch",
         Top.pc \in {"store", "stored"} \/ Top.k > Len(Src(Pkg))
  PROVE  LiveOf(Top.obj) = {}
<1>1. PICK m \in Nat : Paced(Top, m)
  BY DEF Loading, Batched
<1>2. /\ Top.i \in Int /\ Cardinality(Loose(Top)) <= m
      /\ m * (opts.concurrency + 1) <= Top.k - 1
      /\ Top.k <= Len(Src(Pkg)) + 1
      /\ Top.k \in Nat \ {0}
  BY <1>1, PacedTop, TopType, Fields DEF Sound, Types
<1>3. Len(Src(Pkg)) \in Nat /\ Src(Pkg) # NoList /\ Pkg \in Pkgs /\ opts.concurrency \in Nat
  BY SourceLen DEF Loading, Sound, Types, GivenType
<1>4. Len(Src(Pkg)) <= opts.concurrency
  BY <1>3 DEF Many
<1>5. PICK c \in Nat, L \in Nat, k \in Nat : c = opts.concurrency /\ L = Len(Src(Pkg)) /\ k = Top.k
  BY <1>2, <1>3
<1>6. m * (c + 1) <= k - 1 /\ k <= L + 1 /\ L <= c
  BY <1>2, <1>4, <1>5
<1>7. m = 0
  <2>1. SUFFICES ASSUME m # 0 PROVE FALSE
    OBVIOUS
  <2>2. PICK p \in Nat : m = p + 1
    <3>1. m - 1 \in Nat /\ m = (m - 1) + 1
      BY <2>1
    <3> QED
      BY <3>1
  <2>3. PICK w \in Nat : w = p * (c + 1)
    OBVIOUS
  <2>4. m * (c + 1) = w + c + 1
    BY <2>2, <2>3
  <2> QED
    BY <1>6, <2>4
<1>8. Loose(Top) = LiveOf(Top.obj)
  <2>1. (1..Top.i) = {}
    BY <1>2
  <2> QED
    BY <2>1 DEF Loose
<1>9. IsFiniteSet(LiveOf(Top.obj)) /\ Cardinality(LiveOf(Top.obj)) \in Nat
  BY LiveFinite
<1>10. Cardinality(LiveOf(Top.obj)) = 0
  BY <1>2, <1>7, <1>8, <1>9
<1> QED
  BY <1>9, <1>10, FS_EmptySet

\* Main waits for it.
LEMMA JoinedWaits ==
  ASSUME Sound, Joined, Loading, JoinMakefile \/ Join
  PROVE  Joined'
<1>1. UNCHANGED <<cat, opts, fetch, unmade>>
  BY DEF JoinMakefile, Join, Installing, MainUnchanged, pkgVars
<1>2. CASE JoinMakefile
  <2>1. Top.pc = "makewait" /\ ~Live(Top.slots[1])
    BY <1>2, JoinMakefileIs
  <2>2. \A n \in DOMAIN fetch : Live(n) => fetch[n].obj # Top.obj
    BY <2>1, LoadPoints DEF Loading, Starts, LiveOf
  <2> QED
    BY <1>1, <2>2, SameMany DEF Joined, Live
<1>3. CASE Join
  <2>1. /\ Top.pc \in {"drain", "download"} /\ Top'.obj = Top.obj
        /\ Top.pc = "download" => Top.k > Len(Src(Pkg))
        /\ \/ Top.i > 0 /\ Top'.pc = Top.pc
           \/ ~(Top.i > 0) /\ Top'.pc = (IF Top.pc = "drain" THEN "download" ELSE "store")
    BY <1>3, JoinIs DEF Same
  <2>2. CASE Top'.pc \in {"drain", "download"}
    BY <1>1, <2>1, <2>2, JoinedIdle DEF Waits
  <2>3. CASE Top'.pc = "store"
    <3>1. Top.pc = "download" /\ ~(Top.i > 0) /\ Top.k > Len(Src(Pkg))
      BY <2>1, <2>3
    <3>2. Top.i <= 0
      <4>1. Top.i \in Int
        BY TopType, Fields DEF Sound, Types
      <4> QED
        BY <3>1, <4>1
    <3>3. ~Many => LiveOf(Top.obj) = {}
      BY <3>1, <3>2, LoadPoints, NoneLoose
    <3>4. ~Many /\ ~unmade => \A n \in DOMAIN fetch : ~Live(n)
      BY <3>3 DEF Joined, LiveOf
    <3> QED
      BY <1>1, <3>4, SameMany DEF Joined, Live
  <2> QED
    BY <2>1, <2>2, <2>3
<1> QED
  BY <1>2, <1>3

\* A thread goes on, joined or not.
LEMMA JoinedThread ==
  ASSUME Sound, Joined, NEW n \in DOMAIN fetch, FetchFile(n)
  PROVE  Joined'
<1>1. UNCHANGED <<stack, cat, opts, unmade>>
  BY FetchFileIs
<1>2. Top' = Top
  BY <1>1 DEF Top
<1>3. \A m \in DOMAIN fetch' : m \in DOMAIN fetch /\ fetch'[m].obj = fetch[m].obj /\ (fetch'[m].pc # "done" => Live(m))
  BY MovedLive DEF Live
<1> QED
  BY <1>1, <1>2, <1>3, SameMany DEF Joined, Live

\* Every step keeps what is said of the joins.
LEMMA JoinedStep ==
  ASSUME Sound, Loading, Joined, Next
  PROVE  Joined'
<1>1. CASE Outside
  BY <1>1, JoinedIdle DEF Outside
<1>2. CASE Onward
  <2>1. Top.pc \notin Waits
    BY <1>2, LoadPoints DEF Onward, Waits
  <2> QED
    BY <1>2, <2>1, JoinedIdle DEF Onward
<1>3. CASE GotPackage
  <2>1. Top.pc = "slug" /\ UNCHANGED <<fetch, unmade>> /\ Return(Main)
    BY <1>3, GotPackageIs
  <2>2. UNCHANGED <<cat, opts>>
    BY <1>3, <2>1, ReturnCall DEF GotPackage, MainUnchanged
  <2> QED
    BY <2>1, <2>2, JoinedIdle DEF Waits
<1>4. CASE Reference
  <2>1. /\ Top.pc \in {"make", "download"} /\ Top'.obj = Top.obj /\ UNCHANGED <<opts, fetch, unmade>>
        /\ Top'.pc = (IF Top.pc = "make" THEN "makefetch" ELSE "fetch")
    BY <1>4, ReferenceIs DEF Same, pkgVars
  <2>2. UNCHANGED cat
    BY <1>4 DEF Reference, Installing, MainUnchanged
  <2> QED
    BY <2>1, <2>2, JoinedIdle DEF Waits
<1> QED
  BY <1>1, <1>2, <1>3, <1>4, MainSteps, BesideOutside, LibraryOutside, SectionsOnward,
     JoinedMade, JoinedWaits, JoinedThread DEF Next

\* What main waits for has its directory's name.
LEMMA NameStep ==
  ASSUME Sound, Loading, Joined, NameInUse, Next
  PROVE  NameInUse'
<1>1. CASE UNCHANGED <<cat, opts, stale, unmade>>
  BY <1>1, SameMany DEF NameInUse
<1>2. CASE FetchMakefile \/ Download
  <2>1. UNCHANGED <<cat, opts, stale>> /\ (unmade => unmade')
    BY <1>2 DEF FetchMakefile, Download, Installing, MainUnchanged, NewFetch, NoFetch
  <2> QED
    BY <2>1, SameMany DEF NameInUse
<1>3. CASE \E n \in DOMAIN fetch : FetchFile(n)
  <2>1. PICK n \in DOMAIN fetch : FetchFile(n)
    BY <1>3
  <2>2. Worked(n) /\ UNCHANGED <<cat, opts, unmade>>
    BY <2>1, FetchFileIs
  <2>3. stale' => stale \/ pkgs[fetch[n].obj].name = "freed"
    BY <2>2 DEF Worked
  <2>4. pkgs[fetch[n].obj].name = "freed" => Many \/ unmade
    <3>1. SUFFICES ASSUME ~Many, ~unmade PROVE pkgs[fetch[n].obj].name # "freed"
      OBVIOUS
    <3>2. Live(n)
      BY <2>1, MovedLive
    <3>3. fetch[n].obj = Top.obj /\ Top.pc \in Waits
      BY <3>1, <3>2 DEF Joined
    <3>4. Waits \subseteq LoadPcs
      BY LoadPoints DEF Waits
    <3> QED
      BY <3>3, <3>4 DEF Loading, Owns
  <2> QED
    BY <2>2, <2>3, <2>4, SameMany DEF NameInUse
<1>4. CASE GotPackage
  <2>1. Return(Main) /\ UNCHANGED <<cat, stale, unmade>>
    BY <1>4 DEF GotPackage, MainUnchanged
  <2> QED
    BY <1>1, <2>1, ReturnCall
<1>5. CASE Reference \/ JoinMakefile \/ Join
  BY <1>1, <1>5 DEF Reference, JoinMakefile, Join, Installing, MainUnchanged, pkgVars
<1> QED
  BY <1>1, <1>2, <1>3, <1>4, <1>5, MainSteps, BesideOutside, LibraryOutside, SectionsOnward DEF Next, Outside, Onward

-----------------------------------------------------------------------------
(* References.                                                             *)

\* Every running thread is counted, and main has counted the ones before.
Counted ==
    ~raced =>
        /\ \A o \in DOMAIN pkgs : Cardinality(LiveOf(o)) <= pkgs[o].refs
        /\ Top.pc \in {"makefetch", "fetch"} => Cardinality(LiveOf(Top.obj)) <= Top.seen

\* The threads and the counts are as they were.
LEMMA CountedStill ==
  ASSUME Counted, UNCHANGED <<fetch, raced>>, DOMAIN pkgs' = DOMAIN pkgs,
         \A q \in DOMAIN pkgs : pkgs'[q].refs = pkgs[q].refs,
         Top'.pc \notin {"makefetch", "fetch"}
  PROVE  Counted'
<1>1. \A o : LiveOf(o)' = LiveOf(o)
  BY DEF LiveOf, Live
<1> QED
  BY <1>1 DEF Counted

\* What is in use stays so.
LEMMA InUseStill ==
  ASSUME Sound, Counted, PackageInUse, UNCHANGED <<fetch, raced>>, DOMAIN pkgs' = DOMAIN pkgs,
         \A q \in DOMAIN pkgs : pkgs'[q].freed => pkgs[q].freed \/ pkgs[q].refs = 0
  PROVE  PackageInUse'
<1>1. \A o : LiveOf(o)' = LiveOf(o)
  BY DEF LiveOf, Live
<1>2. SUFFICES ASSUME NEW o \in DOMAIN pkgs, pkgs'[o].freed, LiveOf(o) # {}, ~raced PROVE FALSE
  BY <1>1 DEF PackageInUse
<1>3. pkgs[o].refs = 0
  BY <1>2 DEF PackageInUse
<1>4. Cardinality(LiveOf(o)) <= 0 /\ Cardinality(LiveOf(o)) \in Nat /\ IsFiniteSet(LiveOf(o))
  BY <1>2, <1>3, LiveFinite DEF Counted
<1>5. Cardinality(LiveOf(o)) = 0
  BY <1>4
<1> QED
  BY <1>2, <1>4, <1>5, FS_EmptySet

\* A new thread is counted.
LEMMA CountedMade ==
  ASSUME Sound, Loading, Counted, PackageInUse, FetchMakefile \/ Download
  PROVE  Counted' /\ PackageInUse'
<1>1. UNCHANGED <<raced, lock>>
  BY DEF FetchMakefile, Download, Installing, MainUnchanged
<1>2. /\ Top.pc \in {"makefetch", "fetch"} /\ Top.pc \in ObjPcs
      /\ Top'.pc \notin {"makefetch", "fetch"}
      /\ NoFetch \/ \E path \in Paths : NewFetch(path)
  <2>1. CASE FetchMakefile
    <3>1. /\ Top.pc = "makefetch" /\ Top.pc \in ObjPcs
          /\ Top'.pc \in {"makewait", "cleanup"} /\ (NoFetch \/ NewFetch(cat[Pkg].makefile))
      BY <2>1, FetchMakefileIs DEF Same
    <3>2. cat[Pkg].makefile \in Paths
      BY <3>1, PathsAre DEF Loading
    <3> QED
      BY <3>1, <3>2
  <2>2. CASE Download
    <3>1. /\ Top.pc = "fetch" /\ Top.pc \in ObjPcs
          /\ Top'.pc \in {"download", "drain", "cleanup"} /\ (NoFetch \/ NewFetch(Src(Pkg)[Top.k]))
      BY <2>2, DownloadIs DEF Same
    <3>2. Src(Pkg)[Top.k] \in Paths
      BY <3>1, PathsAre DEF Loading
    <3> QED
      BY <3>1, <3>2
  <2> QED
    BY <2>1, <2>2
<1>3. PICK t : t = Top.obj
  OBVIOUS
<1>4. /\ t \in DOMAIN pkgs /\ Top.seen \in Int /\ ~pkgs[t].freed
      /\ ~raced => Cardinality(LiveOf(t)) <= Top.seen
  <2>1. Top.pc \in LoadPcs
    BY <1>2, LoadPoints
  <2>2. Top.seen \in Int
    BY TopType, Fields DEF Sound, Types
  <2> QED
    BY <1>2, <1>3, <2>1, <2>2, Inside DEF Counted, Loading, Owns
<1>5. IsFiniteSet(LiveOf(t)) /\ Cardinality(LiveOf(t)) \in Nat
  BY LiveFinite
<1>6. CASE NoFetch
  <2>1. /\ UNCHANGED fetch /\ DOMAIN pkgs' = DOMAIN pkgs
        /\ pkgs'[t].refs = Top.seen + 1
        /\ \A q \in DOMAIN pkgs : pkgs'[q].freed = pkgs[q].freed /\ (q # t => pkgs'[q] = pkgs[q])
    BY <1>1, <1>2, <1>3, <1>6, NoFetchIs
  <2>2. \A o : LiveOf(o)' = LiveOf(o)
    BY <2>1 DEF LiveOf, Live
  <2>3. ~raced => Cardinality(LiveOf(t)) <= Top.seen + 1
    BY <1>4, <1>5
  <2>4. Counted'
    BY <1>1, <1>2, <2>1, <2>2, <2>3 DEF Counted
  <2> QED
    BY <1>1, <2>1, <2>4, InUseStill
<1>7. CASE \E path \in Paths : NewFetch(path)
  <2>1. PICK path \in Paths : NewFetch(path)
    BY <1>7
  <2>2. /\ \A o : LiveOf(o)' = LiveOf(o) \cup (IF o = t THEN {Len(fetch) + 1} ELSE {})
        /\ DOMAIN pkgs' = DOMAIN pkgs
        /\ pkgs'[t].refs = Top.seen + 1
        /\ \A q \in DOMAIN pkgs : pkgs'[q].freed = pkgs[q].freed /\ (q # t => pkgs'[q] = pkgs[q])
    BY <1>1, <1>2, <1>3, <2>1, NewFetchIs
  <2>3. PICK S : S = LiveOf(t)
    OBVIOUS
  <2>4. PICK n : n = Len(fetch) + 1
    OBVIOUS
  <2>5. LiveOf(t)' = S \cup {n} /\ \A o : o # t => LiveOf(o)' = LiveOf(o)
    BY <2>2, <2>3, <2>4
  <2>6. Cardinality(S \cup {n}) \in Nat /\ Cardinality(S \cup {n}) <= Cardinality(S) + 1
    <3>1. IsFiniteSet(S) /\ Cardinality(S) \in Nat
      BY <1>5, <2>3
    <3>2. IsFiniteSet(S \cup {n}) /\ Cardinality(S \cup {n}) = IF n \in S THEN Cardinality(S) ELSE Cardinality(S) + 1
      BY <3>1, FS_AddElement
    <3> QED
      BY <3>1, <3>2
  <2>7. ~raced => Cardinality(S \cup {n}) <= Top.seen + 1
    BY <1>4, <1>5, <2>3, <2>6
  <2>8. Counted'
    BY <1>1, <1>2, <2>2, <2>5, <2>7 DEF Counted
  <2>9. PackageInUse'
    BY <1>1, <1>4, <2>2, <2>5 DEF PackageInUse
  <2> QED
    BY <2>8, <2>9
<1> QED
  BY <1>2, <1>6, <1>7

\* A thread that ends is counted off.
LEMMA CountedThread ==
  ASSUME Sound, Counted, PackageInUse, NEW n \in DOMAIN fetch, FetchFile(n)
  PROVE  Counted' /\ PackageInUse'
<1>1. UNCHANGED stack /\ Worked(n) /\ Released(n)
  BY FetchFileIs
<1>2. Top' = Top
  BY <1>1 DEF Top
<1>3. /\ DOMAIN fetch' = DOMAIN fetch /\ Live(n)
      /\ \A o : LiveOf(o)' \subseteq LiveOf(o)
  BY MovedLive, LessLive
<1>4. /\ DOMAIN pkgs' = DOMAIN pkgs
      /\ \A q \in DOMAIN pkgs : pkgs'[q].freed = pkgs[q].freed /\ (q # fetch[n].obj => pkgs'[q] = pkgs[q])
  BY <1>1 DEF Released
<1>5. \A o : IsFiniteSet(LiveOf(o)) /\ Cardinality(LiveOf(o)) \in Nat
  BY LiveFinite
<1>6. ASSUME NEW o PROVE Cardinality(LiveOf(o)') \in Nat /\ Cardinality(LiveOf(o)') <= Cardinality(LiveOf(o))
  <2>1. PICK S : S = LiveOf(o)
    OBVIOUS
  <2>2. PICK T \in SUBSET S : T = LiveOf(o)'
    BY <1>3, <2>1
  <2>3. IsFiniteSet(S)
    BY <1>5, <2>1
  <2>4. IsFiniteSet(T) /\ Cardinality(T) <= Cardinality(S)
    BY <2>3, FS_Subset
  <2> QED
    BY <2>1, <2>2, <2>4, FS_CardinalityType
<1>7. PackageInUse'
  <2>1. raced => raced'
    BY <1>1 DEF Worked
  <2>2. SUFFICES ASSUME NEW o \in DOMAIN pkgs, pkgs'[o].freed, LiveOf(o)' # {} PROVE raced'
    BY <1>4 DEF PackageInUse
  <2>3. pkgs[o].freed /\ LiveOf(o) # {}
    BY <1>3, <1>4, <2>2
  <2> QED
    BY <2>1, <2>3 DEF PackageInUse
<1>8. Counted'
  <2>1. CASE UNCHANGED <<pkgs, raced>>
    <3>1. SUFFICES ASSUME ~raced
                   PROVE  /\ \A o \in DOMAIN pkgs : Cardinality(LiveOf(o)') <= pkgs[o].refs
                          /\ Top.pc \in {"makefetch", "fetch"} => Cardinality(LiveOf(Top.obj)') <= Top.seen
      BY <1>2, <2>1 DEF Counted
    <3>2. ASSUME NEW o \in DOMAIN pkgs PROVE Cardinality(LiveOf(o)') <= pkgs[o].refs
      <4>1. pkgs[o].refs \in Int
        <5>1. pkgs[o] \in ObjectType
          BY DEF Sound, Types
        <5> QED
          BY <5>1 DEF ObjectType
      <4>2. Cardinality(LiveOf(o)) <= pkgs[o].refs
        BY <3>1 DEF Counted
      <4> QED
        BY <1>5, <1>6, <4>1, <4>2
    <3>3. ASSUME Top.pc \in {"makefetch", "fetch"} PROVE Cardinality(LiveOf(Top.obj)') <= Top.seen
      <4>1. Top.seen \in Int
        BY TopType, Fields DEF Sound, Types
      <4>2. Cardinality(LiveOf(Top.obj)) <= Top.seen
        BY <3>1, <3>3 DEF Counted
      <4>3. PICK o : o = Top.obj
        OBVIOUS
      <4>4. LiveOf(Top.obj)' = LiveOf(o)'
        BY <1>2, <4>3 DEF LiveOf
      <4> QED
        BY <1>5, <1>6, <4>1, <4>2, <4>3, <4>4
    <3> QED
      BY <3>2, <3>3
  <2>2. CASE /\ fetch[n].pc = "dropping" /\ Moved(n, "done")
             /\ pkgs'[fetch[n].obj].refs = fetch[n].seen - 1
             /\ raced' = (raced \/ fetch[n].seen # pkgs[fetch[n].obj].refs)
    <3>1. SUFFICES ASSUME ~raced'
                   PROVE  /\ \A o \in DOMAIN pkgs : Cardinality(LiveOf(o)') <= pkgs'[o].refs
                          /\ Top.pc \in {"makefetch", "fetch"} => Cardinality(LiveOf(Top.obj)') <= Top.seen
      BY <1>2, <1>4 DEF Counted
    <3>2. ~raced /\ fetch[n].seen = pkgs[fetch[n].obj].refs
      BY <2>2, <3>1
    <3>3. ASSUME NEW o \in DOMAIN pkgs PROVE Cardinality(LiveOf(o)') <= pkgs'[o].refs
      <4>1. pkgs[o].refs \in Int
        <5>1. pkgs[o] \in ObjectType
          BY DEF Sound, Types
        <5> QED
          BY <5>1 DEF ObjectType
      <4>2. Cardinality(LiveOf(o)) <= pkgs[o].refs
        BY <3>2 DEF Counted
      <4>3. CASE o # fetch[n].obj
        <5>1. pkgs'[o].refs = pkgs[o].refs
          BY <1>4, <4>3
        <5> QED
          BY <1>5, <1>6, <4>1, <4>2, <5>1
      <4>4. CASE o = fetch[n].obj
        <5>1. pkgs'[o].refs = pkgs[o].refs - 1
          BY <2>2, <3>2, <4>4
        <5>2. n \in LiveOf(o) /\ n \notin LiveOf(o)'
          BY <1>3, <2>2, <4>4 DEF LiveOf, Moved, Live
        <5>3. PICK S : S = LiveOf(o)
          OBVIOUS
        <5>4. PICK T : T = LiveOf(o)'
          OBVIOUS
        <5>5. T \in SUBSET (S \ {n}) /\ IsFiniteSet(S) /\ Cardinality(S) \in Nat /\ n \in S
          BY <1>3, <1>5, <5>2, <5>3, <5>4
        <5>6. IsFiniteSet(S \ {n}) /\ Cardinality(S \ {n}) = Cardinality(S) - 1
          BY <5>5, FS_RemoveElement
        <5>7. Cardinality(T) <= Cardinality(S \ {n}) /\ IsFiniteSet(T)
          BY <5>5, <5>6, FS_Subset
        <5>8. Cardinality(T) \in Nat
          BY <5>7, FS_CardinalityType
        <5> QED
          BY <4>1, <4>2, <5>1, <5>3, <5>4, <5>5, <5>6, <5>7, <5>8
      <4> QED
        BY <4>3, <4>4
    <3>4. ASSUME Top.pc \in {"makefetch", "fetch"} PROVE Cardinality(LiveOf(Top.obj)') <= Top.seen
      <4>1. Top.seen \in Int
        BY TopType, Fields DEF Sound, Types
      <4>2. Cardinality(LiveOf(Top.obj)) <= Top.seen
        BY <3>2, <3>4 DEF Counted
      <4>3. PICK o : o = Top.obj
        OBVIOUS
      <4>4. LiveOf(Top.obj)' = LiveOf(o)'
        BY <1>2, <4>3 DEF LiveOf
      <4> QED
        BY <1>5, <1>6, <4>1, <4>2, <4>3, <4>4
    <3> QED
      BY <3>3, <3>4
  <2> QED
    BY <1>1, <2>1, <2>2 DEF Worked
<1> QED
  BY <1>7, <1>8

\* Every step keeps the count of references.
LEMMA CountedStep ==
  ASSUME Sound, Loading, Counted, PackageInUse, Next
  PROVE  Counted' /\ PackageInUse'
<1>1. CASE Outside
  <2>1. Top'.pc \notin {"makefetch", "fetch"}
    BY <1>1, LoadPoints DEF Outside
  <2> QED
    BY <1>1, <2>1, CountedStill, InUseStill DEF Outside
<1>2. CASE Onward
  <2>1. Top'.pc \notin {"makefetch", "fetch"}
    BY <1>2, LoadPoints DEF Onward
  <2> QED
    BY <1>2, <2>1, CountedStill, InUseStill DEF Onward
<1>3. CASE GotPackage
  <2>1. /\ Top'.pc \in {"prepare", "test"} /\ UNCHANGED fetch
        /\ Len(pkgs) \in Nat /\ DOMAIN pkgs = 1..Len(pkgs) /\ DOMAIN pkgs' = 1..(Len(pkgs) + 1)
        /\ \A o \in DOMAIN pkgs : pkgs'[o] = pkgs[o]
        /\ pkgs'[Len(pkgs) + 1] = NewObject(Head(Top.todo), Top.dir)
    BY <1>3, GotPackageIs
  <2>2. UNCHANGED raced
    BY <1>3 DEF GotPackage, MainUnchanged
  <2>3. PICK x \in Nat \ {0} : x = Len(pkgs) + 1
    BY <2>1
  <2>4. DOMAIN pkgs' = DOMAIN pkgs \cup {x} /\ x \notin DOMAIN pkgs
    BY <2>1, <2>3
  <2>5. pkgs'[x].refs = 0 /\ pkgs'[x].freed = FALSE
    BY <2>1, <2>3 DEF NewObject
  <2>6. \A o : LiveOf(o)' = LiveOf(o)
    BY <2>1 DEF LiveOf, Live
  <2>7. LiveOf(x) = {}
    <3>1. \A n \in DOMAIN fetch : fetch[n].obj \in DOMAIN pkgs
      BY DEF Sound, Types, ThreadsType
    <3> QED
      BY <2>4, <3>1 DEF LiveOf
  <2>8. Cardinality(LiveOf(x)) = 0
    BY <2>7, FS_EmptySet
  <2>9. Counted'
    <3>1. SUFFICES ASSUME ~raced, NEW o \in DOMAIN pkgs'
                   PROVE  Cardinality(LiveOf(o)') <= pkgs'[o].refs
      BY <2>1, <2>2 DEF Counted
    <3>2. CASE o = x
      <4>1. LiveOf(o)' = LiveOf(x)
        BY <2>6, <3>2
      <4>2. Cardinality(LiveOf(o)') = 0
        BY <2>8, <4>1
      <4> QED
        BY <2>5, <3>2, <4>2
    <3>3. CASE o \in DOMAIN pkgs
      <4>1. pkgs'[o] = pkgs[o] /\ LiveOf(o)' = LiveOf(o) /\ Cardinality(LiveOf(o)) <= pkgs[o].refs
        BY <2>1, <2>6, <3>1, <3>3 DEF Counted
      <4> HIDE DEF LiveOf
      <4> QED
        BY <4>1
    <3> QED
      BY <2>4, <3>2, <3>3
  <2>10. PackageInUse'
    BY <2>1, <2>2, <2>4, <2>5, <2>6 DEF PackageInUse
  <2> QED
    BY <2>9, <2>10
<1>4. CASE Reference
  <2>1. /\ Top'.obj = Top.obj /\ UNCHANGED <<fetch, pkgs>>
        /\ Top'.seen = pkgs[Top.obj].refs /\ Top.pc \in ObjPcs
    BY <1>4, ReferenceIs DEF Same
  <2>2. UNCHANGED raced
    BY <1>4 DEF Reference, Installing, MainUnchanged
  <2>3. Top.obj \in DOMAIN pkgs
    BY <2>1, Inside
  <2>4. \A o : LiveOf(o)' = LiveOf(o)
    BY <2>1 DEF LiveOf, Live
  <2>5. LiveOf(Top.obj)' = LiveOf(Top.obj)
    BY <2>1 DEF LiveOf, Live
  <2>6. Counted'
    BY <2>1, <2>2, <2>3, <2>4, <2>5 DEF Counted
  <2> QED
    BY <2>1, <2>2, <2>6, InUseStill
<1>5. CASE JoinMakefile \/ Join
  <2>1. Top'.pc \in {"configure", "look", "drain", "download", "store"} /\ UNCHANGED <<fetch, pkgs>>
    BY <1>5, JoinMakefileIs, JoinIs, SourcesIs
  <2>2. UNCHANGED raced
    BY <1>5 DEF JoinMakefile, Join, Installing, MainUnchanged
  <2> QED
    BY <2>1, <2>2, CountedStill, InUseStill
<1> QED
  BY <1>1, <1>2, <1>3, <1>4, <1>5, MainSteps, BesideOutside, LibraryOutside, SectionsOnward,
     CountedMade, CountedThread DEF Next

-----------------------------------------------------------------------------
(* The fetch threads keep out of main's sections, and what runs on is known.*)

\* What a run keeps of main, the mutex, the threads and the packages.
Contained ==
    Sound /\ Held /\ Loading /\ Joined /\ NameInUse /\ Counted /\ PackageInUse

\* A run begins contained.
LEMMA ContainedInit ==
  ASSUME Init, Pkgs # {}
  PROVE  Contained
<1>1. Sound /\ Held /\ Pathed /\ Top.pc = "next"
  BY InitSound, HeldInit
<1>2. fetch = <<>> /\ pkgs = <<>> /\ stale = FALSE /\ raced = FALSE /\ unmade = FALSE
  BY InitIs
<1>3. DOMAIN fetch = {} /\ DOMAIN pkgs = {}
  BY <1>2
<1>4. Loading
  BY <1>1, LoadPoints DEF Loading, Owns, Starts, Pathed, Batched
<1>5. Joined /\ NameInUse /\ Counted /\ PackageInUse
  BY <1>1, <1>2, <1>3 DEF Joined, NameInUse, Counted, PackageInUse
<1> QED
  BY <1>1, <1>4, <1>5 DEF Contained

\* Every step keeps it so.
LEMMA ContainedStep ==
  ASSUME Contained, [Next]_vars
  PROVE  Contained'
<1>1. CASE Next
  <2>1. Sound /\ Held /\ Loading /\ Pathed /\ Joined /\ NameInUse /\ Counted /\ PackageInUse
    BY DEF Contained, Loading
  <2>2. Sound' /\ Held' /\ Loading'
    BY <1>1, <2>1, StepSound, HeldStep, LoadingStep
  <2>3. Joined' /\ NameInUse' /\ Counted' /\ PackageInUse'
    BY <1>1, <2>1, JoinedStep, NameStep, CountedStep
  <2> QED
    BY <2>2, <2>3 DEF Contained
<1>2. CASE UNCHANGED vars
  <2>1. Sound'
    BY <1>2, StutterSound DEF Contained
  <2>2. Top' = Top /\ Pkg' = Pkg /\ (\A o : LiveOf(o)' = LiveOf(o)) /\ LiveOf(Top.obj)' = LiveOf(Top.obj)
    BY <1>2 DEF vars, installVars, Top, Pkg, LiveOf, Live
  <2>3. UNCHANGED <<cat, opts, fetch, pkgs, stale, raced, unmade, lock, get, retried>>
    BY <1>2 DEF vars, installVars, pkgVars
  <2>4. Held' /\ Joined' /\ NameInUse' /\ Counted' /\ PackageInUse'
    BY <2>2, <2>3, SameMany DEF Contained, Held, Joined, NameInUse, Counted, PackageInUse, Live
  <2>5. Owns' /\ Starts' /\ Pathed'
    BY <2>2, <2>3 DEF Contained, Loading, Owns, Starts, Pathed, Src
  <2>6. Batched'
    <3>1. SUFFICES ASSUME Top.pc \in Batch PROVE \E m \in Nat : Paced(Top, m)'
      BY <2>2 DEF Batched
    <3>2. PICK m \in Nat : Paced(Top, m)
      BY <3>1 DEF Contained, Loading, Batched
    <3>3. Paced(Top, m)'
      BY <2>2, <2>3, <3>1, <3>2, PacedLess DEF Contained, Loading
    <3> QED
      BY <3>3
  <2> QED
    BY <2>1, <2>4, <2>5, <2>6 DEF Contained, Loading
<1> QED
  BY <1>1, <1>2

\* So many groups of d as there are in n.
LEMMA Groups ==
  ASSUME NEW m \in Nat, NEW d \in Nat \ {0}, NEW n \in Nat, m * d <= n
  PROVE  m <= n \div d
<1>1. PICK q \in Nat, r \in Nat : q = n \div d /\ r = n % d /\ n = q * d + r /\ r < d
  OBVIOUS
<1>2. SUFFICES ASSUME m > q PROVE FALSE
  BY <1>1
<1>3. PICK e \in Nat : m = q + 1 + e
  <2>1. m - q - 1 \in Nat /\ m = q + 1 + (m - q - 1)
    BY <1>1, <1>2
  <2> QED
    BY <2>1
<1>4. PICK a \in Nat, b \in Nat : a = q * d /\ b = e * d
  BY <1>1, <1>3
<1>5. m * d = a + d + b
  BY <1>1, <1>3, <1>4
<1> QED
  BY <1>1, <1>4, <1>5

\* How many threads a package leaves behind.
LEMMA ContainedLeft ==
  ASSUME Sound, Loading
  PROVE  LeftRunning
<1>1. SUFFICES ASSUME Top.pc \in {"store", "stored"}
               PROVE  Cardinality(LiveOf(Top.obj)) <= Len(Src(Pkg)) \div (opts.concurrency + 1)
  BY DEF LeftRunning
<1>2. PICK m \in Nat : Paced(Top, m)
  BY <1>1, LoadPoints DEF Loading, Batched
<1>3. /\ Top.i = -1 /\ Cardinality(Loose(Top)) <= m
      /\ m * (opts.concurrency + 1) <= Top.k - 1 /\ Top.k <= Len(Src(Pkg)) + 1
  BY <1>1, <1>2, PacedTop
<1>4. Len(Src(Pkg)) \in Nat /\ opts.concurrency \in Nat /\ Top.k \in Nat \ {0}
  BY <1>1, SourceLen, LoadPoints, TopType, Fields DEF Loading, Sound, Types, GivenType
<1>5. Loose(Top) = LiveOf(Top.obj)
  <2>1. (1..(-1)) = {}
    OBVIOUS
  <2> QED
    BY <1>3, <2>1 DEF Loose
<1>6. PICK d \in Nat \ {0}, L \in Nat, k \in Nat : d = opts.concurrency + 1 /\ L = Len(Src(Pkg)) /\ k = Top.k
  BY <1>4
<1>7. PICK w \in Nat : w = m * d
  BY <1>6
<1>8. w <= L
  BY <1>3, <1>6, <1>7
<1>9. m <= L \div d
  BY <1>7, <1>8, Groups
<1>10. PICK x \in Nat : x = Cardinality(LiveOf(Top.obj))
  BY LiveFinite
<1>11. L \div d \in Int /\ x <= m
  BY <1>3, <1>5, <1>10
<1>12. x <= L \div d
  BY <1>9, <1>11
<1> QED
  BY <1>6, <1>10, <1>12

\* What is sound has its types.
LEMMA SoundTypes ==
  ASSUME Sound
  PROVE  TypeOK
<1>1. \A n \in DOMAIN fetch : fetch[n].obj \in DOMAIN pkgs /\ fetch[n].path \in Paths
  BY ThreadHas
<1>2. \A d \in DOMAIN stack : stack[d].rc \in {-1, 0, 1, 11, 256}
  <2>1. \A d \in DOMAIN stack : stack[d] \in FrameType
    BY TopType DEF Sound, Types
  <2> QED
    BY <2>1 DEF FrameType, RCs
<1> QED
  BY <1>1, <1>2 DEF TypeOK, Sound, Types, CallType, DataType, ThreadsType

\* Whatever is installed, with however many threads at once: the threads and
\* main are never in two sections of the mutex at once until a manifest's download
\* was retried, a thread runs on behind main's joins only where a group of
\* sources has one more than there are slots, the freed name of a directory is
\* used only then or after a thread could not be made, and only a lost update of
\* refs frees a package under its threads (clib-package.c:937-1008, :1291-1320,
\* :1492-1605).
THEOREM InstallContained ==
  ASSUME Pkgs # {}
  PROVE  Spec => []FetchContained
<1>1. Init => Contained
  BY ContainedInit
<1>2. Contained /\ [Next]_vars => Contained'
  BY ContainedStep
<1>3. Contained => FetchContained
  BY SoundTypes, HeldAlone, ContainedLeft DEF Contained, FetchContained
<1> QED
  BY <1>1, <1>2, <1>3, PTL DEF Spec

-----------------------------------------------------------------------------
(* What every step keeps.                                                  *)

Grows ==
    /\ UNCHANGED <<cat, cmd, opts>> /\ visited \subseteq visited'
    /\ faults' = 0 => faults = 0
    /\ unmade' => unmade \/ faults' # 0
    /\ \A q \in DOMAIN pkgs :
           q \in DOMAIN pkgs' /\ pkgs'[q].pkg = pkgs[q].pkg /\ pkgs'[q].dir = pkgs[q].dir
    /\ \A n \in DOMAIN fetch :
           n \in DOMAIN fetch' /\ fetch'[n].obj = fetch[n].obj /\ fetch'[n].path = fetch[n].path

\* Inside clib_package_install nothing is forgotten.
LEMMA InnerGrows ==
  ASSUME Sound, EnterSection \/ Tested \/ Prepare \/ Marked \/ Looked \/ Stored
  PROVE  Grows
<1>1. CASE EnterSection \/ Tested \/ Stored
  BY <1>1, EnterSectionIs, TestedIs, StoredIs DEF Grows
<1>2. CASE Marked
  BY <1>2, MarkedIs DEF Grows
<1>3. CASE Looked
  BY <1>3, LookedIs DEF Grows
<1>4. CASE Prepare
  <2>1. /\ Top.obj \in DOMAIN pkgs /\ pkgs[Top.obj] \in ObjectType /\ (faults' = 0 => faults = 0)
        /\ DOMAIN pkgs' = DOMAIN pkgs
        /\ pkgs'[Top.obj] = [pkgs[Top.obj] EXCEPT !.name = "live"]
        /\ \A q \in DOMAIN pkgs : q # Top.obj => pkgs'[q] = pkgs[q]
        /\ UNCHANGED <<cat, cmd, opts, visited, fetch, unmade>>
    BY <1>4, PrepareIs, Inside
  <2>2. \A q \in DOMAIN pkgs : pkgs'[q].pkg = pkgs[q].pkg /\ pkgs'[q].dir = pkgs[q].dir
    BY <2>1 DEF ObjectType
  <2> QED
    BY <2>1, <2>2 DEF Grows
<1> QED
  BY <1>1, <1>2, <1>3, <1>4

\* Nor when a thread is made.
LEMMA MadeGrows ==
  ASSUME Sound, Pathed, FetchMakefile \/ Download
  PROVE  Grows
<1>1. UNCHANGED <<cat, cmd, opts, visited, lock>> /\ Top.pc \in ObjPcs
  BY FetchMakefileIs, DownloadIs DEF FetchMakefile, Download, Installing, MainUnchanged
<1>2. NoFetch \/ \E path \in Paths : NewFetch(path)
  <2>1. FetchMakefile => NoFetch \/ (Top.pc = "makefetch" /\ NewFetch(cat[Pkg].makefile))
    BY FetchMakefileIs
  <2>2. Download => NoFetch \/ (Top.pc = "fetch" /\ NewFetch(Src(Pkg)[Top.k]))
    BY DownloadIs
  <2> QED
    BY <2>1, <2>2, PathsAre
<1>3. CASE NoFetch
  <2>1. /\ UNCHANGED fetch /\ unmade' = TRUE /\ Fault
        /\ \A q \in DOMAIN pkgs :
               q \in DOMAIN pkgs' /\ pkgs'[q].pkg = pkgs[q].pkg /\ pkgs'[q].dir = pkgs[q].dir
    BY <1>1, <1>3, NoFetchIs
  <2>2. faults' # 0
    BY <2>1, FaultIs
  <2> QED
    BY <1>1, <2>1, <2>2 DEF Grows
<1>4. CASE \E path \in Paths : NewFetch(path)
  <2>1. PICK path \in Paths : NewFetch(path)
    BY <1>4
  <2>2. /\ \A n \in DOMAIN fetch : n \in DOMAIN fetch' /\ fetch'[n] = fetch[n]
        /\ \A q \in DOMAIN pkgs :
               q \in DOMAIN pkgs' /\ pkgs'[q].pkg = pkgs[q].pkg /\ pkgs'[q].dir = pkgs[q].dir
        /\ UNCHANGED <<faults, unmade>>
    BY <1>1, <2>1, NewFetchIs
  <2> QED
    BY <1>1, <2>2 DEF Grows
<1> QED
  BY <1>2, <1>3, <1>4

\* Every step keeps what there is.
LEMMA StepGrows ==
  ASSUME Sound, Pathed, Next
  PROVE  Grows
<1>1. CASE Beside
  BY <1>1 DEF Beside, Grows
<1>2. CASE Library
  <2>1. Made /\ UNCHANGED <<cat, cmd, opts, visited, unmade, fetch, pkgs>>
    BY <1>2, LibraryIs DEF installVars
  <2> QED
    BY <2>1 DEF Made, Grows
<1>3. CASE GotPackage
  <2>1. /\ UNCHANGED <<fetch, visited, unmade>> /\ Return(Main)
        /\ DOMAIN pkgs = 1..Len(pkgs) /\ DOMAIN pkgs' = 1..(Len(pkgs) + 1) /\ Len(pkgs) \in Nat
        /\ \A o \in DOMAIN pkgs : pkgs'[o] = pkgs[o]
    BY <1>3, GotPackageIs
  <2>2. UNCHANGED <<cat, cmd, opts, faults>>
    BY <1>3, <2>1, ReturnCall DEF GotPackage, MainUnchanged
  <2>3. \A q \in DOMAIN pkgs : q \in DOMAIN pkgs'
    BY <2>1
  <2> QED
    BY <2>1, <2>2, <2>3 DEF Grows
<1>4. CASE Reference \/ JoinMakefile \/ Join
  <2>1. UNCHANGED <<cat, cmd, opts, visited, faults, unmade, pkgs, fetch>>
    BY <1>4 DEF Reference, JoinMakefile, Join, Installing, MainUnchanged, pkgVars
  <2> QED
    BY <2>1 DEF Grows
<1>5. CASE \E n \in DOMAIN fetch : FetchFile(n)
  <2>1. PICK n \in DOMAIN fetch : FetchFile(n)
    BY <1>5
  <2>2. /\ Released(n) /\ (faults' = 0 => faults = 0)
        /\ UNCHANGED <<cat, cmd, visited, unmade, opts>>
    BY <2>1, FetchFileIs
  <2>3. /\ DOMAIN fetch' = DOMAIN fetch
        /\ \A m \in DOMAIN fetch : fetch'[m].obj = fetch[m].obj /\ fetch'[m].path = fetch[m].path
    BY <2>1, MovedLive
  <2> QED
    BY <2>2, <2>3 DEF Grows, Released
<1> QED
  BY <1>1, <1>2, <1>3, <1>4, <1>5, MainSteps, InnerGrows, MadeGrows DEF Next

\* Old threads keep their package and directory.
LEMMA SameDir ==
  ASSUME Sound, Grows, NEW n \in DOMAIN fetch
  PROVE  Object(n)'.pkg = Object(n).pkg /\ Dir(n)' = Dir(n)
<1>1. fetch[n].obj \in DOMAIN pkgs /\ fetch'[n].obj = fetch[n].obj
  BY ThreadHas DEF Grows
<1>2. Object(n)' = pkgs'[fetch[n].obj]
  BY <1>1 DEF Object
<1> QED
  BY <1>1, <1>2 DEF Grows, Object, Dir

-----------------------------------------------------------------------------
(* Without force a package is loaded once.                                 *)

Once ==
    ~opts.force =>
        /\ \A n \in DOMAIN fetch : Object(n).pkg \in visited
        /\ Top.pc \in {"prepare", "mark", "marked"} => Pkg \notin visited
        /\ Top.pc \in LoadPcs \ {"test", "tested", "prepare", "mark", "marked"} =>
               Pkg \in visited /\ \A n \in DOMAIN fetch : Object(n).pkg = Pkg => fetch[n].obj = Top.obj
        /\ \A m, n \in DOMAIN fetch : Object(m).pkg = Object(n).pkg => fetch[m].obj = fetch[n].obj

\* No thread is made: what is left to show is about main's package.
LEMMA OnceStill ==
  ASSUME Sound, Once, Grows, DOMAIN fetch' = DOMAIN fetch,
         ~opts.force =>
            /\ Top'.pc \in {"prepare", "mark", "marked"} => Pkg' \notin visited'
            /\ Top'.pc \in LoadPcs \ {"test", "tested", "prepare", "mark", "marked"} =>
                  Pkg' \in visited' /\ \A n \in DOMAIN fetch : Object(n).pkg = Pkg' => fetch[n].obj = Top'.obj
  PROVE  Once'
<1>1. \A n \in DOMAIN fetch : Object(n)'.pkg = Object(n).pkg /\ fetch'[n].obj = fetch[n].obj
  BY SameDir DEF Grows
<1>2. opts' = opts /\ visited \subseteq visited'
  BY DEF Grows
<1>3. SUFFICES ASSUME ~opts.force
               PROVE  /\ \A n \in DOMAIN fetch : Object(n)'.pkg \in visited'
                      /\ Top'.pc \in {"prepare", "mark", "marked"} => Pkg' \notin visited'
                      /\ Top'.pc \in LoadPcs \ {"test", "tested", "prepare", "mark", "marked"} =>
                             /\ Pkg' \in visited'
                             /\ \A n \in DOMAIN fetch : Object(n)'.pkg = Pkg' => fetch'[n].obj = Top'.obj
                      /\ \A m, n \in DOMAIN fetch :
                             Object(m)'.pkg = Object(n)'.pkg => fetch'[m].obj = fetch'[n].obj
  BY <1>2 DEF Once
<1> HIDE DEF Object, Pkg
<1>4. \A n \in DOMAIN fetch : Object(n)'.pkg \in visited'
  BY <1>1, <1>2, <1>3 DEF Once
<1>5. \A m, n \in DOMAIN fetch : Object(m)'.pkg = Object(n)'.pkg => fetch'[m].obj = fetch'[n].obj
  BY <1>1, <1>3 DEF Once
<1> QED
  BY <1>1, <1>3, <1>4, <1>5

\* The same package goes on, and has been visited or not as before.
LEMMA OnceGoes ==
  ASSUME Sound, Once, Grows, DOMAIN fetch' = DOMAIN fetch, UNCHANGED visited,
         Top.pc \in LoadPcs, Top'.obj = Top.obj,
         Top'.pc \in {"prepare", "mark", "marked"} => Top.pc \in {"prepare", "mark", "marked"},
         Top'.pc \in LoadPcs \ {"test", "tested", "prepare", "mark", "marked"} =>
             Top.pc \in LoadPcs \ {"test", "tested", "prepare", "mark", "marked"}
  PROVE  Once'
<1>1. Top.obj \in DOMAIN pkgs
  BY Inside, Points
<1>2. Pkg' = Pkg
  BY <1>1 DEF Grows, Pkg
<1> QED
  BY <1>2, OnceStill DEF Once

\* Main comes to a package's sources once, in its sections.
LEMMA OnceSections ==
  ASSUME Sound, Pathed, Once, EnterSection \/ Tested \/ Prepare \/ Marked \/ Looked \/ Stored
  PROVE  Once'
<1>1. Grows
  BY InnerGrows
<1>2. CASE EnterSection
  <2>1. /\ Top.pc \in LoadPcs /\ UNCHANGED <<fetch, visited>> /\ Top'.obj = Top.obj
        /\ Top'.pc \in {"prepare", "mark", "marked"} => Top.pc \in {"prepare", "mark", "marked"}
        /\ Top'.pc \in LoadPcs \ {"test", "tested", "prepare", "mark", "marked"} =>
             Top.pc \in LoadPcs \ {"test", "tested", "prepare", "mark", "marked"}
    BY <1>2, EnterSectionIs, LoadPoints DEF Went, Advanced, Kept
  <2> QED
    BY <1>1, <2>1, OnceGoes
<1>3. CASE Tested
  <2>1. /\ Top.pc = "tested" /\ UNCHANGED <<fetch, visited, pkgs>> /\ Top'.obj = Top.obj
        /\ Top'.pc = "returned" \/ (Top'.pc = "prepare" /\ Pkg \notin visited)
    BY <1>3, TestedIs DEF Went, Advanced, Kept
  <2>2. Pkg' = Pkg
    BY <2>1 DEF Pkg
  <2> QED
    BY <1>1, <2>1, <2>2, OnceStill, LoadPoints
<1>4. CASE Prepare
  <2>1. /\ Top.pc = "prepare" /\ UNCHANGED <<fetch, visited>> /\ Top'.obj = Top.obj
        /\ Top'.pc \in {"mark", "cleanup"}
    BY <1>4, PrepareIs DEF Went, Advanced, Kept
  <2> QED
    BY <1>1, <2>1, OnceGoes, LoadPoints
<1>5. CASE Marked
  <2>1. /\ Top.pc = "marked" /\ UNCHANGED <<fetch, pkgs>> /\ Top'.obj = Top.obj
        /\ visited' = visited \cup {Pkg}
        /\ Top'.pc \in {"make", "configure", "look"}
    BY <1>5, MarkedIs, SourcesIs DEF Went, Advanced, Kept
  <2>2. Pkg' = Pkg
    BY <2>1 DEF Pkg
  <2>3. ~opts.force => Pkg \notin visited /\ \A n \in DOMAIN fetch : Object(n).pkg # Pkg
    BY <2>1 DEF Once
  <2> QED
    BY <1>1, <2>1, <2>2, <2>3, OnceStill, LoadPoints
<1>6. CASE Looked
  <2>1. /\ Top.pc = "looked" /\ UNCHANGED <<fetch, visited>> /\ Top'.obj = Top.obj
        /\ Top'.pc \in {"download", "configure"}
    BY <1>6, LookedIs DEF Went, Advanced, Kept
  <2> QED
    BY <1>1, <2>1, OnceGoes, LoadPoints
<1>7. CASE Stored
  <2>1. /\ Top.pc = "stored" /\ UNCHANGED <<fetch, visited>> /\ Top'.obj = Top.obj
        /\ Top'.pc = "configure"
    BY <1>7, StoredIs DEF Went, Advanced, Kept
  <2> QED
    BY <1>1, <2>1, OnceGoes, LoadPoints
<1> QED
  BY <1>2, <1>3, <1>4, <1>5, <1>6, <1>7

\* And when it makes threads.
LEMMA OnceMade ==
  ASSUME Sound, Pathed, Once, FetchMakefile \/ Download
  PROVE  Once'
<1>1. Grows
  BY MadeGrows
<1>2. UNCHANGED <<opts, lock, visited>>
  BY DEF FetchMakefile, Download, Installing, MainUnchanged
<1>3. /\ Top.pc \in {"makefetch", "fetch"} /\ Top.pc \in ObjPcs /\ Top'.obj = Top.obj
      /\ Top'.pc \notin {"prepare", "mark", "marked"}
      /\ NoFetch \/ \E path \in Paths : NewFetch(path)
  <2>1. CASE FetchMakefile
    <3>1. /\ Top.pc = "makefetch" /\ Top.pc \in ObjPcs /\ Top'.obj = Top.obj
          /\ Top'.pc \in {"makewait", "cleanup"}
          /\ (NoFetch \/ NewFetch(cat[Pkg].makefile))
      BY <2>1, FetchMakefileIs DEF Same
    <3>2. cat[Pkg].makefile \in Paths
      BY <3>1, PathsAre
    <3> QED
      BY <3>1, <3>2
  <2>2. CASE Download
    <3>1. /\ Top.pc = "fetch" /\ Top.pc \in ObjPcs /\ Top'.obj = Top.obj
          /\ Top'.pc \in {"download", "drain", "cleanup"}
          /\ (NoFetch \/ NewFetch(Src(Pkg)[Top.k]))
      BY <2>2, DownloadIs DEF Same
    <3>2. Src(Pkg)[Top.k] \in Paths
      BY <3>1, PathsAre
    <3> QED
      BY <3>1, <3>2
  <2> QED
    BY <2>1, <2>2
<1>4. CASE NoFetch
  <2>1. DOMAIN fetch' = DOMAIN fetch
    BY <1>4 DEF NoFetch
  <2> QED
    BY <1>1, <1>2, <1>3, <2>1, OnceGoes, LoadPoints
<1>5. CASE \E path \in Paths : NewFetch(path)
  <2>1. PICK path \in Paths : NewFetch(path)
    BY <1>5
  <2>2. PICK x : x = Len(fetch) + 1
    OBVIOUS
  <2>3. /\ DOMAIN fetch' = DOMAIN fetch \cup {x} /\ fetch'[x].obj = Top.obj
        /\ Top.obj \in DOMAIN pkgs
    BY <1>2, <1>3, <2>1, <2>2, NewFetchIs
  <2>4. Pkg' = Pkg /\ Object(x)'.pkg = Pkg
    BY <1>1, <1>3, <2>3 DEF Grows, Pkg, Object
  <2>5. \A n \in DOMAIN fetch : Object(n)'.pkg = Object(n).pkg /\ fetch'[n].obj = fetch[n].obj
    BY <1>1, SameDir DEF Grows
  <2>6. ~opts.force =>
            /\ Pkg \in visited /\ \A n \in DOMAIN fetch : Object(n).pkg = Pkg => fetch[n].obj = Top.obj
            /\ \A n \in DOMAIN fetch : Object(n).pkg \in visited
            /\ \A m, n \in DOMAIN fetch : Object(m).pkg = Object(n).pkg => fetch[m].obj = fetch[n].obj
    BY <1>3, LoadPoints DEF Once
  <2>7. SUFFICES ASSUME ~opts.force
                 PROVE  /\ \A n \in DOMAIN fetch' : Object(n)'.pkg \in visited
                        /\ \A n \in DOMAIN fetch' : Object(n)'.pkg = Pkg => fetch'[n].obj = Top.obj
                        /\ \A m, n \in DOMAIN fetch' :
                               Object(m)'.pkg = Object(n)'.pkg => fetch'[m].obj = fetch'[n].obj
    BY <1>2, <1>3, <2>4, <2>6 DEF Once
  <2> HIDE DEF Object, Pkg
  <2>8. \A n \in DOMAIN fetch' : Object(n)'.pkg \in visited
    BY <2>3, <2>4, <2>5, <2>6, <2>7
  <2>9. \A n \in DOMAIN fetch' : Object(n)'.pkg = Pkg => fetch'[n].obj = Top.obj
    BY <2>3, <2>4, <2>5, <2>6, <2>7
  <2>10. ASSUME NEW m \in DOMAIN fetch', NEW n \in DOMAIN fetch', Object(m)'.pkg = Object(n)'.pkg
         PROVE  fetch'[m].obj = fetch'[n].obj
    <3>1. CASE m = x \/ n = x
      BY <2>3, <2>4, <2>9, <2>10, <3>1
    <3>2. CASE m \in DOMAIN fetch /\ n \in DOMAIN fetch
      BY <2>5, <2>6, <2>7, <2>10, <3>2
    <3> QED
      BY <2>3, <3>1, <3>2
  <2> QED
    BY <2>8, <2>9, <2>10
<1> QED
  BY <1>3, <1>4, <1>5

\* Every step keeps that.
LEMMA OnceStep ==
  ASSUME Sound, Pathed, Once, Next
  PROVE  Once'
<1>1. Grows
  BY StepGrows
<1>2. ASSUME UNCHANGED fetch, Top'.pc \notin LoadPcs PROVE Once'
  BY <1>1, <1>2, OnceStill, LoadPoints
<1>3. CASE Outside
  BY <1>2, <1>3 DEF Outside
<1>4. CASE GotPackage
  <2>1. Top'.pc = (IF opts.force THEN "prepare" ELSE "test") /\ UNCHANGED fetch
    BY <1>4, GotPackageIs
  <2> QED
    BY <1>1, <2>1, OnceStill, LoadPoints
<1>5. CASE Reference \/ JoinMakefile \/ Join
  <2>1. /\ UNCHANGED <<fetch, visited>> /\ Top'.obj = Top.obj
        /\ Top.pc \in {"make", "makewait", "download", "drain"}
        /\ Top'.pc \in {"makefetch", "fetch", "configure", "look", "download", "drain", "store"}
    BY <1>5, ReferenceIs, JoinMakefileIs, JoinIs, SourcesIs DEF Same
  <2> QED
    BY <1>1, <2>1, OnceGoes, LoadPoints
<1>6. CASE \E n \in DOMAIN fetch : FetchFile(n)
  <2>1. DOMAIN fetch' = DOMAIN fetch /\ UNCHANGED <<stack, visited>>
    BY <1>6, FetchFileIs, MovedLive
  <2>2. Top' = Top
    BY <2>1 DEF Top
  <2>3. CASE Top.pc \in LoadPcs
    BY <1>1, <2>1, <2>2, <2>3, OnceGoes
  <2>4. CASE Top.pc \notin LoadPcs
    BY <1>1, <2>1, <2>2, <2>4, OnceStill, LoadPoints
  <2> QED
    BY <2>3, <2>4
<1> QED
  BY <1>3, <1>4, <1>5, <1>6, MainSteps, BesideOutside, LibraryOutside, OnceSections, OnceMade DEF Next

-----------------------------------------------------------------------------
(* No two threads of a package have one file.                              *)

Apart ==
    (\A p \in Pkgs : NoTwins(cat[p])) =>
        /\ Top.pc \in Batch =>
               \A n \in LiveOf(Top.obj) : \E j \in 1..(Top.k - 1) : fetch[n].path = Src(Pkg)[j]
        /\ \A m, n \in DOMAIN fetch :
               Live(m) /\ Live(n) /\ fetch[m].obj = fetch[n].obj /\ fetch[m].path = fetch[n].path => m = n

\* The package is the one it was.
LEMMA PkgStays ==
  ASSUME Sound, Grows, Top.pc \in LoadPcs, Top'.obj = Top.obj
  PROVE  Pkg' = Pkg /\ Src(Pkg)' = Src(Pkg) /\ Top.obj \in DOMAIN pkgs /\ Pkg \in Pkgs
<1>1. Top.obj \in DOMAIN pkgs /\ Pkg \in Pkgs
  BY Inside, Points
<1>2. pkgs'[Top.obj].pkg = pkgs[Top.obj].pkg /\ UNCHANGED cat
  BY <1>1 DEF Grows
<1> QED
  BY <1>1, <1>2, SamePkg

\* Threads that stand still stay apart.
LEMMA ApartStill ==
  ASSUME Sound, Grows, Apart, UNCHANGED fetch,
         Top'.pc \in Batch =>
             /\ Top.pc \in LoadPcs /\ Top'.obj = Top.obj
             /\ LiveOf(Top.obj) = {} \/ (Top.pc \in Batch /\ Top'.k = Top.k)
  PROVE  Apart'
<1>1. UNCHANGED cat /\ (\A n : Live(n)' = Live(n)) /\ \A o : LiveOf(o)' = LiveOf(o)
  BY DEF Grows, LiveOf, Live
<1>2. SUFFICES ASSUME \A p \in Pkgs : NoTwins(cat[p]), Top'.pc \in Batch
               PROVE  \A n \in LiveOf(Top.obj)' : \E j \in 1..(Top'.k - 1) : fetch[n].path = Src(Pkg)'[j]
  BY <1>1 DEF Apart
<1>3. Top.pc \in LoadPcs /\ Top'.obj = Top.obj
  BY <1>2
<1>4. Src(Pkg)' = Src(Pkg)
  BY <1>3, PkgStays
<1>5. LiveOf(Top.obj)' = LiveOf(Top.obj)
  BY <1>1, <1>3 DEF LiveOf
<1>6. CASE LiveOf(Top.obj) = {}
  BY <1>5, <1>6
<1>7. CASE Top.pc \in Batch /\ Top'.k = Top.k
  <2>1. \A n \in LiveOf(Top.obj) : \E j \in 1..(Top.k - 1) : fetch[n].path = Src(Pkg)[j]
    BY <1>2, <1>7 DEF Apart
  <2> HIDE DEF LiveOf
  <2> QED
    BY <1>4, <1>5, <1>7, <2>1
<1> QED
  BY <1>2, <1>6, <1>7

\* The makefile's thread is apart.
LEMMA ApartMakefile ==
  ASSUME Sound, Loading, Apart, FetchMakefile
  PROVE  Apart'
<1>1. Grows /\ UNCHANGED <<cat, lock>>
  BY MadeGrows DEF Loading, Grows, FetchMakefile
<1>2. /\ Top.pc = "makefetch" /\ Top.pc \in ObjPcs /\ Top'.pc \in {"makewait", "cleanup"}
      /\ (NoFetch \/ NewFetch(cat[Pkg].makefile))
  BY FetchMakefileIs DEF Same
<1>3. CASE NoFetch
  BY <1>1, <1>2, <1>3, ApartStill, LoadPoints DEF NoFetch
<1>4. CASE NewFetch(cat[Pkg].makefile)
  <2>1. PICK path \in Paths : path = cat[Pkg].makefile
    BY <1>2, PathsAre DEF Loading
  <2>2. PICK x : x = Len(fetch) + 1
    OBVIOUS
  <2>3. /\ DOMAIN fetch' = DOMAIN fetch \cup {x} /\ fetch'[x].obj = Top.obj
        /\ \A n \in DOMAIN fetch : fetch'[n] = fetch[n]
    BY <1>1, <1>2, <1>4, <2>1, <2>2, NewFetchIs
  <2>4. \A n \in DOMAIN fetch : fetch[n].obj # Top.obj
    BY <1>2, LoadPoints DEF Loading, Starts
  <2>5. SUFFICES ASSUME \A p \in Pkgs : NoTwins(cat[p]), NEW m \in DOMAIN fetch', NEW n \in DOMAIN fetch',
                        Live(m)', Live(n)', fetch'[m].obj = fetch'[n].obj, fetch'[m].path = fetch'[n].path
                 PROVE  m = n
    BY <1>1, <1>2, LoadPoints DEF Apart
  <2>6. CASE m = x \/ n = x
    BY <2>3, <2>4, <2>5, <2>6
  <2>7. CASE m \in DOMAIN fetch /\ n \in DOMAIN fetch
    BY <2>3, <2>5, <2>7 DEF Apart, Live
  <2> QED
    BY <2>3, <2>6, <2>7
<1> QED
  BY <1>2, <1>3, <1>4

\* A source's thread is apart.
LEMMA ApartDownload ==
  ASSUME Sound, Loading, Apart, Download
  PROVE  Apart'
<1>1. Grows /\ UNCHANGED <<cat, lock>>
  BY MadeGrows DEF Loading, Grows, Download
<1>2. /\ Top.pc = "fetch" /\ Top.pc \in ObjPcs /\ Top'.obj = Top.obj
      /\ \/ NoFetch /\ Top'.pc = "cleanup"
         \/ NewFetch(Src(Pkg)[Top.k]) /\ Top'.k = Top.k + 1
  BY DownloadIs DEF Same
<1>3. CASE NoFetch /\ Top'.pc = "cleanup"
  BY <1>1, <1>3, ApartStill, LoadPoints DEF NoFetch
<1>4. CASE NewFetch(Src(Pkg)[Top.k]) /\ Top'.k = Top.k + 1
  <2>1. PICK path \in Paths : path = Src(Pkg)[Top.k]
    BY <1>2, PathsAre DEF Loading
  <2>2. PICK x : x = Len(fetch) + 1
    OBVIOUS
  <2>3. /\ DOMAIN fetch' = DOMAIN fetch \cup {x} /\ fetch'[x].obj = Top.obj /\ fetch'[x].path = path
        /\ \A n \in DOMAIN fetch : fetch'[n] = fetch[n]
    BY <1>1, <1>2, <1>4, <2>1, <2>2, NewFetchIs
  <2>4. Src(Pkg)' = Src(Pkg) /\ Pkg \in Pkgs
    BY <1>1, <1>2, PkgStays, LoadPoints
  <2>5. /\ Src(Pkg) # NoList /\ Top.k \in 1..Len(Src(Pkg)) /\ DOMAIN Src(Pkg) = 1..Len(Src(Pkg))
        /\ Top.k \in Nat \ {0} /\ Len(Src(Pkg)) \in Nat
    <3>1. Src(Pkg) # NoList /\ Top.k <= Len(Src(Pkg)) /\ Src(Pkg) \in Seq(Paths) /\ Len(Src(Pkg)) \in Nat
      BY <1>2, SourceLen, LoadPoints DEF Loading, Pathed
    <3>2. DOMAIN Src(Pkg) = 1..Len(Src(Pkg)) /\ Top.k \in Nat \ {0}
      BY <2>4, <3>1, SrcType, TopType, Fields DEF Sound, Types
    <3> QED
      BY <3>1, <3>2
  <2>6. PICK k \in Nat \ {0} : k = Top.k
    BY <2>5
  <2>7. SUFFICES ASSUME \A p \in Pkgs : NoTwins(cat[p])
                 PROVE  /\ \A n \in LiveOf(Top.obj)' : \E j \in 1..k : fetch'[n].path = Src(Pkg)[j]
                        /\ \A m, n \in DOMAIN fetch' :
                               Live(m)' /\ Live(n)' /\ fetch'[m].obj = fetch'[n].obj
                               /\ fetch'[m].path = fetch'[n].path => m = n
    <3>1. Top'.k - 1 = k
      BY <1>4, <2>6
    <3> QED
      BY <1>1, <2>4, <3>1 DEF Apart
  <2>8. \A n \in LiveOf(Top.obj) : \E j \in 1..(k - 1) : fetch[n].path = Src(Pkg)[j]
    BY <1>2, <2>6, <2>7, LoadPoints DEF Apart
  <2>9. \A j \in 1..(k - 1) : j \in 1..k /\ j \in DOMAIN Src(Pkg) /\ j # k
    BY <2>5, <2>6
  <2>10. k \in 1..k /\ k \in DOMAIN Src(Pkg)
    BY <2>5, <2>6
  <2>11. \A j \in 1..(k - 1) : Src(Pkg)[j] # path
    <3>1. \A i, j \in DOMAIN Src(Pkg) : Src(Pkg)[i] = Src(Pkg)[j] => i = j
      BY <2>4, <2>5, <2>7 DEF NoTwins, Src
    <3> QED
      BY <2>1, <2>6, <2>9, <2>10, <3>1
  <2>12. ASSUME NEW n \in DOMAIN fetch', fetch'[n].obj = Top.obj, Live(n)'
         PROVE  n = x \/ (n \in LiveOf(Top.obj) /\ fetch'[n].path # path)
    BY <2>3, <2>8, <2>11, <2>12 DEF LiveOf, Live
  <2>13. ASSUME NEW n \in LiveOf(Top.obj)' PROVE \E j \in 1..k : fetch'[n].path = Src(Pkg)[j]
    <3>1. n \in DOMAIN fetch' /\ fetch'[n].obj = Top.obj /\ Live(n)'
      BY <1>2, <2>13 DEF LiveOf
    <3>2. CASE n = x
      BY <2>1, <2>3, <2>6, <2>10, <3>2
    <3>3. CASE n \in LiveOf(Top.obj)
      <4>1. n \in DOMAIN fetch
        BY <3>3 DEF LiveOf
      <4> QED
        BY <2>3, <2>8, <2>9, <3>3, <4>1
    <3> QED
      BY <2>12, <3>1, <3>2, <3>3
  <2>14. ASSUME NEW m \in DOMAIN fetch', NEW n \in DOMAIN fetch',
                Live(m)', Live(n)', fetch'[m].obj = fetch'[n].obj, fetch'[m].path = fetch'[n].path
         PROVE  m = n
    <3>1. CASE m = x \/ n = x
      BY <2>3, <2>12, <2>14, <3>1
    <3>2. CASE m \in DOMAIN fetch /\ n \in DOMAIN fetch
      BY <2>3, <2>7, <2>14, <3>2 DEF Apart, Live
    <3> QED
      BY <2>3, <3>1, <3>2
  <2> QED
    BY <2>13, <2>14
<1> QED
  BY <1>2, <1>3, <1>4

\* Threads go on apart.
LEMMA ApartThread ==
  ASSUME Sound, Loading, Apart, NEW n \in DOMAIN fetch, FetchFile(n)
  PROVE  Apart'
<1>1. UNCHANGED <<stack, cat>>
  BY FetchFileIs
<1>2. Top' = Top
  BY <1>1 DEF Top
<1>3. /\ DOMAIN fetch' = DOMAIN fetch
      /\ \A m \in DOMAIN fetch : fetch'[m].obj = fetch[m].obj /\ fetch'[m].path = fetch[m].path
  BY MovedLive
<1>4. \A m \in DOMAIN fetch : Live(m)' => Live(m)
  BY MovedLive DEF Live
<1>5. LiveOf(Top.obj)' \subseteq LiveOf(Top.obj)
  BY <1>2, <1>3, <1>4 DEF LiveOf
<1>6. \A m \in LiveOf(Top.obj) : m \in DOMAIN fetch
  BY DEF LiveOf
<1>7. Top.pc \in Batch => Src(Pkg)' = Src(Pkg)
  <2>1. \E k : Next
    BY DEF Next
  <2>2. Grows
    BY <2>1, StepGrows DEF Loading
  <2> QED
    BY <1>2, <2>2, PkgStays, LoadPoints
<1> HIDE DEF LiveOf, Live
<1>8. SUFFICES ASSUME \A p \in Pkgs : NoTwins(cat[p])
               PROVE  /\ Top.pc \in Batch => \A m \in LiveOf(Top.obj)' :
                             \E j \in 1..(Top.k - 1) : fetch'[m].path = Src(Pkg)[j]
                      /\ \A m, k \in DOMAIN fetch :
                             Live(m)' /\ Live(k)' /\ fetch'[m].obj = fetch'[k].obj
                             /\ fetch'[m].path = fetch'[k].path => m = k
  BY <1>1, <1>2, <1>3, <1>7 DEF Apart
<1>9. ASSUME Top.pc \in Batch, NEW m \in LiveOf(Top.obj)'
      PROVE  \E j \in 1..(Top.k - 1) : fetch'[m].path = Src(Pkg)[j]
  BY <1>3, <1>5, <1>6, <1>8, <1>9 DEF Apart
<1>10. ASSUME NEW m \in DOMAIN fetch, NEW k \in DOMAIN fetch, Live(m)', Live(k)',
              fetch'[m].obj = fetch'[k].obj, fetch'[m].path = fetch'[k].path
       PROVE  m = k
  BY <1>3, <1>4, <1>8, <1>10 DEF Apart
<1> QED
  BY <1>9, <1>10

\* Every step keeps the threads apart.
LEMMA ApartStep ==
  ASSUME Sound, Loading, Apart, Next
  PROVE  Apart'
<1>1. Grows
  BY StepGrows DEF Loading
<1>2. CASE Outside
  <2>1. UNCHANGED fetch /\ Top'.pc \notin Batch
    BY <1>2, LoadPoints DEF Outside
  <2> QED
    BY <1>1, <2>1, ApartStill
<1>3. CASE Onward
  <2>1. /\ UNCHANGED fetch /\ Top.pc \in LoadPcs /\ Top'.obj = Top.obj /\ Top'.k = Top.k
        /\ Top'.pc \in Batch => Top.pc \in {"looked", "store"}
    BY <1>3, LoadPoints DEF Onward, Kept
  <2>2. Top.pc = "looked" => LiveOf(Top.obj) = {}
    BY LoadPoints DEF Loading, Starts
  <2> QED
    BY <1>1, <2>1, <2>2, ApartStill, LoadPoints
<1>4. CASE GotPackage
  <2>1. UNCHANGED fetch /\ Top'.pc \notin Batch
    BY <1>4, GotPackageIs, LoadPoints
  <2> QED
    BY <1>1, <2>1, ApartStill
<1>5. CASE Reference \/ JoinMakefile \/ Join
  <2>1. /\ UNCHANGED fetch /\ Top'.obj = Top.obj /\ Top'.k = Top.k
        /\ Top.pc \in {"make", "makewait", "download", "drain"}
        /\ Top.pc \in {"make", "makewait"} => Top'.pc \in {"makefetch", "configure", "look"}
    BY <1>5, ReferenceIs, JoinMakefileIs, JoinIs, SourcesIs DEF Same
  <2> QED
    BY <1>1, <2>1, ApartStill, LoadPoints
<1> QED
  BY <1>2, <1>3, <1>4, <1>5, MainSteps, BesideOutside, LibraryOutside, SectionsOnward,
     ApartMakefile, ApartDownload, ApartThread DEF Next

\* Two threads that write one file are one.
LEMMA WritersApart ==
  ASSUME Sound, Once, Apart, ~cmd.twins => \A p \in Pkgs : NoTwins(cat[p])
  PROVE  OneWriter
<1>1. SUFFICES ASSUME ~opts.force, ~cmd.twins, NEW m \in DOMAIN fetch, NEW n \in DOMAIN fetch,
                      fetch[m].pc = "get", fetch[n].pc = "get", Dir(m) = Dir(n),
                      fetch[m].path = fetch[n].path
               PROVE  m = n
  BY DEF OneWriter
<1>2. Object(m).pkg = Object(n).pkg
  BY <1>1 DEF Dir
<1>3. fetch[m].obj = fetch[n].obj
  BY <1>1, <1>2 DEF Once
<1> QED
  BY <1>1, <1>3 DEF Apart, Live

-----------------------------------------------------------------------------
(* What is cached is whole.                                                *)

\* Nothing failed, no source goes without a slot and no half a file was found.
Clean == faults = 0 /\ ~Many /\ ~cmd.leftover

\* A file is half there only while its thread writes it.
HalfWritten ==
    \A d \in Dirs \X Pkgs, f \in Paths : disk[d][f] = "part" =>
        \E n \in DOMAIN fetch : fetch[n].pc = "get" /\ Dir(n) = d /\ fetch[n].path = f

CopiesWhole ==
    \A p \in Pkgs : cache[p].age = "fresh" =>
        /\ \A f \in Paths : cache[p].copy[f] # "part"
        /\ \A f \in SrcOf(p) : cache[p].copy[f] = "full"

\* The points of a thread before it writes.
Before == {"start", "check", "checked", "open"}

\* The sources so far are there, or there is a thread that will see to it.
SeenTo ==
    Top.pc \in Batch => \A j \in 1..(Top.k - 1) :
        \/ disk[Place][Src(Pkg)[j]] # "none"
        \/ \E n \in LiveOf(Top.obj) : fetch[n].path = Src(Pkg)[j] /\ fetch[n].pc \in Before

Whole ==
    /\ faults = 0 => ~unmade
    /\ Clean => HalfWritten /\ CopiesWhole /\ SeenTo

\* What is clean after a step was clean before it.
LEMMA CleanStays ==
  ASSUME Grows
  PROVE  /\ Clean' => Clean
         /\ (faults = 0 => ~unmade) => (faults' = 0 => ~unmade')
         /\ \A p : Src(p)' = Src(p) /\ SrcOf(p)' = SrcOf(p)
<1>1. UNCHANGED <<cat, cmd, opts>> /\ (faults' = 0 => faults = 0) /\ (unmade' => unmade \/ faults' # 0)
  BY DEF Grows
<1>2. Many' = Many
  BY <1>1, SameMany
<1> QED
  BY <1>1, <1>2 DEF Clean, Src, SrcOf

\* A step that fails something is no concern.
LEMMA WholeFault ==
  ASSUME Grows, Whole, faults' # 0
  PROVE  Whole'
BY CleanStays DEF Whole, Clean

\* The threads that write go on, and no half a file comes to be.
LEMMA HalfStill ==
  ASSUME Sound, Grows, HalfWritten,
         \A d \in Dirs \X Pkgs, f \in Paths : disk'[d][f] = "part" => disk[d][f] = "part",
         \A n \in DOMAIN fetch : fetch[n].pc = "get" => fetch'[n].pc = "get"
  PROVE  HalfWritten'
<1>1. SUFFICES ASSUME NEW d \in Dirs \X Pkgs, NEW f \in Paths, disk'[d][f] = "part"
               PROVE  \E n \in DOMAIN fetch' : fetch'[n].pc = "get" /\ Dir(n)' = d /\ fetch'[n].path = f
  BY DEF HalfWritten
<1>2. PICK n \in DOMAIN fetch : fetch[n].pc = "get" /\ Dir(n) = d /\ fetch[n].path = f
  BY <1>1 DEF HalfWritten
<1>3. Dir(n)' = Dir(n)
  BY SameDir
<1>4. n \in DOMAIN fetch' /\ fetch'[n].path = fetch[n].path
  BY DEF Grows
<1> QED
  BY <1>2, <1>3, <1>4

\* The files and the threads are as they were, and so are main's.
LEMMA SeenStill ==
  ASSUME Sound, Grows, SeenTo, UNCHANGED <<fetch, disk>>,
         Top'.pc \in Batch =>
             /\ Top.pc \in LoadPcs /\ Top'.obj = Top.obj /\ Top'.dir = Top.dir
             /\ Top'.k = 1 \/ (Top.pc \in Batch /\ Top'.k = Top.k)
  PROVE  SeenTo'
<1>1. SUFFICES ASSUME Top'.pc \in Batch
               PROVE  \A j \in 1..(Top'.k - 1) :
                          \/ disk'[Place'][Src(Pkg)'[j]] # "none"
                          \/ \E n \in LiveOf(Top.obj)' : fetch'[n].path = Src(Pkg)'[j] /\ fetch'[n].pc \in Before
  BY DEF SeenTo
<1>2. Pkg' = Pkg /\ Src(Pkg)' = Src(Pkg)
  BY <1>1, PkgStays
<1>3. Place' = Place
  BY <1>1, <1>2 DEF Place
<1>4. LiveOf(Top.obj)' = LiveOf(Top.obj)
  BY <1>1 DEF LiveOf, Live
<1>5. CASE Top'.k = 1
  <2>1. 1..(Top'.k - 1) = {}
    BY <1>5
  <2> QED
    BY <2>1
<1>6. CASE Top.pc \in Batch /\ Top'.k = Top.k
  <2> HIDE DEF LiveOf, Place
  <2> QED
    BY <1>2, <1>3, <1>4, <1>6 DEF SeenTo
<1> QED
  BY <1>1, <1>5, <1>6

\* What is whole stays so where no file changes.
LEMMA WholeStill ==
  ASSUME Sound, Grows, Whole, UNCHANGED <<fetch, disk>>,
         \A p \in Pkgs : cache'[p] = cache[p] \/ cache'[p].age = "none",
         Top'.pc \in Batch =>
             /\ Top.pc \in LoadPcs /\ Top'.obj = Top.obj /\ Top'.dir = Top.dir
             /\ Top'.k = 1 \/ (Top.pc \in Batch /\ Top'.k = Top.k)
  PROVE  Whole'
<1>1. SUFFICES ASSUME Clean, HalfWritten, CopiesWhole, SeenTo
               PROVE  HalfWritten' /\ CopiesWhole' /\ SeenTo'
  BY CleanStays DEF Whole
<1>2. HalfWritten'
  BY <1>1, HalfStill
<1>3. CopiesWhole'
  BY <1>1, CleanStays DEF CopiesWhole
<1>4. SeenTo'
  BY <1>1, SeenStill
<1> QED
  BY <1>2, <1>3, <1>4

\* Main looks at the disk and the cache.
LEMMA WholeLooked ==
  ASSUME Sound, Loading, Whole, Looked
  PROVE  Whole'
<1>1. Grows
  BY InnerGrows
<1>2. /\ Top.pc = "looked" /\ Pkg \in Pkgs /\ Place \in Dirs \X Pkgs /\ Top.k = 1
      /\ cache \in [Pkgs -> Copy]
  BY LookedIs, LoadPoints DEF Loading, Starts, Sound, Types, DataType
<1>5. CASE faults' # 0
  BY <1>1, <1>5, WholeFault
<1>3. CASE Went("download") /\ UNCHANGED disk
  <2>1. \A p \in Pkgs : cache'[p] = cache[p] \/ cache'[p].age = "none"
    BY LookedIs, <1>3 DEF Went
  <2>2. UNCHANGED fetch /\ Top'.obj = Top.obj /\ Top'.dir = Top.dir /\ Top'.k = 1
    BY LookedIs, <1>2, <1>3 DEF Went, Advanced, Kept
  <2> QED
    BY <1>1, <1>2, <1>3, <2>1, <2>2, WholeStill, LoadPoints
<1>4. CASE /\ cache[Pkg].age = "fresh" /\ Went("configure") /\ UNCHANGED cache
           /\ \A d \in Dirs \X Pkgs : d # Place => disk'[d] = disk[d]
           /\ \A f \in Paths : disk'[Place][f] =
                  IF cache[Pkg].copy[f] = "none" THEN disk[Place][f] ELSE cache[Pkg].copy[f]
  <2>1. UNCHANGED fetch /\ Top'.pc = "configure"
    BY LookedIs, <1>4 DEF Went
  <2>2. SUFFICES ASSUME Clean, HalfWritten, CopiesWhole
                 PROVE  HalfWritten' /\ CopiesWhole' /\ SeenTo'
    BY <1>1, CleanStays DEF Whole
  <2>3. \A f \in Paths : cache[Pkg].copy[f] # "part"
    BY <1>2, <1>4, <2>2 DEF CopiesWhole
  <2>4. \A d \in Dirs \X Pkgs, f \in Paths : disk'[d][f] = "part" => disk[d][f] = "part"
    BY <1>2, <1>4, <2>3
  <2>5. HalfWritten'
    BY <1>1, <2>1, <2>2, <2>4, HalfStill
  <2>6. CopiesWhole'
    BY <1>1, <1>4, <2>2, CleanStays DEF CopiesWhole
  <2>7. SeenTo'
    BY <2>1, LoadPoints DEF SeenTo
  <2> QED
    BY <2>5, <2>6, <2>7
<1> QED
  BY <1>3, <1>4, <1>5, LookedIs, FaultIs

\* When a package is saved every source is there, and none of them in part.
LEMMA WholeAtLast ==
  ASSUME Sound, Loading, Joined, Whole, Clean, Top.pc = "stored"
  PROVE  /\ \A f \in Paths : disk[Place][f] # "part"
         /\ \A f \in SrcOf(Pkg) : disk[Place][f] = "full"
<1>1. HalfWritten /\ SeenTo /\ ~unmade /\ ~Many
  BY DEF Whole, Clean
<1>2. \A n \in DOMAIN fetch : fetch[n].pc = "done"
  BY <1>1 DEF Joined, Waits, Live
<1>3. Place \in Dirs \X Pkgs /\ disk \in [Dirs \X Pkgs -> [Paths -> FileState]] /\ Pkg \in Pkgs
  BY Inside, Points DEF Sound, Types, DataType
<1>4. \A f \in Paths : disk[Place][f] # "part"
  BY <1>1, <1>2, <1>3 DEF HalfWritten
<1>5. LiveOf(Top.obj) = {}
  BY <1>2 DEF LiveOf, Live
<1>6. \A j \in 1..(Top.k - 1) : disk[Place][Src(Pkg)[j]] # "none"
  BY <1>1, <1>5, LoadPoints DEF SeenTo
<1>7. /\ Src(Pkg) # NoList /\ Src(Pkg) \in Seq(Paths) /\ DOMAIN Src(Pkg) = 1..Len(Src(Pkg))
      /\ Len(Src(Pkg)) \in Nat /\ Top.k > Len(Src(Pkg)) /\ Top.k \in Nat
  <2>1. Src(Pkg) # NoList /\ Top.k > Len(Src(Pkg))
    BY SourceLen, LoadPoints DEF Loading, Pathed
  <2>2. Top.k \in Nat
    BY TopType, Fields DEF Sound, Types
  <2> QED
    BY <1>3, <2>1, <2>2, SrcType
<1>8. PICK L \in Nat, k \in Nat : L = Len(Src(Pkg)) /\ k = Top.k
  BY <1>7
<1>9. \A j \in 1..L : j \in 1..(k - 1)
  BY <1>7, <1>8
<1>10. ASSUME NEW f \in SrcOf(Pkg) PROVE disk[Place][f] = "full"
  <2>1. PICK j \in DOMAIN Src(Pkg) : f = Src(Pkg)[j]
    BY <1>7, <1>10 DEF SrcOf, ListOf
  <2>2. f \in Paths /\ disk[Place][f] # "none"
    BY <1>6, <1>7, <1>8, <1>9, <2>1
  <2>3. disk[Place][f] \in FileState
    BY <1>3, <2>2
  <2> QED
    BY <1>4, <2>2, <2>3 DEF FileState
<1> QED
  BY <1>4, <1>10

\* What is saved is whole.
LEMMA WholeStored ==
  ASSUME Sound, Loading, Joined, Whole, Stored
  PROVE  Whole'
<1>1. Grows
  BY InnerGrows
<1>2. /\ Top.pc = "stored" /\ Pkg \in Pkgs /\ Top'.pc = "configure" /\ UNCHANGED <<fetch, disk>>
      /\ faults' # 0 \/ cache'[Pkg] = [age |-> "fresh", copy |-> disk[Place]]
      /\ \A q \in Pkgs : q # Pkg => cache'[q] = cache[q]
  BY StoredIs DEF Went
<1>0. CASE faults' # 0
  BY <1>0, <1>1, WholeFault
<1>8. SUFFICES ASSUME faults' = 0 PROVE Whole'
  BY <1>0
<1>3. SUFFICES ASSUME Clean, HalfWritten, CopiesWhole
               PROVE  HalfWritten' /\ CopiesWhole' /\ SeenTo'
  BY <1>1, CleanStays DEF Whole
<1>4. HalfWritten'
  BY <1>1, <1>2, <1>3, HalfStill
<1>5. /\ \A f \in Paths : disk[Place][f] # "part"
      /\ \A f \in SrcOf(Pkg) : disk[Place][f] = "full"
  BY <1>2, <1>3, WholeAtLast
<1>6. CopiesWhole'
  <2>1. SUFFICES ASSUME NEW p \in Pkgs, cache'[p].age = "fresh"
                 PROVE  /\ \A f \in Paths : cache'[p].copy[f] # "part"
                        /\ \A f \in SrcOf(p) : cache'[p].copy[f] = "full"
    BY <1>1, CleanStays DEF CopiesWhole
  <2>2. CASE p = Pkg
    BY <1>2, <1>5, <1>8, <2>2
  <2>3. CASE p # Pkg
    BY <1>2, <1>3, <2>1, <2>3 DEF CopiesWhole
  <2> QED
    BY <2>2, <2>3
<1>7. SeenTo'
  BY <1>2, LoadPoints DEF SeenTo
<1> QED
  BY <1>4, <1>6, <1>7

\* A thread is made for what is not there.
LEMMA WholeMade ==
  ASSUME Sound, Loading, Whole, FetchMakefile \/ Download
  PROVE  Whole'
<1>1. Grows /\ UNCHANGED <<cat, lock, disk, cache>>
  BY MadeGrows DEF Loading, Grows, FetchMakefile, Download, Installing
<1>2. CASE NoFetch
  <2>1. Top.pc \in ObjPcs
    BY FetchMakefileIs, DownloadIs
  <2>2. faults' # 0
    BY <1>1, <1>2, <2>1, NoFetchIs, FaultIs
  <2> QED
    BY <1>1, <2>2, WholeFault
<1>3. ASSUME NEW path \in Paths, NewFetch(path), Top.pc \in ObjPcs
      PROVE  /\ (HalfWritten => HalfWritten') /\ (CopiesWhole => CopiesWhole')
             /\ \A n \in DOMAIN fetch : n \in DOMAIN fetch' /\ fetch'[n] = fetch[n]
             /\ \A n \in LiveOf(Top.obj) : n \in LiveOf(Top.obj)'
                   \/ Top'.obj # Top.obj
             /\ Top'.obj = Top.obj => \E n \in LiveOf(Top.obj)' : fetch'[n].path = path /\ fetch'[n].pc = "start"
  <2>1. PICK x : x = Len(fetch) + 1
    OBVIOUS
  <2>2. /\ DOMAIN fetch' = DOMAIN fetch \cup {x} /\ fetch'[x].path = path /\ fetch'[x].pc = "start"
        /\ fetch'[x].obj = Top.obj
        /\ \A n \in DOMAIN fetch : fetch'[n] = fetch[n]
    BY <1>1, <1>3, <2>1, NewFetchIs
  <2>3. HalfWritten => HalfWritten'
    BY <1>1, <2>2, HalfStill
  <2>4. CopiesWhole => CopiesWhole'
    BY <1>1, CleanStays DEF CopiesWhole
  <2> QED
    BY <2>2, <2>3, <2>4 DEF LiveOf, Live
<1>4. CASE FetchMakefile /\ ~NoFetch
  <2>1. /\ Top.pc = "makefetch" /\ Top.pc \in ObjPcs /\ NewFetch(cat[Pkg].makefile)
        /\ Top'.pc = "makewait"
    BY <1>4, FetchMakefileIs
  <2>2. PICK path \in Paths : path = cat[Pkg].makefile
    BY <2>1, PathsAre DEF Loading
  <2>3. SeenTo'
    BY <2>1, LoadPoints DEF SeenTo
  <2> QED
    BY <1>1, <1>3, <2>1, <2>2, <2>3, CleanStays DEF Whole
<1>5. CASE Download /\ ~NoFetch
  <2>1. /\ Top.pc = "fetch" /\ Top.pc \in ObjPcs /\ NewFetch(Src(Pkg)[Top.k])
        /\ Top'.k = Top.k + 1 /\ Top'.obj = Top.obj /\ Top'.dir = Top.dir
    BY <1>5, DownloadIs DEF Same
  <2>2. PICK path \in Paths : path = Src(Pkg)[Top.k]
    BY <2>1, PathsAre DEF Loading
  <2>3. Pkg' = Pkg /\ Src(Pkg)' = Src(Pkg)
    BY <1>1, <2>1, PkgStays, LoadPoints
  <2>4. Place' = Place
    BY <2>1, <2>3 DEF Place
  <2>5. PICK k \in Nat \ {0} : k = Top.k
    BY TopType, Fields DEF Sound, Types
  <2>6. \A j \in 1..k : j \in 1..(k - 1) \/ j = k
    BY <2>5
  <2>7. SUFFICES ASSUME SeenTo PROVE SeenTo'
    BY <1>1, <1>3, <2>1, <2>2, CleanStays DEF Whole
  <2>8. SUFFICES ASSUME NEW j \in 1..k
                 PROVE  \/ disk[Place][Src(Pkg)[j]] # "none"
                        \/ \E n \in LiveOf(Top.obj)' : fetch'[n].path = Src(Pkg)[j] /\ fetch'[n].pc \in Before
    <3>1. Top'.k - 1 = k
      BY <2>1, <2>5
    <3> QED
      BY <1>1, <2>3, <2>4, <3>1 DEF SeenTo
  <2>9. CASE j = k
    BY <1>3, <2>1, <2>2, <2>5, <2>9 DEF Before
  <2>10. CASE j \in 1..(k - 1)
    <3>1. \/ disk[Place][Src(Pkg)[j]] # "none"
          \/ \E n \in LiveOf(Top.obj) : fetch[n].path = Src(Pkg)[j] /\ fetch[n].pc \in Before
      BY <2>1, <2>5, <2>7, <2>10, LoadPoints DEF SeenTo
    <3>2. \A n \in LiveOf(Top.obj) : n \in LiveOf(Top.obj)' /\ fetch'[n] = fetch[n]
      BY <1>3, <2>1, <2>2 DEF LiveOf
    <3> QED
      BY <3>1, <3>2
  <2> QED
    BY <2>6, <2>9, <2>10
<1> QED
  BY <1>2, <1>4, <1>5

\* What a thread's step does to the files, when it does not fail.
LEMMA FilesStep ==
  ASSUME Sound, NEW n \in DOMAIN fetch, FetchFile(n), faults' = 0
  PROVE  /\ \A d \in Dirs \X Pkgs, f \in Paths : disk[d][f] # "none" => disk'[d][f] # "none"
         /\ \A d \in Dirs \X Pkgs, f \in Paths : disk'[d][f] = "part" =>
               \/ disk[d][f] = "part" /\ ~(fetch[n].pc = "get" /\ d = Dir(n) /\ f = fetch[n].path)
               \/ fetch'[n].pc = "get" /\ d = Dir(n) /\ f = fetch[n].path
         /\ fetch[n].pc \in Before =>
               \/ fetch'[n].pc \in Before
               \/ disk'[Dir(n)][fetch[n].path] # "none"
<1>1. Worked(n)
  BY FetchFileIs
<1>2. CASE fetch[n].pc = "get"
  <2>1. Written(n, "full")
    BY <1>1, <1>2 DEF Worked
  <2> QED
    BY <1>2, <2>1 DEF Written, Before
<1>3. CASE fetch[n].pc = "open"
  <2>1. Written(n, "part") /\ fetch'[n].pc = "get"
    BY <1>1, <1>3 DEF Worked, Moved
  <2> QED
    BY <1>3, <2>1 DEF Written
<1>4. CASE fetch[n].pc \notin {"get", "open"}
  <2>1. UNCHANGED disk
    BY <1>1, <1>4 DEF Worked
  <2>2. fetch[n].pc \in Before => fetch'[n].pc \in Before \/ File(n) # "none"
    BY <1>1, <1>4 DEF Worked, Moved, Before
  <2> QED
    BY <1>4, <2>1, <2>2 DEF File
<1> QED
  BY <1>2, <1>3, <1>4

\* A thread writes its file.
LEMMA WholeThread ==
  ASSUME Sound, Loading, Whole, NEW n \in DOMAIN fetch, FetchFile(n)
  PROVE  Whole'
<1>1. Grows
  BY StepGrows DEF Loading, Next
<1>2. CASE faults' # 0
  BY <1>1, <1>2, WholeFault
<1>3. CASE faults' = 0
  <2>1. UNCHANGED <<stack, cache>>
    BY FetchFileIs
  <2>2. Top' = Top
    BY <2>1 DEF Top
  <2>3. /\ DOMAIN fetch' = DOMAIN fetch
        /\ \A m \in DOMAIN fetch : m # n => fetch'[m] = fetch[m]
        /\ fetch'[n].obj = fetch[n].obj /\ fetch'[n].path = fetch[n].path
    BY MovedLive
  <2>4. Dir(n) \in Dirs \X Pkgs /\ fetch[n].path \in Paths
    BY ThreadHas
  <2>5. SUFFICES ASSUME HalfWritten, CopiesWhole, SeenTo
                 PROVE  HalfWritten' /\ CopiesWhole' /\ SeenTo'
    BY <1>1, CleanStays DEF Whole
  <2>6. CopiesWhole'
    BY <1>1, <2>1, <2>5, CleanStays DEF CopiesWhole
  <2>7. HalfWritten'
    <3>1. SUFFICES ASSUME NEW d \in Dirs \X Pkgs, NEW f \in Paths, disk'[d][f] = "part"
                   PROVE  \E m \in DOMAIN fetch : fetch'[m].pc = "get" /\ Dir(m)' = d /\ fetch'[m].path = f
      BY <2>3 DEF HalfWritten
    <3>2. \A m \in DOMAIN fetch : Dir(m)' = Dir(m)
      BY <1>1, SameDir
    <3> HIDE DEF Dir
    <3>3. CASE fetch'[n].pc = "get" /\ d = Dir(n) /\ f = fetch[n].path
      BY <2>3, <3>2, <3>3
    <3>4. CASE disk[d][f] = "part" /\ ~(fetch[n].pc = "get" /\ d = Dir(n) /\ f = fetch[n].path)
      <4>1. PICK m \in DOMAIN fetch : fetch[m].pc = "get" /\ Dir(m) = d /\ fetch[m].path = f
        BY <2>5, <3>4 DEF HalfWritten
      <4>2. m # n
        BY <3>4, <4>1
      <4> QED
        BY <2>3, <3>2, <4>1, <4>2
    <3> QED
      BY <1>3, <3>1, <3>3, <3>4, FilesStep
  <2>8. SeenTo'
    <3>1. SUFFICES ASSUME Top.pc \in Batch
                   PROVE  \A j \in 1..(Top.k - 1) :
                              \/ disk'[Place'][Src(Pkg)'[j]] # "none"
                              \/ \E m \in LiveOf(Top.obj)' :
                                     fetch'[m].path = Src(Pkg)'[j] /\ fetch'[m].pc \in Before
      BY <2>2 DEF SeenTo
    <3>2. Pkg' = Pkg /\ Src(Pkg)' = Src(Pkg)
      BY <1>1, <2>2, <3>1, PkgStays, LoadPoints
    <3>3. Place' = Place /\ Place \in Dirs \X Pkgs
      BY <2>2, <3>1, <3>2, Inside, Points, LoadPoints DEF Place
    <3>4. SUFFICES ASSUME NEW j \in 1..(Top.k - 1)
                   PROVE  \/ disk'[Place][Src(Pkg)[j]] # "none"
                          \/ \E m \in DOMAIN fetch : /\ fetch[m].obj = Top.obj
                                                     /\ fetch[m].path = Src(Pkg)[j] /\ fetch'[m].pc \in Before
      <4>1. \A m \in DOMAIN fetch : fetch[m].obj = Top.obj /\ fetch'[m].pc \in Before => m \in LiveOf(Top.obj)'
        BY <2>2, <2>3 DEF LiveOf, Live, Before
      <4>2. \A m \in DOMAIN fetch : fetch'[m].path = fetch[m].path
        BY <2>3
      <4> HIDE DEF LiveOf
      <4> QED
        BY <3>1, <3>2, <3>3, <4>1, <4>2
    <3>5. PICK f \in Paths : f = Src(Pkg)[j]
      <4>1. j \in 1..Len(Src(Pkg))
        <5>1. PICK m \in Nat : Paced(Top, m)
          BY <3>1 DEF Loading, Batched
        <5>2. Top.k <= Len(Src(Pkg)) + 1
          BY <5>1, PacedTop
        <5>3. Top.k \in Nat \ {0} /\ Len(Src(Pkg)) \in Nat
          BY <3>1, SourceLen, TopType, Fields DEF Sound, Types, Loading
        <5>4. PICK L \in Nat, k \in Nat : L = Len(Src(Pkg)) /\ k = Top.k
          BY <5>3
        <5> QED
          BY <3>4, <5>2, <5>4
      <4>2. Src(Pkg) \in Seq(Paths)
        BY <3>1, SourceLen DEF Loading
      <4> QED
        BY <4>1, <4>2
    <3>6. CASE disk[Place][f] # "none"
      BY <1>3, <3>3, <3>5, <3>6, FilesStep
    <3>7. CASE \E m \in LiveOf(Top.obj) : fetch[m].path = f /\ fetch[m].pc \in Before
      <4>1. PICK m \in DOMAIN fetch : fetch[m].obj = Top.obj /\ fetch[m].path = f /\ fetch[m].pc \in Before
        BY <3>7 DEF LiveOf
      <4>2. CASE m # n
        BY <2>3, <3>5, <4>1, <4>2
      <4>3. CASE m = n
        <5>1. pkgs[Top.obj].dir = Top.dir
          BY <3>1, LoadPoints DEF Loading, Owns
        <5>2. Dir(n) = Place
          BY <4>1, <4>3, <5>1 DEF Dir, Place, Object, Pkg
        <5> QED
          BY <1>3, <3>5, <4>1, <4>3, <5>2, FilesStep
      <4> QED
        BY <4>2, <4>3
    <3> QED
      BY <2>5, <3>1, <3>4, <3>5, <3>6, <3>7 DEF SeenTo
  <2> QED
    BY <2>6, <2>7, <2>8
<1> QED
  BY <1>2, <1>3

\* Every step keeps what is whole.
LEMMA WholeStep ==
  ASSUME Sound, Loading, Joined, Whole, Next
  PROVE  Whole'
<1>1. Grows
  BY StepGrows DEF Loading
<1>2. CASE Beside
  BY <1>1, <1>2, WholeStill, LoadPoints DEF Beside
<1>3. CASE Library
  <2>1. UNCHANGED <<stack, fetch, disk, cache>>
    BY <1>3 DEF Library, installVars
  <2>2. Top' = Top
    BY <2>1 DEF Top
  <2> QED
    BY <1>1, <2>1, <2>2, WholeStill, LoadPoints
<1>4. CASE GotPackage
  BY <1>1, <1>4, GotPackageIs, WholeStill, LoadPoints
<1>5. CASE Reference \/ JoinMakefile \/ Join
  <2>1. /\ UNCHANGED <<fetch, disk, cache>> /\ Top'.obj = Top.obj /\ Top'.dir = Top.dir /\ Top'.k = Top.k
        /\ Top.pc \in {"make", "makewait", "download", "drain"}
        /\ Top.pc \in {"make", "makewait"} => Top'.pc \in {"makefetch", "configure", "look"}
    BY <1>5, ReferenceIs, JoinMakefileIs, JoinIs, SourcesIs DEF Same
  <2> QED
    BY <1>1, <2>1, WholeStill, LoadPoints
<1>6. CASE EnterSection \/ Tested \/ Prepare \/ Marked
  <2>1. /\ UNCHANGED <<fetch, disk, cache>> /\ Kept(Top', Top) /\ Top.pc \in LoadPcs
        /\ Top'.pc \in Batch => Top.pc \in Batch
    <3>1. CASE EnterSection
      BY <3>1, EnterSectionIs, LoadPoints DEF Went, Advanced
    <3>2. CASE Tested
      BY <3>2, TestedIs, LoadPoints DEF Went, Advanced
    <3>3. CASE Prepare
      BY <3>3, PrepareIs, LoadPoints DEF Went, Advanced
    <3>4. CASE Marked
      BY <3>4, MarkedIs, SourcesIs, LoadPoints DEF Went, Advanced
    <3> QED
      BY <1>6, <3>1, <3>2, <3>3, <3>4
  <2> QED
    BY <1>1, <2>1, WholeStill DEF Kept
<1> QED
  BY <1>2, <1>3, <1>4, <1>5, <1>6, MainSteps, WholeLooked, WholeStored, WholeMade, WholeThread DEF Next

-----------------------------------------------------------------------------
(* The files.                                                              *)

\* Without twins no manifest has any.
Told == ~cmd.twins => \A p \in Pkgs : NoTwins(cat[p])

Filed == Contained /\ Once /\ Apart /\ Whole /\ Told

\* A run begins with its files in order.
LEMMA FiledInit ==
  ASSUME Init, Pkgs # {}
  PROVE  Filed
<1>1. Contained
  BY ContainedInit
<1>2. Top.pc = "next" /\ fetch = <<>> /\ unmade = FALSE /\ Told
  BY InitIs, InitSound DEF Told
<1>3. DOMAIN fetch = {}
  BY <1>2
<1>4. Once /\ Apart
  BY <1>2, <1>3, LoadPoints DEF Once, Apart
<1>5. Whole
  <2>1. SeenTo
    BY <1>2, LoadPoints DEF SeenTo
  <2>2. ~cmd.leftover => HalfWritten /\ CopiesWhole
    BY InitIs DEF HalfWritten, CopiesWhole
  <2> QED
    BY <1>2, <2>1, <2>2 DEF Whole, Clean
<1> QED
  BY <1>1, <1>2, <1>4, <1>5 DEF Filed

\* Every step keeps them so.
LEMMA FiledStep ==
  ASSUME Filed, [Next]_vars
  PROVE  Filed'
<1>1. Contained'
  BY ContainedStep DEF Filed
<1>2. Sound /\ Loading /\ Pathed /\ Joined /\ Once /\ Apart /\ Whole /\ Told
  BY DEF Filed, Contained, Loading
<1>3. CASE Next
  <2>1. Grows
    BY <1>2, <1>3, StepGrows
  <2>2. Told'
    BY <1>2, <2>1 DEF Told, Grows
  <2>3. Once' /\ Apart' /\ Whole'
    BY <1>2, <1>3, OnceStep, ApartStep, WholeStep
  <2> QED
    BY <1>1, <2>2, <2>3 DEF Filed
<1>4. CASE UNCHANGED vars
  <2>1. UNCHANGED <<cat, cmd, opts, fetch, pkgs, disk, cache, stack, visited, faults, unmade>>
    BY <1>4 DEF vars, installVars, pkgVars
  <2>2. Top' = Top
    BY <2>1 DEF Top
  <2>3. Grows
    BY <2>1 DEF Grows
  <2>4. Told'
    BY <1>2, <2>1 DEF Told
  <2>5. Once'
    <3>1. CASE Top.pc \in LoadPcs
      BY <1>2, <2>1, <2>2, <2>3, <3>1, OnceGoes
    <3>2. CASE Top.pc \notin LoadPcs
      BY <1>2, <2>1, <2>2, <2>3, <3>2, OnceStill, LoadPoints
    <3> QED
      BY <3>1, <3>2
  <2>6. Apart' /\ Whole'
    BY <1>2, <2>1, <2>2, <2>3, ApartStill, WholeStill, LoadPoints
  <2> QED
    BY <1>1, <2>4, <2>5, <2>6 DEF Filed
<1> QED
  BY <1>3, <1>4

\* Whatever is installed, with however many threads at once: two threads never
\* write one file, unless by force or for a manifest that names it twice, and
\* what a run saves in the cache has every source, whole, if nothing failed, no
\* source went without a slot and no half a file was found
\* (clib-package.c:946-957, :1544-1550).
THEOREM InstallFilesWhole ==
  ASSUME Pkgs # {}
  PROVE  Spec => []FilesWhole
<1>1. Init => Filed
  BY FiledInit
<1>2. Filed /\ [Next]_vars => Filed'
  BY FiledStep
<1>3. Filed => FilesWhole
  <2>1. SUFFICES ASSUME Filed PROVE OneWriter /\ WholeUnlessFault
    BY DEF FilesWhole
  <2>2. Sound /\ Once /\ Apart /\ Whole /\ Told
    BY <2>1 DEF Filed, Contained
  <2>3. OneWriter
    BY <2>2, WritersApart DEF Told
  <2>4. WholeUnlessFault
    BY <2>2 DEF Whole, Clean, CopiesWhole, WholeUnlessFault
  <2> QED
    BY <2>3, <2>4
<1> QED
  BY <1>1, <1>2, <1>3, PTL DEF Spec
=============================================================================
