----------------------------- MODULE DaemonProofs -----------------------------
(***************************************************************************)
(* Proofs about Daemon, for any number of instances, clients, changes of   *)
(* the file, signals and failing calls.                                    *)
(***************************************************************************)
EXTENDS Daemon, TLAPS, SequenceTheorems, FiniteSetTheorems

\* The states in which an instance has a client.
Busy == {"accepted", "reading", "read", "size", "send", "close"}

\* Where an instance is says whether it has a client.
Occupied ==
  \A i \in Instance :
    /\ pc[i] \in Busy => cur[i] \in Client
    /\ pc[i] \notin Busy \cup {"leave"} => cur[i] = None
    /\ pc[i] = "send" => size[i] > 0

-----------------------------------------------------------------------------
(* Types.                                                                  *)

\* An instance starts without a client (main.c).
LEMMA TypeInit == Init => TypeOK /\ Occupied
<1> SUFFICES ASSUME Init PROVE TypeOK /\ Occupied
  OBVIOUS
<1>1. TypeOK
  BY DaemonAssumption DEF Init, TypeOK, PC, Starting
<1>2. Occupied
  BY DEF Init, Occupied, Busy
<1> QED
  BY <1>1, <1>2

\* No step of an instance, a client or the file leaves the types.
LEMMA TypeNext == TypeOK /\ Occupied /\ [Next]_vars => TypeOK' /\ Occupied'
<1> SUFFICES ASSUME TypeOK, Occupied, [Next]_vars PROVE TypeOK' /\ Occupied'
  OBVIOUS
<1> USE DEF process, startup, clients, world, Step, Goto, PC, Starting, Serving, Busy
<1>1. ASSUME NEW i \in Instance,
             Lock(i) \/ LockFails(i) \/ Truncate(i) \/ WritePid(i) \/ ReadPid(i)
      PROVE  TypeOK' /\ Occupied'
  BY <1>1 DEF Lock, LockFails, Truncate, WritePid, ReadPid, Fail, TypeOK, Occupied
<1>2. ASSUME NEW i \in Instance,
             Daemonize(i) \/ ParentExits(i) \/ Config(i) \/ Unlink(i) \/ Bind(i) \/ Arm(i)
      PROVE  TypeOK' /\ Occupied'
  BY <1>2 DEF Daemonize, ParentExits, Config, Unlink, Bind, Arm, Fail, TypeOK, Occupied
<1>3. ASSUME NEW i \in Instance, Test(i) \/ Call(i) \/ AcceptFails(i) \/ Accepted(i) \/ CallRead(i)
      PROVE  TypeOK' /\ Occupied'
  BY <1>3 DEF Test, Call, AcceptFails, Accepted, CallRead, Fail, TypeOK, Occupied
<1>4. ASSUME NEW i \in Instance, Accept(i) PROVE TypeOK' /\ Occupied'
  <2>1. Head(backlog[i]) \in Client /\ Tail(backlog[i]) \in Seq(Client)
    BY <1>4, HeadTailProperties DEF Accept, TypeOK
  <2> QED
    BY <1>4, <2>1 DEF Accept, TypeOK, Occupied
<1>5. ASSUME NEW i \in Instance, Read(i) \/ SendFails(i) \/ SendToNobody(i)
      PROVE  TypeOK' /\ Occupied'
  BY <1>5 DEF Read, SendFails, SendToNobody, Fail, TypeOK, Occupied
<1>6. ASSUME NEW i \in Instance, FileSize(i) PROVE TypeOK' /\ Occupied'
  BY <1>6 DEF FileSize, Fail, TypeOK, Occupied
<1>7. ASSUME NEW i \in Instance, Send(i) PROVE TypeOK' /\ Occupied'
  <2>1. cur[i] \in Client /\ size[i] \in Sizes
    BY <1>7 DEF Send, TypeOK, Occupied
  <2> QED
    BY <1>7, <2>1 DEF Send, TypeOK, Occupied
<1>8. ASSUME NEW i \in Instance, Close(i) PROVE TypeOK' /\ Occupied'
  <2>1. cur[i] \in Client
    BY <1>8 DEF Close, Occupied
  <2> QED
    BY <1>8, <2>1 DEF Close, Down, TypeOK, Occupied
<1>9. ASSUME NEW i \in Instance, Leave(i) PROVE TypeOK' /\ Occupied'
  BY <1>9 DEF Leave, Down, TypeOK, Occupied
<1>10. ASSUME NEW i \in Instance, Stop(i) PROVE TypeOK' /\ Occupied'
  <2>1. /\ pc[i] \in PC \ {"leave", "exited"} /\ signals[i] \in 0..MaxSignals
        /\ signals[i] < MaxSignals /\ signals' = [signals EXCEPT ![i] = signals[i] + 1]
        /\ UNCHANGED <<forked, size, cur, startup, clients, fsize, changes, seen, failed>>
    BY <1>10 DEF Stop, TypeOK
  <2>2. signals' \in [Instance -> 0..MaxSignals]
    <3>1. signals[i] + 1 \in 0..MaxSignals
      BY <2>1, DaemonAssumption
    <3> QED
      BY <2>1, <3>1 DEF TypeOK
  <2>3. PICK to \in {"leave", "close", pc[i]} :
          /\ pc' = [pc EXCEPT ![i] = to]
          /\ to \in Busy => pc[i] \in Busy
          /\ to \notin Busy \cup {"leave"} => to = pc[i]
          /\ to = "send" => pc[i] = "send"
    BY <1>10, <2>1 DEF Stop, Interrupted
  <2>4. run_flag' \in [Instance -> BOOLEAN] /\ missed' \in [Instance -> BOOLEAN]
    BY <1>10 DEF Stop, TypeOK
  <2>5. pc' \in [Instance -> PC]
    BY <2>1, <2>3 DEF TypeOK
  <2>6. TypeOK'
    BY <2>1, <2>2, <2>4, <2>5 DEF TypeOK
  <2>7. Occupied'
    BY <2>1, <2>3 DEF TypeOK, Occupied
  <2> QED
    BY <2>6, <2>7
<1>11. ASSUME NEW c \in Client, Connect(c) PROVE TypeOK' /\ Occupied'
  <2>1. name \in Instance /\ Append(backlog[name], c) \in Seq(Client)
    BY <1>11, AppendProperties DEF Connect, TypeOK
  <2> QED
    BY <1>11, <2>1 DEF Connect, TypeOK, Occupied
<1>12. ASSUME NEW c \in Client, Say(c) \/ HangUp(c) PROVE TypeOK' /\ Occupied'
  <2>1. CASE Say(c)
    <3>1. {fsize} \in SUBSET Sizes
      BY DEF TypeOK
    <3> QED
      BY <2>1, <3>1 DEF Say, TypeOK, Occupied
  <2>2. CASE HangUp(c)
    BY <2>2 DEF HangUp, TypeOK, Occupied
  <2> QED
    BY <1>12, <2>1, <2>2
<1>13. CASE Resize
  BY <1>13, DaemonAssumption DEF Resize, TypeOK, Occupied
<1>14. CASE UNCHANGED vars
  BY <1>14 DEF vars, TypeOK, Occupied
<1> QED
  BY <1>1, <1>2, <1>3, <1>4, <1>5, <1>6, <1>7, <1>8, <1>9, <1>10, <1>11, <1>12, <1>13, <1>14
  DEF Next, Main, Startup, Serve

-----------------------------------------------------------------------------
(* What a client is told.                                                  *)

\* A client is at one place of one queue, or is being served by one instance.
Queues ==
  \A i, k \in Instance :
    /\ \A n \in DOMAIN backlog[i], m \in DOMAIN backlog[k] :
         backlog[i][n] = backlog[k][m] => i = k /\ n = m
    /\ \A n \in DOMAIN backlog[i] : backlog[i][n] # cur[k]
    /\ cur[i] = cur[k] /\ cur[i] # None => i = k

\* Whoever waits has connected, and has not been told anything.
Joined ==
  \A i \in Instance :
    /\ cur[i] # None => link[cur[i]] # "none"
    /\ \A n \in DOMAIN backlog[i] : link[backlog[i][n]] # "none" /\ got[backlog[i][n]] = {}
    /\ backlog[i] # << >> => pc[i] \in Serving \cup {"arm", "leave"}

\* A reason why a client may be told nothing, whichever client it is; and of one.
Reason ==
  \/ failed \cap {"accept", "open", "send"} # {}
  \/ \E i \in Instance : signals[i] > 0
  \/ \E d \in Client : link[d] = "left"
Excused(c) == 0 \in seen[c] \/ Reason
Unanswered(c) == got[c] = {} /\ said[c] = "line"

\* What an instance knows of the client it serves.
KnowsOf(i) ==
  /\ pc[i] \in Busy \ {"close"} => got[cur[i]] = {}
  /\ pc[i] \in {"size", "send"} => said[cur[i]] # None
  /\ pc[i] = "send" => size[i] \in seen[cur[i]]
  /\ pc[i] = "close" /\ said[cur[i]] = None => Reason
  /\ pc[i] = "close" /\ Unanswered(cur[i]) => Excused(cur[i])
  /\ pc[i] = "leave" => (backlog[i] = << >> /\ cur[i] = None) \/ Reason
  /\ ~run_flag[i] => signals[i] > 0
Knows == \A i \in Instance : KnowsOf(i)

\* What a client has seen and got, as far as it has said something.
AskedOf(c) ==
  /\ link[c] = "none" => said[c] = None
  /\ said[c] = None => seen[c] = {} /\ got[c] = {}
  /\ said[c] # None => fsize \in seen[c]
  /\ got[c] = {} \/ \E z \in seen[c] : got[c] = {z}
  /\ link[c] = "down" /\ said[c] = None => Reason
  /\ link[c] = "down" /\ Unanswered(c) => Excused(c)
Asked == \A c \in Client : AskedOf(c)

\* The inductive invariant.
Attentive == TypeOK /\ Occupied /\ Queues /\ Joined /\ Knows /\ Asked

\* The first of a queue goes, and the others move up.
LEMMA QueueTail ==
  ASSUME NEW s \in Seq(Client), s # << >>
  PROVE  /\ Head(s) = s[1] /\ 1 \in DOMAIN s
         /\ \A n \in DOMAIN Tail(s) : n + 1 \in DOMAIN s /\ Tail(s)[n] = s[n + 1] /\ n \in Nat \ {0}
<1>1. Len(s) \in Nat \ {0} /\ DOMAIN s = 1..Len(s)
  BY EmptySeq, LenProperties
<1>2. /\ Tail(s) \in Seq(Client) /\ Len(Tail(s)) = Len(s) - 1
      /\ \A i \in 1..Len(Tail(s)) : Tail(s)[i] = s[i + 1]
  BY HeadTailProperties
<1>3. DOMAIN Tail(s) = 1..Len(s)-1
  BY <1>2, LenProperties
<1> QED
  BY <1>1, <1>2, <1>3

\* And a client goes to the end of a queue.
LEMMA QueueAppend ==
  ASSUME NEW s \in Seq(Client), NEW c \in Client
  PROVE  \A n \in DOMAIN Append(s, c) :
           \/ n \in DOMAIN s /\ Append(s, c)[n] = s[n]
           \/ n = Len(s) + 1 /\ Append(s, c)[n] = c
<1>1. Len(s) \in Nat /\ DOMAIN s = 1..Len(s)
  BY LenProperties
<1>2. /\ Append(s, c) \in Seq(Client) /\ Len(Append(s, c)) = Len(s) + 1
      /\ \A i \in 1..Len(s) : Append(s, c)[i] = s[i]
      /\ Append(s, c)[Len(s) + 1] = c
  BY AppendProperties
<1>3. DOMAIN Append(s, c) = 1..Len(s)+1
  BY <1>2, LenProperties
<1> QED
  BY <1>1, <1>2, <1>3

\* No client is queued twice, or served while it is queued or by two instances.
LEMMA QueuesNext ==
  TypeOK /\ Occupied /\ Queues /\ Joined /\ [Next]_vars => Queues'
<1> SUFFICES ASSUME TypeOK, Occupied, Queues, Joined, [Next]_vars PROVE Queues'
  OBVIOUS
<1>1. ASSUME UNCHANGED <<backlog, cur>> PROVE Queues'
  BY <1>1 DEF Queues
<1>2. ASSUME NEW i \in Instance, Startup(i) \/ ParentExits(i) \/ Stop(i) PROVE Queues'
  BY <1>1, <1>2 DEF Startup, Lock, LockFails, Truncate, WritePid, ReadPid, Daemonize, Config, Unlink,
                    Bind, Arm, ParentExits, Stop, process, clients
<1>3. ASSUME NEW i \in Instance,
             \/ Test(i) \/ Call(i) \/ AcceptFails(i) \/ Accepted(i) \/ CallRead(i) \/ Read(i)
             \/ FileSize(i) \/ Send(i) \/ SendFails(i) \/ SendToNobody(i)
      PROVE  Queues'
  BY <1>1, <1>3 DEF Test, Call, AcceptFails, Accepted, CallRead, Read, FileSize, Send, SendFails, SendToNobody,
                    clients
<1>4. ASSUME NEW i \in Instance, Accept(i) PROVE Queues'
  <2>1. /\ backlog[i] # << >> /\ backlog[i] \in Seq(Client) /\ backlog \in [Instance -> Seq(Client)]
        /\ cur' = [cur EXCEPT ![i] = Head(backlog[i])] /\ cur \in [Instance -> Client \cup {None}]
        /\ backlog' = [backlog EXCEPT ![i] = Tail(backlog[i])] /\ cur[i] = None
    BY <1>4 DEF Accept, Step, TypeOK, Occupied, Busy
  <2>2. /\ Head(backlog[i]) = backlog[i][1] /\ 1 \in DOMAIN backlog[i]
        /\ \A n \in DOMAIN Tail(backlog[i]) : /\ n + 1 \in DOMAIN backlog[i] /\ n \in Nat \ {0}
                                              /\ Tail(backlog[i])[n] = backlog[i][n + 1]
    BY <2>1, QueueTail
  <2>3. \A k \in Instance : /\ k # i => backlog'[k] = backlog[k] /\ cur'[k] = cur[k]
                            /\ k = i => backlog'[k] = Tail(backlog[k]) /\ cur'[k] = backlog[k][1]
    BY <2>1, <2>2
  <2>4. ASSUME NEW k \in Instance, NEW n \in DOMAIN backlog'[k]
        PROVE  \E o \in DOMAIN backlog[k] : /\ backlog'[k][n] = backlog[k][o]
                                            /\ o = IF k = i THEN n + 1 ELSE n
                                            /\ k = i => o # 1 /\ n \in Nat
    <3>1. CASE k = i
      <4>1. backlog'[k] = Tail(backlog[i]) /\ n \in DOMAIN Tail(backlog[i])
        BY <2>3, <3>1
      <4>2. /\ n + 1 \in DOMAIN backlog[i] /\ n \in Nat \ {0}
            /\ Tail(backlog[i])[n] = backlog[i][n + 1]
        BY <2>2, <4>1
      <4>3. PICK o : o = n + 1
        OBVIOUS
      <4>4. o # 1 /\ o \in DOMAIN backlog[k] /\ backlog'[k][n] = backlog[k][o] /\ n \in Nat
        BY <3>1, <4>1, <4>2, <4>3
      <4> QED
        BY <3>1, <4>3, <4>4
    <3>2. CASE k # i
      BY <2>3, <3>2
    <3> QED
      BY <3>1, <3>2
  <2>5. ASSUME NEW k \in Instance, NEW l \in Instance,
               NEW n \in DOMAIN backlog'[k], NEW m \in DOMAIN backlog'[l],
               backlog'[k][n] = backlog'[l][m]
        PROVE  k = l /\ n = m
    <3>1. PICK o \in DOMAIN backlog[k] : /\ backlog'[k][n] = backlog[k][o]
                                         /\ o = IF k = i THEN n + 1 ELSE n
                                         /\ k = i => o # 1 /\ n \in Nat
      BY <2>4
    <3>2. PICK p \in DOMAIN backlog[l] : /\ backlog'[l][m] = backlog[l][p]
                                         /\ p = IF l = i THEN m + 1 ELSE m
                                         /\ l = i => p # 1 /\ m \in Nat
      BY <2>4
    <3>3. backlog[k][o] = backlog[l][p]
      BY <2>5, <3>1, <3>2
    <3>4. k = l /\ o = p
      BY <3>3 DEF Queues
    <3> QED
      BY <3>1, <3>2, <3>4
  <2>6. ASSUME NEW k \in Instance, NEW l \in Instance, NEW n \in DOMAIN backlog'[k]
        PROVE  backlog'[k][n] # cur'[l]
    <3>1. PICK o \in DOMAIN backlog[k] : backlog'[k][n] = backlog[k][o] /\ (k = i => o # 1)
      BY <2>4
    <3>2. CASE l = i
      BY <2>2, <2>3, <3>1, <3>2 DEF Queues
    <3>3. CASE l # i
      BY <2>3, <3>1, <3>3 DEF Queues
    <3> QED
      BY <3>2, <3>3
  <2>7. ASSUME NEW k \in Instance, NEW l \in Instance, cur'[k] = cur'[l], cur'[k] # None
        PROVE  k = l
    BY <2>2, <2>3, <2>7 DEF Queues
  <2> QED
    BY <2>5, <2>6, <2>7 DEF Queues
<1>5. ASSUME NEW i \in Instance, Close(i) \/ Leave(i) PROVE Queues'
  <2>1. /\ cur' = [cur EXCEPT ![i] = None] /\ cur \in [Instance -> Client \cup {None}]
        /\ backlog' = backlog \/ backlog' = [backlog EXCEPT ![i] = << >>]
        /\ backlog \in [Instance -> Seq(Client)]
    BY <1>5 DEF Close, Leave, TypeOK
  <2>2. \A k \in Instance : /\ cur'[k] = cur[k] \/ cur'[k] = None
                            /\ backlog'[k] = backlog[k] \/ backlog'[k] = << >>
    BY <2>1
  <2>3. \A k \in Instance : \A n \in DOMAIN backlog'[k] : backlog'[k] = backlog[k]
    BY <2>2
  <2>4. \A k \in Instance : \A n \in DOMAIN backlog[k] : backlog[k][n] # None
    BY DaemonAssumption DEF TypeOK
  <2> QED
    BY <2>2, <2>3, <2>4 DEF Queues
<1>6. ASSUME NEW c \in Client, Connect(c) PROVE Queues'
  <2>1. /\ name \in Instance /\ backlog' = [backlog EXCEPT ![name] = Append(backlog[name], c)]
        /\ cur' = cur /\ link[c] = "none" /\ backlog \in [Instance -> Seq(Client)]
    BY <1>6 DEF Connect, process, TypeOK
  <2>2. /\ \A k \in Instance : cur[k] # c
        /\ \A k \in Instance : \A n \in DOMAIN backlog[k] : backlog[k][n] # c
    <3>1. ASSUME NEW k \in Instance, cur[k] = c PROVE FALSE
      <4>1. c # None
        BY DaemonAssumption
      <4> QED
        BY <2>1, <3>1, <4>1 DEF Joined
    <3>2. ASSUME NEW k \in Instance, NEW n \in DOMAIN backlog[k], backlog[k][n] = c PROVE FALSE
      BY <2>1, <3>2 DEF Joined
    <3> QED
      BY <3>1, <3>2
  <2>3. ASSUME NEW k \in Instance, NEW n \in DOMAIN backlog'[k]
        PROVE  \/ n \in DOMAIN backlog[k] /\ backlog'[k][n] = backlog[k][n]
               \/ k = name /\ n = Len(backlog[k]) + 1 /\ backlog'[k][n] = c
    <3>1. CASE k = name
      <4>1. backlog'[k] = Append(backlog[k], c)
        BY <2>1, <3>1
      <4> QED
        BY <2>1, <3>1, <4>1, QueueAppend
    <3>2. CASE k # name
      BY <2>1, <3>2
    <3> QED
      BY <3>1, <3>2
  <2> QED
    BY <2>1, <2>2, <2>3 DEF Queues
<1>7. ASSUME NEW c \in Client, Say(c) \/ HangUp(c) PROVE Queues'
  BY <1>1, <1>7 DEF Say, HangUp, process
<1>8. CASE Resize \/ UNCHANGED vars
  BY <1>1, <1>8 DEF Resize, vars, process, clients
<1> QED
  BY <1>2, <1>3, <1>4, <1>5, <1>6, <1>7, <1>8 DEF Next, Main, Serve

\* A reason stays one.
LEMMA ReasonStays == TypeOK /\ Reason /\ [Next]_vars => Reason'
<1> SUFFICES ASSUME TypeOK, Reason, [Next]_vars PROVE Reason'
  OBVIOUS
<1>1. ASSUME failed \subseteq failed',
             \A i \in Instance : signals[i] > 0 => signals'[i] > 0,
             \A c \in Client : link[c] = "left" => link'[c] = "left"
      PROVE  Reason'
  BY <1>1 DEF Reason
<1>2. ASSUME NEW i \in Instance, Startup(i) PROVE Reason'
  BY <1>1, <1>2 DEF Startup, Lock, LockFails, Truncate, WritePid, ReadPid, Daemonize, Config, Unlink,
                    Bind, Arm, Fail, clients, world
<1>3. ASSUME NEW i \in Instance,
             \/ Test(i) \/ Call(i) \/ Accept(i) \/ AcceptFails(i) \/ Accepted(i) \/ CallRead(i) \/ Read(i)
             \/ FileSize(i) \/ Send(i) \/ SendFails(i) \/ SendToNobody(i) \/ ParentExits(i)
      PROVE  Reason'
  BY <1>1, <1>3 DEF Test, Call, Accept, AcceptFails, Accepted, CallRead, Read, FileSize, Send, SendFails,
                    SendToNobody, ParentExits, Fail, clients, world
<1>4. ASSUME NEW i \in Instance, Close(i) \/ Leave(i) PROVE Reason'
  <2>1. \A c \in Client : link[c] = "left" => link'[c] = "left"
    BY <1>4 DEF Close, Leave, Down, TypeOK
  <2> QED
    BY <1>1, <1>4, <2>1 DEF Close, Leave, world
<1>5. ASSUME NEW i \in Instance, Stop(i) PROVE Reason'
  <2>1. signals' = [signals EXCEPT ![i] = signals[i] + 1] /\ signals \in [Instance -> 0..MaxSignals]
        /\ failed' = failed /\ link' = link
    BY <1>5 DEF Stop, TypeOK, clients
  <2>2. signals'[i] > 0
    BY <2>1
  <2> QED
    BY <2>2 DEF Reason
<1>6. ASSUME NEW c \in Client, Connect(c) \/ Say(c) \/ HangUp(c) PROVE Reason'
  <2>1. \A d \in Client : link[d] = "left" => link'[d] = "left"
    BY <1>6 DEF Connect, Say, HangUp, TypeOK
  <2> QED
    BY <1>1, <1>6, <2>1 DEF Connect, Say, HangUp, world
<1>7. CASE Resize \/ UNCHANGED vars
  BY <1>1, <1>7 DEF Resize, vars, clients, world
<1> QED
  BY <1>2, <1>3, <1>4, <1>5, <1>6, <1>7 DEF Next, Main, Serve

\* A client that waits stays connected, and is told nothing before its turn.
LEMMA JoinedNext ==
  TypeOK /\ Occupied /\ Queues /\ Joined /\ Asked /\ [Next]_vars => Joined'
<1> SUFFICES ASSUME TypeOK, Occupied, Queues, Joined, Asked, [Next]_vars PROVE Joined'
  OBVIOUS
<1> USE DEF Step, Goto, Serving
<1>1. ASSUME UNCHANGED <<backlog, cur, link, got>>,
             \A i \in Instance : pc[i] \in Serving \cup {"arm", "leave"} =>
                                  pc'[i] \in Serving \cup {"arm", "leave"}
      PROVE  Joined'
  BY <1>1 DEF Joined
<1>2. ASSUME NEW i \in Instance, Startup(i) PROVE Joined'
  BY <1>1, <1>2 DEF Startup, Lock, LockFails, Truncate, WritePid, ReadPid, Daemonize, Config, Unlink,
                    Bind, Arm, clients, TypeOK
<1>3. ASSUME NEW i \in Instance,
             \/ Test(i) \/ Call(i) \/ AcceptFails(i) \/ Accepted(i) \/ CallRead(i) \/ Read(i)
             \/ FileSize(i) \/ SendFails(i) \/ SendToNobody(i)
      PROVE  Joined'
  BY <1>1, <1>3 DEF Test, Call, AcceptFails, Accepted, CallRead, Read, FileSize, SendFails, SendToNobody,
                    clients, TypeOK
<1>4. ASSUME NEW i \in Instance, ParentExits(i) \/ Stop(i) PROVE Joined'
  BY <1>1, <1>4 DEF ParentExits, Stop, Interrupted, clients, process, TypeOK
<1>5. ASSUME NEW i \in Instance, Accept(i) PROVE Joined'
  <2>1. /\ backlog[i] # << >> /\ backlog[i] \in Seq(Client) /\ backlog \in [Instance -> Seq(Client)]
        /\ cur' = [cur EXCEPT ![i] = Head(backlog[i])] /\ cur \in [Instance -> Client \cup {None}]
        /\ backlog' = [backlog EXCEPT ![i] = Tail(backlog[i])]
        /\ pc' = [pc EXCEPT ![i] = "accepted"] /\ pc \in [Instance -> PC]
        /\ link' = link /\ got' = got
    BY <1>5 DEF Accept, TypeOK
  <2>2. /\ Head(backlog[i]) = backlog[i][1] /\ 1 \in DOMAIN backlog[i]
        /\ \A n \in DOMAIN Tail(backlog[i]) : /\ n + 1 \in DOMAIN backlog[i]
                                              /\ Tail(backlog[i])[n] = backlog[i][n + 1]
    BY <2>1, QueueTail
  <2>3. ASSUME NEW k \in Instance, cur'[k] # None PROVE link[cur'[k]] # "none"
    BY <2>1, <2>2, <2>3 DEF Joined
  <2>4. ASSUME NEW k \in Instance, NEW n \in DOMAIN backlog'[k]
        PROVE  \E o \in DOMAIN backlog[k] : backlog'[k][n] = backlog[k][o]
    BY <2>1, <2>2
  <2>5. \A k \in Instance : backlog'[k] # << >> /\ k # i => backlog[k] # << >> /\ pc'[k] = pc[k]
    BY <2>1
  <2>6. pc'[i] = "accepted"
    BY <2>1
  <2>7. ASSUME NEW k \in Instance, NEW n \in DOMAIN backlog'[k]
        PROVE  link[backlog'[k][n]] # "none" /\ got[backlog'[k][n]] = {}
    BY <2>4 DEF Joined
  <2> QED
    BY <2>1, <2>3, <2>5, <2>6, <2>7 DEF Joined
<1>6. ASSUME NEW i \in Instance, Send(i) PROVE Joined'
  <2>1. /\ backlog' = backlog /\ cur' = cur /\ link' = link /\ pc' = [pc EXCEPT ![i] = "close"]
        /\ pc \in [Instance -> PC] /\ got \in [Client -> SUBSET Sizes]
        /\ got' = [got EXCEPT ![cur[i]] = got[cur[i]] \cup {size[i]}]
    BY <1>6 DEF Send, TypeOK
  <2>2. \A k \in Instance : \A n \in DOMAIN backlog[k] : got'[backlog[k][n]] = got[backlog[k][n]]
    BY <2>1 DEF Queues, TypeOK
  <2>3. \A k \in Instance : cur'[k] # None => link'[cur'[k]] # "none"
    BY <2>1 DEF Joined
  <2>4. \A k \in Instance : \A n \in DOMAIN backlog'[k] :
            link'[backlog'[k][n]] # "none" /\ got'[backlog'[k][n]] = {}
    BY <2>1, <2>2 DEF Joined
  <2>5. \A k \in Instance : pc'[k] = pc[k] \/ pc'[k] = "close"
    BY <2>1
  <2>6. \A k \in Instance : backlog'[k] # << >> => pc'[k] \in Serving \cup {"arm", "leave"}
    BY <2>1, <2>5 DEF Joined
  <2> QED
    BY <2>3, <2>4, <2>6 DEF Joined
<1>7. ASSUME NEW i \in Instance, Close(i) PROVE Joined'
  <2>1. /\ backlog' = backlog /\ cur' = [cur EXCEPT ![i] = None] /\ got' = got
        /\ cur \in [Instance -> Client \cup {None}]
        /\ pc' = [pc EXCEPT ![i] = "test"] /\ pc \in [Instance -> PC]
    BY <1>7 DEF Close, TypeOK
  <2>2. \A c \in Client : link[c] # "none" => link'[c] # "none"
    BY <1>7 DEF Close, Down, TypeOK
  <2>3. \A k \in Instance : cur'[k] # None => cur'[k] = cur[k] /\ cur[k] \in Client
    BY <2>1
  <2>4. \A k \in Instance : \A n \in DOMAIN backlog[k] : backlog[k][n] \in Client
    BY DEF TypeOK
  <2> QED
    BY <2>1, <2>2, <2>3, <2>4 DEF Joined
<1>8. ASSUME NEW i \in Instance, Leave(i) PROVE Joined'
  <2>1. /\ backlog' = [backlog EXCEPT ![i] = << >>] /\ cur' = [cur EXCEPT ![i] = None] /\ got' = got
        /\ cur \in [Instance -> Client \cup {None}] /\ backlog \in [Instance -> Seq(Client)]
        /\ pc' = [pc EXCEPT ![i] = "exited"] /\ pc \in [Instance -> PC]
    BY <1>8 DEF Leave, TypeOK
  <2>2. \A c \in Client : link[c] # "none" => link'[c] # "none"
    BY <1>8 DEF Leave, Down, TypeOK
  <2>3. \A k \in Instance : cur'[k] # None => cur'[k] = cur[k] /\ cur[k] \in Client
    BY <2>1
  <2>4. \A k \in Instance : \A n \in DOMAIN backlog[k] : backlog[k][n] \in Client
    BY DEF TypeOK
  <2>5. backlog'[i] = << >> /\ \A k \in Instance : k # i => backlog'[k] = backlog[k] /\ pc'[k] = pc[k]
    BY <2>1
  <2>6. ASSUME NEW k \in Instance, NEW n \in DOMAIN backlog'[k]
        PROVE  link'[backlog'[k][n]] # "none" /\ got[backlog'[k][n]] = {}
    <3>1. DOMAIN backlog'[i] = {}
      BY <2>5
    <3>2. k # i
      BY <3>1
    <3> QED
      BY <2>2, <2>4, <2>5, <3>2 DEF Joined
  <2>7. ASSUME NEW k \in Instance, cur'[k] # None PROVE link'[cur'[k]] # "none"
    BY <2>2, <2>3, <2>7 DEF Joined
  <2>8. ASSUME NEW k \in Instance, backlog'[k] # << >> PROVE pc'[k] \in Serving \cup {"arm", "leave"}
    BY <2>5, <2>8 DEF Joined
  <2> QED
    BY <2>1, <2>6, <2>7, <2>8 DEF Joined
<1>9. ASSUME NEW c \in Client, Connect(c) PROVE Joined'
  <2>1. /\ name \in Instance /\ backlog' = [backlog EXCEPT ![name] = Append(backlog[name], c)]
        /\ cur' = cur /\ pc' = pc /\ got' = got /\ link[c] = "none" /\ link' = [link EXCEPT ![c] = "up"]
        /\ link \in [Client -> {"none", "up", "left", "down"}]
        /\ backlog \in [Instance -> Seq(Client)] /\ pc[name] \in Serving \cup {"arm"}
    BY <1>9 DEF Connect, process, TypeOK
  <2>2. got[c] = {}
    BY <2>1 DEF Asked, AskedOf
  <2>3. ASSUME NEW k \in Instance, NEW n \in DOMAIN backlog'[k]
        PROVE  \/ n \in DOMAIN backlog[k] /\ backlog'[k][n] = backlog[k][n]
               \/ backlog'[k][n] = c
    BY <2>1, QueueAppend
  <2>4. \A d \in Client : link[d] # "none" => link'[d] # "none"
    BY <2>1
  <2>5. link'[c] # "none"
    BY <2>1
  <2>6. \A k \in Instance : \A n \in DOMAIN backlog[k] : backlog[k][n] \in Client
    BY DEF TypeOK
  <2>7. ASSUME NEW k \in Instance, NEW n \in DOMAIN backlog'[k]
        PROVE  link'[backlog'[k][n]] # "none" /\ got[backlog'[k][n]] = {}
    BY <2>2, <2>3, <2>4, <2>5, <2>6 DEF Joined
  <2>8. ASSUME NEW k \in Instance, cur[k] # None PROVE link'[cur[k]] # "none"
    BY <2>4, <2>8 DEF Joined, TypeOK
  <2>9. \A k \in Instance : backlog'[k] # << >> => backlog[k] # << >> \/ k = name
    BY <2>1
  <2>10. got' = got /\ cur' = cur
    BY <2>1
  <2>11. ASSUME NEW k \in Instance, backlog'[k] # << >> PROVE pc'[k] \in Serving \cup {"arm", "leave"}
    BY <2>1, <2>9, <2>11 DEF Joined
  <2> QED
    BY <2>7, <2>8, <2>10, <2>11 DEF Joined
<1>10. ASSUME NEW c \in Client, Say(c) \/ HangUp(c) PROVE Joined'
  <2>1. backlog' = backlog /\ cur' = cur /\ got' = got /\ pc' = pc
    BY <1>10 DEF Say, HangUp, process
  <2>2. \A d \in Client : link[d] # "none" => link'[d] # "none"
    BY <1>10 DEF Say, HangUp, TypeOK
  <2>3. \A k \in Instance : \A n \in DOMAIN backlog[k] : backlog[k][n] \in Client
    BY DEF TypeOK
  <2>4. \A k \in Instance : cur[k] # None => cur[k] \in Client
    BY DEF TypeOK
  <2> QED
    BY <2>1, <2>2, <2>3, <2>4 DEF Joined
<1>11. CASE Resize \/ UNCHANGED vars
  BY <1>1, <1>11 DEF Resize, vars, process, clients
<1> QED
  BY <1>2, <1>3, <1>4, <1>5, <1>6, <1>7, <1>8, <1>9, <1>10, <1>11 DEF Next, Main, Serve

\* An instance's step leaves the others where they are.
Others(i) ==
  \A k \in Instance : k # i =>
    /\ pc'[k] = pc[k] /\ cur'[k] = cur[k] /\ size'[k] = size[k] /\ run_flag'[k] = run_flag[k]
    /\ signals'[k] = signals[k] /\ backlog'[k] = backlog[k]

\* They know what they knew, as it tells nobody but its own client anything.
LEMMA OthersKnow ==
  ASSUME TypeOK, Occupied, Queues, Knows, [Next]_vars, NEW i \in Instance, Others(i),
         said' = said, seen' = seen,
         \A c \in Client : c # cur[i] => got'[c] = got[c],
         cur[i] = None => got' = got,
         KnowsOf(i)'
  PROVE  Knows'
<1> SUFFICES ASSUME NEW k \in Instance, k # i PROVE KnowsOf(k)'
  BY DEF Knows
<1>1. KnowsOf(k) /\ (pc[k] \in Busy => cur[k] \in Client)
  BY DEF Knows, Occupied
<1>2. Reason => Reason'
  BY ReasonStays
<1>3. /\ pc'[k] = pc[k] /\ cur'[k] = cur[k] /\ size'[k] = size[k] /\ run_flag'[k] = run_flag[k]
      /\ signals'[k] = signals[k] /\ backlog'[k] = backlog[k]
  BY DEF Others
<1>4. pc[k] \in Busy => got'[cur[k]] = got[cur[k]]
  <2>1. cur[k] \in Client => cur[k] # None
    BY DaemonAssumption
  <2> QED
    BY <1>1, <2>1 DEF Queues
<1>5. pc[k] \in Busy => Unanswered(cur[k])' = Unanswered(cur[k]) /\ (Excused(cur[k]) => Excused(cur[k])')
  BY <1>2, <1>3, <1>4 DEF Unanswered, Excused
<1> QED
  BY <1>1, <1>2, <1>3, <1>4, <1>5 DEF KnowsOf, Busy

\* What an instance does before it serves tells it nothing.
LEMMA KnowsStartup ==
  ASSUME TypeOK, Occupied, Queues, Joined, Knows, [Next]_vars, NEW i \in Instance,
         Startup(i) \/ ParentExits(i)
  PROVE  Knows'
<1>1. /\ said' = said /\ seen' = seen /\ got' = got /\ cur' = cur /\ backlog' = backlog
      /\ signals' = signals /\ size' = size
  BY DEF Startup, Lock, LockFails, Truncate, WritePid, ReadPid, Daemonize, Config, Unlink, Bind, Arm,
         ParentExits, process, clients, world
<1>2. Others(i) /\ (run_flag'[i] = run_flag[i] \/ run_flag'[i])
  BY <1>1 DEF Startup, Lock, LockFails, Truncate, WritePid, ReadPid, Daemonize, Config, Unlink, Bind, Arm,
         ParentExits, process, Others, Step, Goto, TypeOK
<1>3. \/ pc'[i] = pc[i]
      \/ pc[i] \in Starting /\ pc'[i] \in Starting \cup {"test"}
      \/ pc[i] \in Starting \ {"arm"} /\ pc'[i] = "leave"
  BY DEF Startup, Lock, LockFails, Truncate, WritePid, ReadPid, Daemonize, Config, Unlink, Bind, Arm,
         ParentExits, process, Step, Goto, TypeOK, Starting
<1>4. KnowsOf(i) /\ (Reason => Reason')
  BY ReasonStays DEF Knows
<1>5. KnowsOf(i)'
  <2>1. CASE pc'[i] = pc[i]
    BY <1>1, <1>2, <1>4, <2>1 DEF KnowsOf, Unanswered, Excused
  <2>2. CASE pc[i] \in Starting /\ pc'[i] \in Starting \cup {"test"}
    BY <1>1, <1>2, <1>4, <2>2 DEF KnowsOf, Starting, Busy
  <2>3. CASE pc[i] \in Starting \ {"arm"} /\ pc'[i] = "leave"
    <3>1. backlog[i] = << >> /\ cur[i] = None
      BY <2>3 DEF Joined, Occupied, Starting, Serving, Busy
    <3> QED
      BY <1>1, <1>2, <1>4, <2>3, <3>1 DEF KnowsOf, Busy
  <2> QED
    BY <1>3, <2>1, <2>2, <2>3
<1> QED
  BY <1>1, <1>2, <1>5, OthersKnow

\* The loop, but for what it does with a client.
LEMMA KnowsLoop ==
  ASSUME TypeOK, Occupied, Queues, Joined, Knows, [Next]_vars, NEW i \in Instance,
         Test(i) \/ Call(i) \/ Accept(i) \/ AcceptFails(i) \/ Accepted(i) \/ CallRead(i)
  PROVE  Knows'
<1>1. said' = said /\ seen' = seen /\ got' = got /\ link' = link /\ signals' = signals
      /\ size' = size /\ run_flag' = run_flag
  BY DEF Test, Call, Accept, AcceptFails, Accepted, CallRead, clients, world
<1>2. Others(i)
  BY <1>1 DEF Test, Call, Accept, AcceptFails, Accepted, CallRead, clients, Others, Step, Goto, TypeOK
<1>3. /\ KnowsOf(i) /\ (Reason => Reason')
      /\ pc \in [Instance -> PC] /\ signals \in [Instance -> 0..MaxSignals]
  BY ReasonStays DEF Knows, TypeOK
<1>4. KnowsOf(i)'
  <2>1. CASE Test(i) \/ Call(i)
    <3>1. cur' = cur /\ backlog' = backlog
          /\ (pc'[i] \in {"calling", "accept"} \/ (pc'[i] = "leave" /\ ~run_flag[i]))
      BY <1>3, <2>1 DEF Test, Call, clients, Step, Goto
    <3>2. ~run_flag[i] => Reason'
      BY <1>1, <1>3 DEF KnowsOf, Reason
    <3> QED
      BY <1>1, <1>3, <3>1, <3>2 DEF KnowsOf, Busy
  <2>2. CASE Accept(i)
    <3>1. backlog[i] # << >> /\ cur'[i] = Head(backlog[i]) /\ pc'[i] = "accepted"
      BY <1>3, <2>2 DEF Accept, Step, Goto, TypeOK
    <3>2. got[Head(backlog[i])] = {}
      <4>1. backlog[i] \in Seq(Client)
        BY DEF TypeOK
      <4>2. Head(backlog[i]) = backlog[i][1] /\ 1 \in DOMAIN backlog[i]
        BY <3>1, <4>1, QueueTail
      <4> QED
        BY <4>2 DEF Joined
    <3> QED
      BY <1>1, <1>3, <3>1, <3>2 DEF KnowsOf, Busy
  <2>3. CASE AcceptFails(i)
    <3>1. pc'[i] = "leave" /\ "accept" \in failed'
      BY <1>3, <2>3 DEF AcceptFails, Step, Goto, Fail
    <3> QED
      BY <1>1, <1>3, <3>1 DEF KnowsOf, Busy, Reason
  <2>4. CASE Accepted(i)
    <3>1. cur' = cur /\ backlog' = backlog /\ pc[i] = "accepted"
          /\ (pc'[i] = "reading" \/ (pc'[i] = "leave" /\ ~run_flag[i]))
      BY <1>3, <2>4 DEF Accepted, clients, Step, Goto
    <3>2. ~run_flag[i] => Reason'
      BY <1>1, <1>3 DEF KnowsOf, Reason
    <3> QED
      BY <1>1, <1>3, <3>1, <3>2 DEF KnowsOf, Busy
  <2>5. CASE CallRead(i)
    <3>1. cur' = cur /\ backlog' = backlog /\ pc[i] = "reading" /\ pc'[i] = "read"
      BY <1>3, <2>5 DEF CallRead, clients, Step, Goto
    <3> QED
      BY <1>1, <1>3, <3>1 DEF KnowsOf, Busy
  <2> QED
    BY <2>1, <2>2, <2>3, <2>4, <2>5
<1> QED
  BY <1>1, <1>2, <1>4, OthersKnow

\* What it does with its client: the file's size is what the client has seen, and
\* without one there is a reason.
LEMMA KnowsServe ==
  ASSUME TypeOK, Occupied, Queues, Joined, Knows, Asked, [Next]_vars, NEW i \in Instance,
         \/ Read(i) \/ FileSize(i) \/ Send(i) \/ SendFails(i) \/ SendToNobody(i) \/ Close(i)
         \/ Leave(i)
  PROVE  Knows'
<1>1. said' = said /\ seen' = seen /\ signals' = signals /\ run_flag' = run_flag
  BY DEF Read, FileSize, Send, SendFails, SendToNobody, Close, Leave, clients, world
<1>2. Others(i)
  BY <1>1 DEF Read, FileSize, Send, SendFails, SendToNobody, Close, Leave, clients, Others, Step, Goto,
              TypeOK
<1>3. /\ KnowsOf(i) /\ (Reason => Reason') /\ pc \in [Instance -> PC] /\ cur[i] \in Client \cup {None}
      /\ (cur[i] \in Client => AskedOf(cur[i])) /\ fsize \in Sizes /\ (pc[i] \in Busy => cur[i] \in Client)
      /\ cur \in [Instance -> Client \cup {None}]
  BY ReasonStays DEF Knows, Asked, TypeOK, Occupied
<1>4. CASE Read(i)
  <2>1. /\ got' = got /\ cur' = cur /\ size' = size /\ pc[i] = "read" /\ cur[i] \in Client
        /\ said[cur[i]] # None \/ link[cur[i]] = "left"
        /\ pc'[i] = IF IsCommand(said[cur[i]]) THEN "size" ELSE "close"
    BY <1>3, <1>4 DEF Read, clients, Goto, Busy
  <2>2. CASE IsCommand(said[cur[i]])
    <3>1. pc'[i] = "size" /\ said[cur[i]] # None
      BY <2>1, <2>2, DaemonAssumption DEF IsCommand
    <3>2. KnowsOf(i)'
      BY <1>1, <1>3, <2>1, <3>1 DEF KnowsOf, Busy
    <3> QED
      BY <1>1, <1>2, <2>1, <3>2, OthersKnow
  <2>3. CASE ~IsCommand(said[cur[i]])
    <3>1. pc'[i] = "close" /\ said[cur[i]] # "line"
      BY <2>1, <2>3 DEF IsCommand
    <3>2. link[cur[i]] = "left" => Reason'
      BY <1>3, <2>1 DEF Reason
    <3>3. KnowsOf(i)'
      BY <1>1, <1>3, <2>1, <3>1, <3>2 DEF KnowsOf, Busy, Unanswered
    <3> QED
      BY <1>1, <1>2, <2>1, <3>3, OthersKnow
  <2> QED
    BY <2>2, <2>3
<1>5. CASE FileSize(i)
  <2>1. /\ got' = got /\ cur' = cur /\ pc[i] = "size" /\ cur[i] \in Client
        /\ pc'[i] = (IF size'[i] > 0 THEN "send" ELSE "close")
    BY <1>3, <1>5 DEF FileSize, clients, Goto, Busy
  <2>2. got[cur[i]] = {} /\ said[cur[i]] # None /\ fsize \in seen[cur[i]]
    BY <1>3, <2>1 DEF KnowsOf, AskedOf, Busy
  <2>3. size'[i] = fsize \/ (size'[i] = 0 /\ "open" \in failed')
    BY <1>5 DEF FileSize, Fail, TypeOK
  <2>4. CASE size'[i] > 0
    <3>1. size'[i] = fsize /\ pc'[i] = "send"
      BY <2>1, <2>3, <2>4
    <3>2. KnowsOf(i)'
      BY <1>1, <1>3, <2>1, <2>2, <3>1 DEF KnowsOf, Busy
    <3> QED
      BY <1>1, <1>2, <2>1, <3>2, OthersKnow
  <2>5. CASE ~(size'[i] > 0)
    <3>1. pc'[i] = "close" /\ (fsize = 0 \/ Reason')
      BY <1>3, <2>1, <2>3, <2>5, DaemonAssumption DEF Reason
    <3>2. KnowsOf(i)'
      BY <1>1, <1>3, <2>1, <2>2, <3>1 DEF KnowsOf, Busy, Excused
    <3> QED
      BY <1>1, <1>2, <2>1, <3>2, OthersKnow
  <2> QED
    BY <2>4, <2>5
<1>6. CASE Send(i)
  <2>1. /\ cur' = cur /\ size' = size /\ pc[i] = "send" /\ cur[i] \in Client /\ pc'[i] = "close"
        /\ got \in [Client -> SUBSET Sizes]
        /\ got' = [got EXCEPT ![cur[i]] = got[cur[i]] \cup {size[i]}]
    BY <1>3, <1>6 DEF Send, Step, Goto, Busy, TypeOK
  <2>2. got'[cur[i]] # {} /\ said[cur[i]] # None
    BY <1>3, <2>1 DEF KnowsOf
  <2>3. KnowsOf(i)'
    BY <1>1, <1>3, <2>1, <2>2 DEF KnowsOf, Busy, Unanswered
  <2>4. \A c \in Client : c # cur[i] => got'[c] = got[c]
    BY <2>1
  <2>5. cur[i] # None
    BY <2>1, DaemonAssumption
  <2> QED
    BY <1>1, <1>2, <2>3, <2>4, <2>5, OthersKnow
<1>7. CASE SendFails(i) \/ SendToNobody(i)
  <2>1. /\ got' = got /\ cur' = cur /\ pc[i] = "send" /\ cur[i] \in Client /\ pc'[i] \in {"close", "leave"}
    BY <1>3, <1>7 DEF SendFails, SendToNobody, clients, Step, Goto, Busy
  <2>2. "send" \in failed' \/ (link[cur[i]] = "left" /\ link' = link)
    BY <1>7 DEF SendFails, SendToNobody, Fail, clients
  <2>3. Reason'
    BY <2>1, <2>2 DEF Reason
  <2>4. KnowsOf(i)'
    BY <1>1, <1>3, <2>1, <2>3 DEF KnowsOf, Busy, Excused
  <2> QED
    BY <1>1, <1>2, <2>1, <2>4, OthersKnow
<1>8. CASE Close(i) \/ Leave(i)
  <2>1. got' = got /\ pc'[i] \in {"test", "exited"}
    BY <1>3, <1>8 DEF Close, Leave, Step, Goto
  <2>2. KnowsOf(i)'
    BY <1>1, <1>3, <2>1 DEF KnowsOf, Busy
  <2> QED
    BY <1>1, <1>2, <2>1, <2>2, OthersKnow
<1> QED
  BY <1>4, <1>5, <1>6, <1>7, <1>8

\* A stop signal is a reason by itself.
LEMMA KnowsStop ==
  ASSUME TypeOK, Occupied, Queues, Knows, [Next]_vars, NEW i \in Instance, Stop(i)
  PROVE  Knows'
<1>1. /\ said' = said /\ seen' = seen /\ got' = got /\ cur' = cur /\ backlog' = backlog /\ size' = size
      /\ signals \in [Instance -> 0..MaxSignals] /\ signals' = [signals EXCEPT ![i] = signals[i] + 1]
      /\ pc \in [Instance -> PC]
  BY DEF Stop, clients, TypeOK
<1>2. Others(i)
  BY <1>1 DEF Stop, Others, Goto, TypeOK
<1>3. signals'[i] > 0 /\ Reason'
  <2>1. signals'[i] > 0
    BY <1>1
  <2> QED
    BY <2>1 DEF Reason
<1>4. pc'[i] = pc[i] \/ pc'[i] \in {"leave", "close"}
  BY <1>1 DEF Stop, Interrupted, Goto
<1>5. KnowsOf(i)'
  <2>1. KnowsOf(i)
    BY DEF Knows
  <2> QED
    BY <1>1, <1>3, <1>4, <2>1 DEF KnowsOf, Busy, Excused
<1> QED
  BY <1>1, <1>2, <1>5, OthersKnow

\* Clients and the file change nothing of what an instance knows of the client it
\* serves, but for what the client says, and a later size.
LEMMA KnowsWorld ==
  ASSUME TypeOK, Occupied, Joined, Knows, Asked, [Next]_vars,
         (\E c \in Client : Connect(c) \/ Say(c) \/ HangUp(c)) \/ Resize \/ UNCHANGED vars
  PROVE  Knows'
<1>1. /\ pc' = pc /\ cur' = cur /\ size' = size /\ run_flag' = run_flag /\ got' = got
      /\ signals' = signals
  BY DEF Connect, Say, HangUp, Resize, vars, process, clients, world
<1>2. Reason => Reason'
  BY ReasonStays
<1>3. ASSUME NEW i \in Instance, pc[i] = "leave" PROVE backlog'[i] = backlog[i]
  BY <1>3 DEF Connect, Say, HangUp, Resize, vars, clients, Serving, TypeOK
<1>4. ASSUME NEW d \in Client, said[d] # None PROVE said'[d] = said[d] /\ seen[d] \subseteq seen'[d]
  BY <1>4 DEF Connect, Say, HangUp, Resize, vars, clients, world, TypeOK
<1>5. \A d \in Client : said[d] = None => seen[d] = {}
  BY DEF Asked, AskedOf
<1>6. ASSUME NEW i \in Instance PROVE KnowsOf(i)'
  <2>1. KnowsOf(i) /\ (pc[i] \in Busy => cur[i] \in Client)
    BY DEF Knows, Occupied
  <2>2. ASSUME pc[i] = "close" /\ Unanswered(cur[i])' PROVE Excused(cur[i])'
    <3>1. CASE said[cur[i]] = None
      BY <1>2, <2>1, <2>2, <3>1 DEF KnowsOf, Excused
    <3>2. CASE said[cur[i]] # None
      <4>1. cur[i] \in Client /\ Unanswered(cur[i])
        BY <1>1, <1>4, <2>1, <2>2, <3>2 DEF Unanswered, Busy
      <4> QED
        BY <1>1, <1>2, <1>4, <2>1, <2>2, <3>2, <4>1 DEF KnowsOf, Excused
    <3> QED
      BY <3>1, <3>2
  <2>3. ASSUME pc[i] \in {"size", "send"} PROVE said'[cur[i]] # None
    BY <1>4, <2>1, <2>3 DEF KnowsOf, Busy
  <2>4. ASSUME pc[i] = "send" PROVE size[i] \in seen'[cur[i]]
    BY <1>4, <2>1, <2>4 DEF KnowsOf, Busy
  <2>5. ASSUME pc[i] = "close", said'[cur[i]] = None PROVE Reason'
    <3>1. said[cur[i]] = None
      BY <1>4, <2>1, <2>5 DEF Busy
    <3> QED
      BY <1>2, <2>1, <2>5, <3>1 DEF KnowsOf
  <2> QED
    BY <1>1, <1>2, <1>3, <2>1, <2>2, <2>3, <2>4, <2>5 DEF KnowsOf
<1> QED
  BY <1>6 DEF Knows

\* What an instance knows stays true.
LEMMA KnowsNext ==
  TypeOK /\ Occupied /\ Queues /\ Joined /\ Knows /\ Asked /\ [Next]_vars => Knows'
  BY KnowsStartup, KnowsLoop, KnowsServe, KnowsStop, KnowsWorld DEF Next, Main, Serve

-----------------------------------------------------------------------------
(* What clients have been told.                                            *)

\* A step that leaves a client's connection and what it was told alone.
LEMMA AskedSame ==
  ASSUME Reason => Reason', NEW c \in Client, AskedOf(c),
         link'[c] = link[c], said'[c] = said[c], got'[c] = got[c], seen'[c] = seen[c], fsize' = fsize
  PROVE  AskedOf(c)'
  BY DEF AskedOf, Unanswered, Excused

\* What is sent is the size, to a client that has been told nothing yet; and who
\* is disconnected without an answer is so for a reason.
LEMMA AskedNext ==
  TypeOK /\ Occupied /\ Queues /\ Joined /\ Knows /\ Asked /\ [Next]_vars => Asked'
<1> SUFFICES ASSUME TypeOK, Occupied, Queues, Joined, Knows, Asked, [Next]_vars, NEW c \in Client
             PROVE  AskedOf(c)'
  BY DEF Asked
<1>1. AskedOf(c) /\ (Reason => Reason') /\ c # None
  BY ReasonStays, DaemonAssumption DEF Asked
<1>2. ASSUME NEW i \in Instance,
             \/ Startup(i) \/ ParentExits(i) \/ Stop(i) \/ Test(i) \/ Call(i) \/ Accept(i)
             \/ AcceptFails(i) \/ Accepted(i) \/ CallRead(i) \/ Read(i) \/ FileSize(i) \/ SendFails(i) \/ SendToNobody(i)
      PROVE  AskedOf(c)'
  <2>1. link' = link /\ said' = said /\ got' = got /\ seen' = seen /\ fsize' = fsize
    BY <1>2 DEF Startup, Lock, LockFails, Truncate, WritePid, ReadPid, Daemonize, Config, Unlink, Bind,
                Arm, ParentExits, Stop, Test, Call, Accept, AcceptFails, Accepted, CallRead, Read, FileSize,
                SendFails, SendToNobody, process, clients, world
  <2> QED
    BY <1>1, <2>1, AskedSame
<1>3. ASSUME NEW i \in Instance, Send(i) PROVE AskedOf(c)'
  <2>1. /\ pc[i] = "send" /\ cur[i] \in Client /\ link[cur[i]] = "up" /\ got \in [Client -> SUBSET Sizes]
        /\ got' = [got EXCEPT ![cur[i]] = got[cur[i]] \cup {size[i]}]
        /\ link' = link /\ said' = said /\ seen' = seen /\ fsize' = fsize
    BY <1>3 DEF Send, Step, world, Busy, TypeOK, Occupied
  <2>2. CASE c = cur[i]
    <3>1. got[c] = {} /\ said[c] # None /\ size[i] \in seen[c]
      BY <2>1, <2>2 DEF Knows, KnowsOf, Busy
    <3>2. got'[c] = {size[i]}
      BY <2>1, <2>2, <3>1
    <3> QED
      BY <1>1, <2>1, <2>2, <3>1, <3>2 DEF AskedOf
  <2>3. CASE c # cur[i]
    BY <1>1, <2>1, <2>3, AskedSame
  <2> QED
    BY <2>2, <2>3
<1>4. ASSUME NEW i \in Instance, Close(i) PROVE AskedOf(c)'
  <2>1. /\ pc[i] = "close" /\ cur[i] \in Client /\ link \in [Client -> {"none", "up", "left", "down"}]
        /\ link' = [link EXCEPT ![cur[i]] = Down(cur[i])]
        /\ got' = got /\ said' = said /\ seen' = seen /\ fsize' = fsize /\ KnowsOf(i)
    BY <1>4 DEF Close, Step, world, Busy, TypeOK, Occupied, Knows
  <2>2. CASE c = cur[i] /\ link[c] = "up"
    <3>1. link'[c] = "down" /\ (said[c] = None => Reason) /\ (Unanswered(c) => Excused(c))
      BY <2>1, <2>2 DEF Down, KnowsOf
    <3> QED
      BY <1>1, <2>1, <2>2, <3>1 DEF AskedOf, Unanswered, Excused
  <2>3. CASE ~(c = cur[i] /\ link[c] = "up")
    <3>1. link'[c] = link[c]
      BY <2>1, <2>3 DEF Down
    <3> QED
      BY <1>1, <2>1, <3>1, AskedSame
  <2> QED
    BY <2>2, <2>3
<1>5. ASSUME NEW i \in Instance, Leave(i) PROVE AskedOf(c)'
  <2>1. /\ pc[i] = "leave" /\ got' = got /\ said' = said /\ seen' = seen /\ fsize' = fsize /\ KnowsOf(i)
        /\ link'[c] = IF c = cur[i] \/ \E n \in DOMAIN backlog[i] : backlog[i][n] = c
                      THEN Down(c) ELSE link[c]
    BY <1>5 DEF Leave, Step, world, Knows
  <2>2. CASE link'[c] = link[c]
    BY <1>1, <2>1, <2>2, AskedSame
  <2>3. CASE link'[c] # link[c]
    <3>1. link[c] = "up" /\ link'[c] = "down" /\ (c = cur[i] \/ backlog[i] # << >>)
      BY <2>1, <2>3 DEF Down
    <3>2. Reason'
      BY <1>1, <2>1, <3>1 DEF KnowsOf
    <3> QED
      BY <1>1, <2>1, <3>1, <3>2 DEF AskedOf, Unanswered, Excused
  <2> QED
    BY <2>2, <2>3
<1>6. ASSUME NEW d \in Client, Connect(d) \/ HangUp(d) PROVE AskedOf(c)'
  <2>1. /\ got' = got /\ said' = said /\ seen' = seen /\ fsize' = fsize
        /\ link'[c] = link[c] \/ link'[c] \in {"up", "left"}
    BY <1>6 DEF Connect, HangUp, world, TypeOK
  <2>2. CASE link'[c] = link[c]
    BY <1>1, <2>1, <2>2, AskedSame
  <2>3. CASE link'[c] \in {"up", "left"}
    BY <1>1, <2>1, <2>3 DEF AskedOf
  <2> QED
    BY <2>1, <2>2, <2>3
<1>7. ASSUME NEW d \in Client, Say(d) PROVE AskedOf(c)'
  <2>1. /\ got' = got /\ link' = link /\ fsize' = fsize /\ link[d] = "up" /\ said[d] = None
        /\ seen' = [seen EXCEPT ![d] = {fsize}] /\ seen \in [Client -> SUBSET Sizes]
        /\ said \in [Client -> Commands \cup {None}]
    BY <1>7 DEF Say, TypeOK
  <2>2. PICK cmd \in Commands : said' = [said EXCEPT ![d] = cmd]
    BY <1>7 DEF Say
  <2>3. CASE c = d
    <3>1. seen'[c] = {fsize} /\ said'[c] # None /\ got[c] = {}
      BY <1>1, <2>1, <2>2, <2>3, DaemonAssumption DEF AskedOf
    <3> QED
      BY <2>1, <2>3, <3>1 DEF AskedOf
  <2>4. CASE c # d
    BY <1>1, <2>1, <2>2, <2>4, AskedSame
  <2> QED
    BY <2>3, <2>4
<1>8. CASE Resize
  <2>1. /\ got' = got /\ link' = link /\ said' = said
        /\ seen'[c] = IF said[c] = None THEN {} ELSE seen[c] \cup {fsize'}
    BY <1>8 DEF Resize, clients
  <2>2. CASE said[c] = None
    BY <1>1, <2>1, <2>2, DaemonAssumption DEF AskedOf, Unanswered
  <2>3. CASE said[c] # None
    BY <1>1, <2>1, <2>3 DEF AskedOf, Unanswered, Excused
  <2> QED
    BY <2>2, <2>3
<1>9. CASE UNCHANGED vars
  BY <1>1, <1>9, AskedSame DEF vars, clients, world
<1> QED
  BY <1>2, <1>3, <1>4, <1>5, <1>6, <1>7, <1>8, <1>9 DEF Next, Main, Serve

\* Nobody is connected or served yet.
LEMMA AttentiveInit == Init => Attentive
<1> SUFFICES ASSUME Init PROVE Attentive
  OBVIOUS
<1>1. Queues /\ Joined
  BY DaemonAssumption DEF Init, Queues, Joined
<1>2. Knows
  BY DEF Init, Knows, KnowsOf, Busy
<1>3. Asked
  BY DaemonAssumption DEF Init, Asked, AskedOf, Unanswered
<1> QED
  BY <1>1, <1>2, <1>3, TypeInit DEF Attentive

\* A client is told the size the file has had since it asked, once, and nothing
\* only for a reason: an empty file or one that cannot be read, a failing call, a
\* stop signal, or another client's leaving (main.c:48-83, :200-220).
THEOREM SizeTold == Spec => []TellsSize
<1>1. Attentive => TellsSize
  <2> SUFFICES ASSUME Attentive PROVE TellsSize
    OBVIOUS
  <2>1. ASSUME NEW c \in Client PROVE Cardinality(got[c]) <= 1 /\ got[c] \subseteq seen[c]
    <3>1. got[c] = {} \/ \E z \in seen[c] : got[c] = {z}
      BY DEF Attentive, Asked, AskedOf
    <3>2. CASE got[c] = {}
      BY <3>2, FS_EmptySet
    <3>3. CASE \E z \in seen[c] : got[c] = {z}
      <4>1. PICK z \in seen[c] : got[c] = {z}
        BY <3>3
      <4>2. Cardinality({z}) = 1
        BY FS_Singleton
      <4> QED
        BY <4>1, <4>2
    <3> QED
      BY <3>1, <3>2, <3>3
  <2>2. Told
    BY DEF Attentive, Asked, AskedOf, Told, Unanswered, Excused, Reason
  <2> QED
    BY <2>1, <2>2 DEF TellsSize, Fresh, Attentive
<1>2. Attentive /\ [Next]_vars => Attentive'
  BY TypeNext, QueuesNext, JoinedNext, KnowsNext, AskedNext DEF Attentive
<1> QED
  BY <1>1, <1>2, AttentiveInit, PTL DEF Spec
=============================================================================
