-------------------------- MODULE FileServerProofs --------------------------
(***************************************************************************)
(* Proofs about the event loop, for any number of connections, any buffer  *)
(* sizes and batch sizes, and any failures of the calls it makes.          *)
(***************************************************************************)
EXTENDS FileServer, SequenceTheorems, FiniteSetTheorems, TLAPS

-----------------------------------------------------------------------------
(***************************************************************************)
(* The handlers of a connection leave a connection behind: whatever malloc *)
(* and the kernel answer, counters stay naturals, the stream a sequence of *)
(* units and the state a state.                                            *)
(***************************************************************************)

\* What clients and the kernel do to a socket, and closing it.
LEMMA SocketType ==
  ASSUME NEW k \in Connections
  PROVE  /\ [k EXCEPT !.unread = @ + 1] \in Connections
         /\ k.sndq > 0 => [k EXCEPT !.sndq = @ - 1] \in Connections
         /\ \A how \in Peer : [k EXCEPT !.peer = how] \in Connections
         /\ CloseConn(k) \in Connections
<1>1. k.unread + 1 \in Nat /\ (k.sndq > 0 => k.sndq - 1 \in Nat)
  BY DEF Connections
<1> QED
  BY <1>1 DEF Connections, CloseConn

\* The returns of send and sendfile: an error, EAGAIN or a length.
LEMMA SendReturnsType ==
  ASSUME NEW k \in Connections, NEW want \in Nat, NEW n \in SendReturns(k, want)
  PROVE  n \in Int /\ (n \in Nat \/ n = Eagain \/ n = Failed)
  BY DEF SendReturns, Eagain, Failed

\* What the kernel takes extends the stream by units.
LEMMA TakeType ==
  ASSUME NEW k \in Connections, NEW kind \in Codes \cup {0}, NEW from \in Nat, NEW n \in Int
  PROVE  Take(k, kind, from, n) \in Connections
<1>1. CASE n <= 0
  BY <1>1 DEF Take
<1>2. CASE ~(n <= 0)
  <2> DEFINE new == [i \in 1..n |-> <<kind, from + i>>]
  <2>1. n \in Nat
    BY <1>2
  <2>2. \A i \in 1..n : <<kind, from + i>> \in Unit
    BY <2>1 DEF Unit
  <2>3. new \in [1..n -> Unit]
    BY <2>2
  <2>4. new \in Seq(Unit)
    BY <2>1, <2>3
  <2> HIDE DEF new
  <2>5. k.out \o new \in Seq(Unit)
    BY <2>4 DEF Connections
  <2>6. k.sndq + n \in Nat
    BY <2>1 DEF Connections
  <2>7. Take(k, kind, from, n) = [k EXCEPT !.out = k.out \o new, !.sndq = k.sndq + n]
    BY <1>2 DEF Take, new
  <2> QED
    BY <2>5, <2>6, <2>7 DEF Connections
<1> QED
  BY <1>1, <1>2

\* One sendfile.
LEMMA AddFileSentType ==
  ASSUME NEW k \in Connections, NEW want \in Nat, NEW n \in SendReturns(k, want)
  PROVE  AddFileSent(k, n) \in Connections
<1>1. n \in Int /\ (n \in Nat \/ n = Eagain \/ n = Failed)
  BY SendReturnsType
<1>2. CASE n = Failed
  BY <1>2 DEF AddFileSent
<1>3. CASE n # Failed
  <2> DEFINE t == Take(k, 0, k.foff, n)
  <2>1. t \in Connections
    BY <1>1, TakeType DEF Connections
  <2> HIDE DEF t
  <2>2. t.fileSent \in Int /\ t.foff \in Nat
    BY <2>1 DEF Connections
  <2>3. t.fileSent + n \in Int
    BY <1>1, <2>2
  <2>4. (IF n > 0 THEN t.foff + n ELSE t.foff) \in Nat
    BY <1>1, <2>2
  <2>5. AddFileSent(k, n) = [t EXCEPT !.fileSent = t.fileSent + n,
                                      !.foff = IF n > 0 THEN t.foff + n ELSE t.foff]
    BY <1>3 DEF AddFileSent, t
  <2> QED
    BY <2>1, <2>3, <2>4, <2>5 DEF Connections
<1> QED
  BY <1>2, <1>3

\* send_file.
LEMMA SendFileType ==
  ASSUME NEW k \in Connections
  PROVE  SendFile(k) \subseteq Connections
<1> DEFINE toSend == FileLen - k.fileSent
           left == IF k.flen > k.foff THEN k.flen - k.foff ELSE 0
           sent == IF toSend > 0
                   THEN {AddFileSent(k, n) : n \in SendReturns(k, Lesser(toSend, left))}
                   ELSE {k}
<1>1. toSend > 0 => Lesser(toSend, left) \in Nat
  BY ConnectionAssumption DEF Connections, Lesser
<1>2. sent \subseteq Connections
  BY <1>1, AddFileSentType
<1>3. SendFile(k) = {[q EXCEPT !.state = IF q.fileSent >= FileLen THEN "end" ELSE q.state] : q \in sent}
  BY DEF SendFile
<1> HIDE DEF sent
<1>4. \A q \in Connections :
        [q EXCEPT !.state = IF q.fileSent >= FileLen THEN "end" ELSE q.state] \in Connections
  BY DEF Connections, ConnState
<1> QED
  BY <1>2, <1>3, <1>4

\* start_send_file.
LEMMA StartSendFileType ==
  ASSUME NEW k \in Connections
  PROVE  StartSendFile(k) \subseteq Connections
<1>1. /\ [k EXCEPT !.state = "sending_file"] \in Connections
      /\ [k EXCEPT !.state = "end"] \in Connections
  BY DEF Connections, ConnState
<1> QED
  BY <1>1, SendFileType DEF StartSendFile

\* One send of the answer head.
LEMMA AddAnswerSentType ==
  ASSUME NEW k \in Connections, NEW want \in Nat, NEW n \in SendReturns(k, want)
  PROVE  AddAnswerSent(k, n) \in Connections
<1>1. n \in Int /\ (n \in Nat \/ n = Eagain \/ n = Failed)
  BY SendReturnsType
<1>2. CASE n = Failed
  BY <1>2 DEF AddAnswerSent
<1>3. CASE n # Failed
  <2> DEFINE t == Take(k, k.code, k.ansSent, n)
  <2>1. t \in Connections
    BY <1>1, TakeType DEF Connections
  <2> HIDE DEF t
  <2>2. t.ansSent + n \in Int /\ SizeMax + 1 \in Nat \ {0}
    <3>1. t.ansSent \in Nat
      BY <2>1 DEF Connections
    <3> QED
      BY <1>1, <3>1, ConnectionAssumption DEF Eagain, Failed
  <2>3. (t.ansSent + n) % (SizeMax + 1) \in Nat
    BY <2>2
  <2>4. AddAnswerSent(k, n) = [t EXCEPT !.ansSent = (t.ansSent + n) % (SizeMax + 1)]
    BY <1>3 DEF AddAnswerSent, t
  <2> QED
    BY <2>1, <2>3, <2>4 DEF Connections
<1> QED
  BY <1>2, <1>3

\* send_answer.
LEMMA SendAnswerType ==
  ASSUME NEW k \in Connections
  PROVE  SendAnswer(k) \subseteq Connections
<1> DEFINE toSend == k.ansLen - k.ansSent
           sent == IF toSend > 0 THEN {AddAnswerSent(k, n) : n \in SendReturns(k, toSend)}
                                 ELSE {k}
<1>1. toSend > 0 => toSend \in Nat
  BY DEF Connections
<1>2. sent \subseteq Connections
  BY <1>1, AddAnswerSentType
<1>3. SendAnswer(k) = UNION {IF q.ansSent >= q.ansLen THEN StartSendFile(q) ELSE {q} : q \in sent}
  BY DEF SendAnswer
<1> HIDE DEF sent
<1>4. \A q \in sent : (IF q.ansSent >= q.ansLen THEN StartSendFile(q) ELSE {q}) \subseteq Connections
  BY <1>2, StartSendFileType
<1> QED
  BY <1>3, <1>4

\* start_send_answer.
LEMMA StartSendAnswerType ==
  ASSUME NEW k \in Connections, NEW code \in Codes
  PROVE  StartSendAnswer(k, code) \subseteq Connections
<1>1. [k EXCEPT !.state = "sending_answer", !.code = code,
                !.ansLen = AnsLen, !.ansSent = 0] \in Connections
  BY ConnectionAssumption DEF Connections, ConnState
<1>2. [k EXCEPT !.state = "end", !.ansLen = 0] \in Connections
  BY DEF Connections, ConnState
<1> QED
  BY <1>1, <1>2, SendAnswerType DEF StartSendAnswer

\* The end of fs_on_ready_read.
LEMMA AnswerType ==
  ASSUME NEW k \in Connections, NEW code \in Codes
  PROVE  Answer(k, code) \subseteq Connections
<1>1. \A n \in FileLens : [k EXCEPT !.fileOpen = TRUE, !.flen = n] \in Connections
  BY ConnectionAssumption DEF Connections
<1>2. 200 \in Codes
  BY DEF Codes
<1> DEFINE opened(n) == [k EXCEPT !.fileOpen = TRUE, !.flen = n]
           served == {StartSendAnswer(opened(n), 200) : n \in FileLens}
<1>3. \A n \in FileLens : opened(n) \in Connections
  BY <1>1
<1>4. Answer(k, code) = IF code = 200 THEN UNION served ELSE StartSendAnswer(k, code)
  BY DEF Answer
<1> HIDE DEF opened
<1>5. \A s \in served : s \subseteq Connections
  BY <1>2, <1>3, StartSendAnswerType
<1>6. StartSendAnswer(k, code) \subseteq Connections
  BY StartSendAnswerType
<1> HIDE DEF served
<1> QED
  BY <1>4, <1>5, <1>6

\* A caught request gets one of the server's status codes.
LEMMA AnswerCodesType ==
  ASSUME NEW k \in Connections, NEW terminated \in BOOLEAN
  PROVE  AnswerCodes(k, terminated) \subseteq Codes
<1>1. ParseHttpHead(k.req) \in Codes
  BY DEF ParseHttpHead, Codes
<1> QED
  BY <1>1 DEF AnswerCodes, Codes

\* fs_on_ready_read.
THEOREM OnReadyReadType ==
  ASSUME NEW k \in Connections
  PROVE  OnReadyRead(k) \subseteq Connections
<1> DEFINE read == [k EXCEPT !.got = k.got + k.unread, !.unread = 0]
<1>1. read \in Connections
  <2>1. k.got + k.unread \in Nat
    BY DEF Connections
  <2> QED
    BY <2>1 DEF Connections
<1>2. /\ [read EXCEPT !.poisoned = TRUE] \in Connections
      /\ [read EXCEPT !.state = "end"] \in Connections
  BY <1>1 DEF Connections, ConnState
<1>3. \A t \in BOOLEAN : UNION {Answer(read, c) : c \in AnswerCodes(read, t)} \subseteq Connections
  BY <1>1, AnswerCodesType, AnswerType
<1> HIDE DEF read
<1>4. OnReadyRead(k) =
        IF k.state # "wait_request" THEN {k}
        ELSE (IF read.got >= Parts /\ ~read.poisoned
              THEN UNION {Answer(read, c) : c \in AnswerCodes(read, TRUE)}
              ELSE {[read EXCEPT !.poisoned = TRUE]})
             \cup IF MallocFails
                  THEN {[read EXCEPT !.state = "end"]}
                         \cup UNION {Answer(read, c) : c \in AnswerCodes(read, FALSE)}
                  ELSE {}
  BY DEF OnReadyRead, read
<1> QED
  BY <1>2, <1>3, <1>4

\* fs_on_ready_write.
THEOREM OnReadyWriteType ==
  ASSUME NEW k \in Connections
  PROVE  OnReadyWrite(k) \subseteq Connections
  BY SendAnswerType, SendFileType DEF OnReadyWrite

-----------------------------------------------------------------------------
(* What the handlers leave undone, under a kernel that takes what it has     *)
(* room for: the discipline of edge-triggered epoll.                         *)

\* The send buffer holds what it can, and the answer is a head or nothing.
Sane(k) == k.sndq <= SndBuf /\ k.ansLen \in {0, AnsLen}

\* Whatever is unsent waits for room, unless the peer has reset the connection.
Pushed(k) ==
  k.peer # "rst" =>
    /\ k.state = "sending_answer" => Room(k) = 0
    /\ k.state = "sending_file" => Room(k) = 0 \/ k.foff >= k.flen

\* What the handlers do not touch: the peer, the request, and what is unread;
\* room they only take.
Kept(k, q) ==
  /\ q \in Connections /\ Sane(q)
  /\ q.peer = k.peer /\ q.req = k.req /\ q.unread = k.unread
  /\ Room(q) <= Room(k)

\* Handlers called one after the other keep what each keeps.
LEMMA KeptTwice ==
  ASSUME NEW k \in Connections, NEW q \in Connections, NEW r, Kept(k, q), Kept(q, r)
  PROVE  Kept(k, r)
<1>1. k.sndq \in Nat /\ q.sndq \in Nat /\ r.sndq \in Nat
  BY DEF Kept, Connections
<1> QED
  BY <1>1, ConnectionAssumption DEF Kept, Room

\* The counts and the state, which are the handlers' own.
Frame(k, q) ==
  /\ q.state = k.state /\ q.code = k.code /\ q.ansLen = k.ansLen /\ q.ansSent = k.ansSent
  /\ q.fileOpen = k.fileOpen /\ q.fileSent = k.fileSent /\ q.foff = k.foff /\ q.flen = k.flen

\* What the kernel takes it has room for.
LEMMA TakeKept ==
  ASSUME NEW k \in Connections, Sane(k), NEW kind \in Codes \cup {0}, NEW from \in Nat,
         NEW n \in Int, n <= Room(k)
  PROVE  /\ Kept(k, Take(k, kind, from, n))
         /\ Frame(k, Take(k, kind, from, n))
         /\ Take(k, kind, from, n).sndq = IF n <= 0 THEN k.sndq ELSE k.sndq + n
<1> DEFINE t == Take(k, kind, from, n)
<1>1. t \in Connections
  BY TakeType
<1>2. k.sndq \in Nat /\ SndBuf \in Nat
  BY ConnectionAssumption DEF Connections
<1>3. CASE n <= 0
  <2>1. t = k
    BY <1>3 DEF Take
  <2> QED
    BY <1>1, <1>2, <1>3, <2>1 DEF Kept, Room, Frame
<1>4. CASE ~(n <= 0)
  <2>1. t = [k EXCEPT !.out = k.out \o [i \in 1..n |-> <<kind, from + i>>], !.sndq = k.sndq + n]
    BY <1>4 DEF Take
  <2>2. /\ t.sndq = k.sndq + n /\ t.peer = k.peer /\ t.req = k.req /\ t.unread = k.unread
        /\ Frame(k, t)
    BY <2>1 DEF Connections, Frame
  <2> HIDE DEF t
  <2>3. Kept(k, t)
    BY <1>1, <1>2, <1>4, <2>2 DEF Kept, Room, Sane, Frame
  <2> QED
    BY <1>4, <2>2, <2>3 DEF t
<1> QED
  BY <1>3, <1>4

\* One send or sendfile takes all that is wanted, or all there is room for.
LEMMA SendReturnsFull ==
  ASSUME NEW k \in Connections, Sane(k), ~Pressure, NEW want \in Nat,
         NEW n \in SendReturns(k, want)
  PROVE  /\ n \in Int /\ n <= want /\ n <= Room(k)
         /\ \/ n = Failed /\ k.peer = "rst"
            \/ n = Eagain /\ Room(k) = 0
            \/ n \in Nat /\ n = Room(k)
            \/ n \in Nat /\ n = want
<1>1. Room(k) \in Nat
  BY ConnectionAssumption DEF Sane, Room, Connections
<1>2. /\ n \in {Failed, Eagain} \cup 0..want
      /\ \/ n = Failed /\ want > 0 /\ k.peer = "rst"
         \/ n = Eagain /\ want > 0 /\ k.peer # "rst" /\ (Room(k) = 0 \/ Pressure)
         \/ n = Lesser(want, Room(k)) /\ (want = 0 \/ (n > 0 /\ k.peer # "rst"))
  BY DEF SendReturns
<1> QED
  BY <1>1, <1>2 DEF Failed, Eagain, Lesser

\* What may still be read of the file.
Left(k) == IF k.flen > k.foff THEN k.flen - k.foff ELSE 0

\* One sendfile.
LEMMA AddFileSentKept ==
  ASSUME NEW k \in Connections, Sane(k), ~Pressure, NEW want \in Nat, want <= Left(k),
         NEW n \in SendReturns(k, want)
  PROVE  LET q == AddFileSent(k, n) IN
         /\ Kept(k, q) /\ q.state = k.state /\ q.flen = k.flen
         /\ \/ k.peer = "rst"
            \/ Room(q) = 0
            \/ q.fileSent = k.fileSent + want /\ q.foff = k.foff + want
<1> DEFINE q == AddFileSent(k, n)
           t == Take(k, 0, k.foff, n)
<1>1. /\ n \in Int /\ n <= Room(k)
      /\ \/ n = Failed /\ k.peer = "rst"
         \/ n = Eagain /\ Room(k) = 0
         \/ n \in Nat /\ n = Room(k)
         \/ n \in Nat /\ n = want
  BY SendReturnsFull
<1>2. /\ k.sndq \in Nat /\ SndBuf \in Nat /\ k.foff \in Nat /\ k.fileSent \in Int /\ k.flen \in Nat
      /\ Room(k) \in Nat
  BY ConnectionAssumption DEF Connections, Room, Sane
<1>3. q \in Connections
  BY AddFileSentType
<1>4. CASE n = Failed
  <2>1. q = k /\ k.peer = "rst"
    BY <1>1, <1>2, <1>4 DEF AddFileSent, Failed, Eagain
  <2> QED
    BY <1>2, <1>3, <2>1 DEF Kept
<1>5. CASE n # Failed
  <2>1. /\ Kept(k, t) /\ Frame(k, t)
        /\ t.sndq = IF n <= 0 THEN k.sndq ELSE k.sndq + n
    BY <1>1, <1>2, TakeKept
  <2>2. q = [t EXCEPT !.fileSent = t.fileSent + n, !.foff = IF n > 0 THEN t.foff + n ELSE t.foff]
    BY <1>5 DEF AddFileSent
  <2> HIDE DEF t, q
  <2>3. t.fileSent = k.fileSent /\ t.foff = k.foff /\ t.flen = k.flen /\ t.state = k.state
    BY <2>1 DEF Frame
  <2>4. /\ q.fileSent = k.fileSent + n /\ q.foff = (IF n > 0 THEN k.foff + n ELSE k.foff)
        /\ q.flen = k.flen /\ q.state = k.state /\ q.sndq = t.sndq /\ q.peer = t.peer
        /\ q.req = t.req /\ q.unread = t.unread /\ q.ansLen = t.ansLen
    BY <2>1, <2>2, <2>3 DEF Connections, Kept
  <2>5. Kept(k, q)
    BY <1>3, <2>1, <2>4 DEF Kept, Sane, Room, q
  <2>6. \/ Room(q) = 0
        \/ q.fileSent = k.fileSent + want /\ q.foff = k.foff + want
    BY <1>1, <1>2, <1>5, <2>1, <2>3, <2>4 DEF Room, Failed, Eagain
  <2> QED
    BY <2>4, <2>5, <2>6 DEF q
<1> QED
  BY <1>4, <1>5

\* send_file leaves nothing that could be sent, and keeps sending or ends.
LEMMA SendFileKept ==
  ASSUME NEW k \in Connections, Sane(k), ~Pressure, k.state = "sending_file",
         NEW q \in SendFile(k)
  PROVE  Kept(k, q) /\ q.state \in {"sending_file", "end"} /\ Pushed(q)
<1> DEFINE toSend == FileLen - k.fileSent
           want == Lesser(toSend, Left(k))
           sent == IF toSend > 0 THEN {AddFileSent(k, n) : n \in SendReturns(k, want)} ELSE {k}
           After(r) == [r EXCEPT !.state = IF r.fileSent >= FileLen THEN "end" ELSE r.state]
<1>1. /\ k.foff \in Nat /\ k.fileSent \in Int /\ k.flen \in Nat /\ FileLen \in Nat
  BY ConnectionAssumption DEF Connections
<1>2. SendFile(k) = {After(r) : r \in sent}
  BY DEF SendFile, Left
<1>3. PICK r \in sent : q = After(r)
  BY <1>2
<1>4. /\ Kept(k, r) /\ r.state = "sending_file" /\ r.flen = k.flen
      /\ \/ r.peer = "rst"
         \/ Room(r) = 0
         \/ r.fileSent >= FileLen
         \/ r.foff >= r.flen
  <2>1. CASE toSend > 0
    <3>1. PICK n \in SendReturns(k, want) : r = AddFileSent(k, n)
      BY <2>1
    <3>2. want \in Nat /\ want <= Left(k) /\ (want = toSend \/ want = Left(k))
      BY <1>1, <2>1 DEF Lesser, Left
    <3> HIDE DEF want
    <3>3. /\ Kept(k, r) /\ r.state = k.state /\ r.flen = k.flen
          /\ \/ k.peer = "rst"
             \/ Room(r) = 0
             \/ r.fileSent = k.fileSent + want /\ r.foff = k.foff + want
      BY <3>1, <3>2, AddFileSentKept
    <3> QED
      BY <1>1, <3>2, <3>3 DEF Kept, Left
  <2>2. CASE ~(toSend > 0)
    <3>1. r = k /\ k.fileSent >= FileLen
      BY <1>1, <2>2
    <3> QED
      BY <1>1, <3>1, ConnectionAssumption DEF Kept, Room, Connections
  <2> QED
    BY <2>1, <2>2
<1> HIDE DEF sent
<1>5. r \in Connections /\ r.fileSent \in Int
  BY <1>4 DEF Kept, Connections
<1>6. /\ q \in Connections
      /\ q.state = IF r.fileSent >= FileLen THEN "end" ELSE "sending_file"
      /\ q.peer = r.peer /\ q.req = r.req /\ q.unread = r.unread /\ q.sndq = r.sndq
      /\ q.ansLen = r.ansLen /\ q.foff = r.foff /\ q.flen = r.flen
  BY <1>3, <1>4, <1>5 DEF Connections, ConnState
<1> QED
  BY <1>4, <1>5, <1>6 DEF Kept, Sane, Room, Pushed

\* start_send_file.
LEMMA StartSendFileKept ==
  ASSUME NEW k \in Connections, Sane(k), ~Pressure, NEW q \in StartSendFile(k)
  PROVE  Kept(k, q) /\ q.state \in {"sending_file", "end"} /\ Pushed(q)
<1> DEFINE f == [k EXCEPT !.state = "sending_file"]
           e == [k EXCEPT !.state = "end"]
<1>1. k.sndq \in Nat /\ SndBuf \in Nat
  BY ConnectionAssumption DEF Connections
<1>2. f \in Connections /\ e \in Connections /\ f.state = "sending_file" /\ e.state = "end"
  BY DEF Connections, ConnState
<1>3. Kept(k, f) /\ Kept(k, e)
  <2>1. /\ f.sndq = k.sndq /\ f.ansLen = k.ansLen /\ f.peer = k.peer /\ f.req = k.req
        /\ f.unread = k.unread
        /\ e.sndq = k.sndq /\ e.ansLen = k.ansLen /\ e.peer = k.peer /\ e.req = k.req
        /\ e.unread = k.unread
    BY DEF Connections
  <2> QED
    BY <1>1, <1>2, <2>1 DEF Kept, Sane, Room
<1>4. CASE q \in SendFile(f)
  <2>1. Sane(f)
    BY <1>3 DEF Kept
  <2> HIDE DEF f
  <2>2. Kept(f, q) /\ q.state \in {"sending_file", "end"} /\ Pushed(q)
    BY <1>2, <1>4, <2>1, SendFileKept
  <2> QED
    BY <1>2, <1>3, <2>2, KeptTwice DEF Kept
<1>5. CASE q = e
  BY <1>2, <1>3, <1>5 DEF Pushed
<1> QED
  BY <1>4, <1>5 DEF StartSendFile

\* One send of the head, and what follows it.
LEMMA SendAnswerKept ==
  ASSUME NEW k \in Connections, Sane(k), ~Pressure, k.state = "sending_answer",
         NEW q \in SendAnswer(k)
  PROVE  Kept(k, q) /\ q.state \in {"sending_answer", "sending_file", "end"} /\ Pushed(q)
<1> DEFINE toSend == k.ansLen - k.ansSent
           sent == IF toSend > 0 THEN {AddAnswerSent(k, n) : n \in SendReturns(k, toSend)} ELSE {k}
<1>0. /\ k.ansSent \in Nat /\ k.ansLen \in Nat /\ k.ansLen <= SizeMax /\ SizeMax \in Nat
      /\ k.sndq \in Nat /\ SndBuf \in Nat /\ k.code \in Codes \cup {0}
      /\ Room(k) \in Nat
  BY ConnectionAssumption DEF Connections, Sane, Room
<1>1. SendAnswer(k) = UNION {IF r.ansSent >= r.ansLen THEN StartSendFile(r) ELSE {r} : r \in sent}
  BY DEF SendAnswer
<1>2. PICK r \in sent : q \in (IF r.ansSent >= r.ansLen THEN StartSendFile(r) ELSE {r})
  BY <1>1
<1>3. Kept(k, r) /\ r.state = "sending_answer" /\ (r.ansSent >= r.ansLen \/ r.peer = "rst" \/ Room(r) = 0)
  <2>1. CASE toSend > 0
    <3>1. PICK n \in SendReturns(k, toSend) : r = AddAnswerSent(k, n)
      BY <2>1
    <3>2. toSend \in Nat
      BY <1>0, <2>1
    <3>3. /\ n \in Int /\ n <= Room(k)
          /\ \/ n = Failed /\ k.peer = "rst"
             \/ n = Eagain /\ Room(k) = 0
             \/ n \in Nat /\ n = Room(k)
             \/ n \in Nat /\ n = toSend
      BY <3>2, SendReturnsFull
    <3>4. CASE n = Failed
      <4>1. r = k /\ k.peer = "rst"
        BY <1>0, <3>1, <3>2, <3>3, <3>4 DEF AddAnswerSent, Failed, Eagain
      <4> QED
        BY <1>0, <4>1 DEF Kept
    <3>5. CASE n # Failed
      <4> DEFINE t == Take(k, k.code, k.ansSent, n)
      <4>1. /\ Kept(k, t) /\ Frame(k, t)
            /\ t.sndq = IF n <= 0 THEN k.sndq ELSE k.sndq + n
        BY <1>0, <3>3, TakeKept
      <4>2. r = [t EXCEPT !.ansSent = (t.ansSent + n) % (SizeMax + 1)]
        BY <3>1, <3>5 DEF AddAnswerSent
      <4>3. r \in Connections
        BY <3>1, <3>2, AddAnswerSentType
      <4> HIDE DEF t
      <4>4. t.ansSent = k.ansSent /\ t.ansLen = k.ansLen /\ t.state = k.state
        BY <4>1 DEF Frame
      <4>5. /\ r.ansSent = (k.ansSent + n) % (SizeMax + 1) /\ r.ansLen = k.ansLen
            /\ r.state = k.state /\ r.sndq = t.sndq /\ r.peer = t.peer
            /\ r.req = t.req /\ r.unread = t.unread
        BY <4>1, <4>2, <4>4 DEF Connections, Kept
      <4>6. Kept(k, r)
        BY <4>1, <4>3, <4>4, <4>5 DEF Kept, Sane, Room
      <4>7. CASE n = Room(k) \/ n = Eagain
        BY <1>0, <3>3, <3>5, <4>1, <4>4, <4>5, <4>6, <4>7 DEF Room, Failed, Eagain
      <4>8. CASE n \in Nat /\ n = toSend
        <5>1. k.ansSent + n = k.ansLen
          BY <1>0, <4>8
        <5>2. k.ansLen % (SizeMax + 1) = k.ansLen
          BY <1>0
        <5> QED
          BY <1>0, <4>5, <4>6, <5>1, <5>2
      <4> QED
        BY <3>3, <3>5, <4>7, <4>8
    <3> QED
      BY <3>4, <3>5
  <2>2. CASE ~(toSend > 0)
    <3>1. r = k /\ k.ansSent >= k.ansLen
      BY <1>0, <2>2
    <3> QED
      BY <1>0, <3>1 DEF Kept
  <2> QED
    BY <2>1, <2>2
<1> HIDE DEF sent
<1>4. CASE r.ansSent >= r.ansLen
  <2>1. q \in StartSendFile(r) /\ r \in Connections /\ Sane(r)
    BY <1>2, <1>3, <1>4 DEF Kept
  <2>2. Kept(r, q) /\ q.state \in {"sending_file", "end"} /\ Pushed(q)
    BY <2>1, StartSendFileKept
  <2> QED
    BY <1>3, <2>1, <2>2, KeptTwice DEF Kept
<1>5. CASE ~(r.ansSent >= r.ansLen)
  BY <1>2, <1>3, <1>5 DEF Pushed
<1> QED
  BY <1>4, <1>5

\* start_send_answer.
LEMMA StartSendAnswerKept ==
  ASSUME NEW k \in Connections, Sane(k), ~Pressure, NEW code \in Codes,
         NEW q \in StartSendAnswer(k, code)
  PROVE  Kept(k, q)
<1> DEFINE a == [k EXCEPT !.state = "sending_answer", !.code = code,
                          !.ansLen = AnsLen, !.ansSent = 0]
           e == [k EXCEPT !.state = "end", !.ansLen = 0]
<1>1. k.sndq \in Nat /\ SndBuf \in Nat
  BY ConnectionAssumption DEF Connections
<1>2. a \in Connections /\ e \in Connections
  BY ConnectionAssumption DEF Connections, ConnState
<1>3. Kept(k, a) /\ Kept(k, e) /\ a.state = "sending_answer"
  <2>1. /\ a.sndq = k.sndq /\ a.ansLen = AnsLen /\ a.peer = k.peer /\ a.req = k.req
        /\ a.unread = k.unread /\ a.state = "sending_answer"
        /\ e.sndq = k.sndq /\ e.ansLen = 0 /\ e.peer = k.peer /\ e.req = k.req
        /\ e.unread = k.unread
    BY DEF Connections
  <2> QED
    BY <1>1, <1>2, <2>1 DEF Kept, Sane, Room
<1>4. q \in SendAnswer(a) \/ q = e
  BY DEF StartSendAnswer
<1> HIDE DEF a, e
<1>5. ASSUME q \in SendAnswer(a) PROVE Kept(k, q)
  <2>1. Sane(a)
    BY <1>3 DEF Kept
  <2>2. Kept(a, q)
    BY <1>2, <1>3, <1>5, <2>1, SendAnswerKept
  <2> QED
    BY <1>2, <1>3, <2>2, KeptTwice
<1> QED
  BY <1>3, <1>4, <1>5

\* The end of fs_on_ready_read.
LEMMA AnswerKept ==
  ASSUME NEW k \in Connections, Sane(k), ~Pressure, NEW code \in Codes,
         NEW q \in Answer(k, code)
  PROVE  Kept(k, q)
<1> DEFINE opened(n) == [k EXCEPT !.fileOpen = TRUE, !.flen = n]
<1>1. CASE code = 200
  <2>1. PICK n \in FileLens : q \in StartSendAnswer(opened(n), 200)
    BY <1>1 DEF Answer
  <2>2. /\ opened(n) \in Connections
        /\ opened(n).sndq = k.sndq /\ opened(n).ansLen = k.ansLen /\ opened(n).peer = k.peer
        /\ opened(n).req = k.req /\ opened(n).unread = k.unread
    BY ConnectionAssumption DEF Connections
  <2> HIDE DEF opened
  <2>3. Kept(k, opened(n)) /\ Sane(opened(n))
    BY <2>2, ConnectionAssumption DEF Kept, Sane, Room, Connections
  <2>4. Kept(opened(n), q)
    BY <1>1, <2>1, <2>2, <2>3, StartSendAnswerKept
  <2> QED
    BY <2>2, <2>3, <2>4, KeptTwice
<1>2. CASE code # 200
  BY <1>2, StartSendAnswerKept DEF Answer
<1> QED
  BY <1>1, <1>2

\* fs_on_ready_read reads all that came, and leaves the rest as it was.
LEMMA OnReadyReadKept ==
  ASSUME NEW k \in Connections, Sane(k), ~Pressure, NEW q \in OnReadyRead(k)
  PROVE  /\ q \in Connections /\ Sane(q) /\ q.peer = k.peer /\ q.req = k.req
         /\ Room(q) <= Room(k)
         /\ IF k.state = "wait_request" THEN q.unread = 0 ELSE q = k
<1>0. k.sndq \in Nat /\ SndBuf \in Nat
  BY ConnectionAssumption DEF Connections
<1>1. CASE k.state # "wait_request"
  BY <1>0, <1>1 DEF OnReadyRead, Room
<1>2. CASE k.state = "wait_request"
  <2> DEFINE read == [k EXCEPT !.got = k.got + k.unread, !.unread = 0]
             w == [read EXCEPT !.poisoned = TRUE]
             e == [read EXCEPT !.state = "end"]
  <2>1. k.got + k.unread \in Nat
    BY DEF Connections
  <2>2. read \in Connections /\ w \in Connections /\ e \in Connections
    BY <2>1 DEF Connections, ConnState
  <2>3. /\ read.sndq = k.sndq /\ read.ansLen = k.ansLen /\ read.peer = k.peer /\ read.req = k.req
        /\ read.unread = 0
        /\ w.sndq = k.sndq /\ w.ansLen = k.ansLen /\ w.peer = k.peer /\ w.req = k.req
        /\ w.unread = 0
        /\ e.sndq = k.sndq /\ e.ansLen = k.ansLen /\ e.peer = k.peer /\ e.req = k.req
        /\ e.unread = 0
    BY DEF Connections
  <2>4. \/ q = w \/ q = e
        \/ \E t \in BOOLEAN : \E c \in AnswerCodes(read, t) : q \in Answer(read, c)
    BY <1>2 DEF OnReadyRead
  <2> HIDE DEF read, w, e
  <2>5. \A t \in BOOLEAN : AnswerCodes(read, t) \subseteq Codes
    BY <2>2, AnswerCodesType
  <2>6. Sane(read)
    BY <2>3 DEF Sane
  <2>7. ASSUME NEW c \in Codes, q \in Answer(read, c) PROVE Kept(read, q)
    BY <2>2, <2>6, <2>7, AnswerKept
  <2> QED
    BY <1>0, <1>2, <2>2, <2>3, <2>4, <2>5, <2>7 DEF Kept, Sane, Room
<1> QED
  BY <1>1, <1>2

\* fs_on_ready_write sends what there is room for.
LEMMA OnReadyWriteKept ==
  ASSUME NEW k \in Connections, Sane(k), ~Pressure, NEW q \in OnReadyWrite(k)
  PROVE  /\ Kept(k, q) /\ Pushed(q)
         /\ q.state = "wait_request" <=> k.state = "wait_request"
<1>1. k.sndq \in Nat /\ SndBuf \in Nat
  BY ConnectionAssumption DEF Connections
<1>2. CASE k.state = "sending_answer"
  BY <1>2, SendAnswerKept DEF OnReadyWrite
<1>3. CASE k.state = "sending_file"
  BY <1>3, SendFileKept DEF OnReadyWrite
<1>4. CASE k.state \notin {"sending_answer", "sending_file"}
  BY <1>1, <1>4 DEF OnReadyWrite, Kept, Pushed, Room
<1> QED
  BY <1>2, <1>3, <1>4

-----------------------------------------------------------------------------
(* What the handlers put on the stream when nothing fails: the answer, in    *)
(* order, without gaps or repeats.                                           *)

\* Memory does not run out, the kernel takes what it has room for, the head fits
\* the send buffer, and the file has not grown since stat.
Favourable ==
  /\ ~MallocFails
  /\ ~Pressure
  /\ AnsLen <= SndBuf
  /\ \A n \in FileLens : n <= FileLen

\* The first n units of the answer with a code, and how many there are in all.
At(code, i) == IF i <= AnsLen THEN <<code, i>> ELSE <<0, i - AnsLen>>
Upto(code, n) == [i \in 1..n |-> At(code, i)]
Full(code) == AnsLen + (IF code = 200 THEN FileLen ELSE 0)

\* How much of the answer is on the stream, by the state of the connection.
Progress(k) ==
  CASE k.state = "sending_file" -> AnsLen + k.foff
    [] k.state = "end"          -> Full(k.code)
    [] OTHER                    -> 0

\* Whatever the state, the stream is the answer to the request as far as it has got.
InOrder(k) ==
  /\ k.out = Upto(k.code, Progress(k))
  /\ k.state # "wait_request" => k.code = ParseHttpHead(k.req)
  /\ k.state \in {"wait_request", "sending_answer"} =>
       k.sndq = 0 /\ k.ansSent = 0 /\ k.foff = 0 /\ k.fileSent = 0 /\ k.flen <= FileLen
  /\ k.state = "sending_answer" => k.ansLen = AnsLen
  /\ k.state = "sending_file" =>
       k.code = 200 /\ k.fileSent <= k.foff /\ k.foff <= k.flen /\ k.flen <= FileLen

\* While the connection is served, its file is open when there is one to send.
FileReady(k) ==
  /\ k.state = "wait_request" => ~k.fileOpen
  /\ k.state = "sending_answer" => (k.fileOpen <=> k.code = 200)

\* The first units are a sequence.
LEMMA UptoIs ==
  ASSUME NEW code \in Codes \cup {0}, NEW n \in Nat
  PROVE  /\ Upto(code, n) \in Seq(Unit) /\ Len(Upto(code, n)) = n
         /\ \A i \in 1..n : Upto(code, n)[i] = At(code, i)
<1>1. \A i \in 1..n : At(code, i) \in Unit
  <2> SUFFICES ASSUME NEW i \in 1..n
               PROVE  At(code, i) \in Unit
    OBVIOUS
  <2>1. i \in Nat /\ (~(i <= AnsLen) => i - AnsLen \in Nat)
    BY ConnectionAssumption
  <2> QED
    BY <2>1 DEF Unit, At
<1>2. Upto(code, n) \in [1..n -> Unit]
  BY <1>1 DEF Upto
<1>3. Upto(code, n) \in Seq(Unit)
  BY <1>2
<1>4. Len(Upto(code, n)) = n
  BY <1>2, <1>3, LenProperties
<1> QED
  BY <1>3, <1>4 DEF Upto

\* The units after the head are the file's.
LEMMA AtFile ==
  ASSUME NEW code, NEW m \in Nat \ {0}
  PROVE  At(code, AnsLen + m) = <<0, m>>
<1>1. ~(AnsLen + m <= AnsLen) /\ (AnsLen + m) - AnsLen = m
  BY ConnectionAssumption
<1> QED
  BY <1>1 DEF At

\* More units after the first ones.
LEMMA UptoMore ==
  ASSUME NEW code \in Codes \cup {0}, NEW a \in Nat, NEW n \in Nat, NEW more \in Seq(Unit),
         Len(more) = n,
         \A i \in 1..n : more[i] = At(code, a + i)
  PROVE  Upto(code, a) \o more = Upto(code, a + n)
<1> DEFINE u == Upto(code, a)
           v == Upto(code, a + n)
<1>1. /\ u \in Seq(Unit) /\ Len(u) = a
      /\ v \in Seq(Unit) /\ Len(v) = a + n
      /\ \A i \in 1..a : u[i] = At(code, i)
      /\ \A i \in 1..(a+n) : v[i] = At(code, i)
  <2>1. a + n \in Nat
    OBVIOUS
  <2> QED
    BY <2>1, UptoIs
<1> HIDE DEF u, v
<1>2. /\ u \o more \in Seq(Unit)
      /\ Len(u \o more) = a + n
      /\ \A i \in 1..(a + n) : (u \o more)[i] = IF i <= a THEN u[i] ELSE more[i - a]
  BY <1>1, ConcatProperties
<1>3. ASSUME NEW i \in 1..(a + n) PROVE (u \o more)[i] = v[i]
  <2>1. CASE i <= a
    BY <1>1, <1>2, <2>1
  <2>2. CASE ~(i <= a)
    <3>1. i - a \in 1..n /\ a + (i - a) = i
      BY <2>2
    <3> QED
      BY <1>1, <1>2, <2>2, <3>1
  <2> QED
    BY <2>1, <2>2
<1>4. u \o more = v
  BY <1>1, <1>2, <1>3, SeqEqual
<1> QED
  BY <1>4 DEF u, v

\* Fewer units.
LEMMA UptoLess ==
  ASSUME NEW code \in Codes \cup {0}, NEW n \in Nat, NEW m \in 0..n
  PROVE  SubSeq(Upto(code, n), 1, m) = Upto(code, m)
<1> DEFINE u == Upto(code, n)
           v == Upto(code, m)
           s == SubSeq(u, 1, m)
<1>1. /\ u \in Seq(Unit) /\ Len(u) = n
      /\ v \in Seq(Unit) /\ Len(v) = m
      /\ \A i \in 1..n : u[i] = At(code, i)
      /\ \A i \in 1..m : v[i] = At(code, i)
  BY UptoIs
<1> HIDE DEF u, v
<1>2. \A i \in 1..m : u[i] \in Unit
  BY <1>1, ElementOfSeq
<1>3. /\ s \in Seq(Unit) /\ Len(s) = IF 1 <= m THEN m-1+1 ELSE 0
      /\ \A i \in 1..m-1+1 : s[i] = u[1+i-1]
  BY <1>2, SubSeqProperties
<1> HIDE DEF s
<1>4. Len(s) = m /\ \A i \in 1..m : s[i] = u[i]
  BY <1>3
<1>5. \A i \in 1..m : s[i] = v[i]
  BY <1>1, <1>4
<1>6. s = v
  BY <1>1, <1>3, <1>4, <1>5, SeqEqual
<1> QED
  BY <1>6 DEF s, u, v

\* The next n units of the head or of the file, after the first `from'; and that they
\* are the ones that come after the first a of the answer.
Units(kind, from, n) == [i \in 1..n |-> <<kind, from + i>>]
Follow(code, a, kind, from, n) == \A i \in 1..n : <<kind, from + i>> = At(code, a + i)

\* After the first units of the answer, the next ones.
LEMMA UptoNext ==
  ASSUME NEW code \in Codes \cup {0}, NEW a \in Nat, NEW kind \in Codes \cup {0}, NEW from \in Nat,
         NEW n \in Nat, Follow(code, a, kind, from, n)
  PROVE  Upto(code, a) \o Units(kind, from, n) = Upto(code, a + n)
<1> DEFINE more == [i \in 1..n |-> <<kind, from + i>>]
<1>1. more \in [1..n -> Unit]
  <2>1. \A i \in 1..n : <<kind, from + i>> \in Unit
    BY DEF Unit
  <2> QED
    BY <2>1
<1>2. more \in Seq(Unit)
  BY <1>1
<1>3. Len(more) = n
  BY <1>1, <1>2, LenProperties
<1>4. \A i \in 1..n : more[i] = At(code, a + i)
  BY DEF Follow
<1> HIDE DEF more
<1>5. Upto(code, a) \o more = Upto(code, a + n)
  BY <1>2, <1>3, <1>4, UptoMore
<1> QED
  BY <1>5 DEF more, Units

\* In particular the next part of the file.
LEMMA UptoFile ==
  ASSUME NEW code \in Codes \cup {0}, NEW from \in Nat, NEW n \in Nat
  PROVE  Upto(code, AnsLen + from) \o Units(0, from, n) = Upto(code, AnsLen + from + n)
<1>1. ASSUME NEW i \in 1..n PROVE <<0, from + i>> = At(code, AnsLen + from + i)
  <2>1. from + i \in Nat \ {0} /\ AnsLen + from + i = AnsLen + (from + i)
    BY ConnectionAssumption
  <2> QED
    BY <2>1, AtFile
<1> DEFINE a == AnsLen + from
<1>2. a \in Nat /\ 0 \in Codes \cup {0}
  BY ConnectionAssumption
<1>3. Follow(code, a, 0, from, n)
  BY <1>1 DEF Follow
<1> HIDE DEF a
<1>4. Upto(code, a) \o Units(0, from, n) = Upto(code, a + n)
  BY <1>2, <1>3, UptoNext
<1> QED
  BY <1>4 DEF a

\* What the kernel takes goes to the end of the stream.
LEMMA TakeOut ==
  ASSUME NEW k \in Connections, NEW kind, NEW from, NEW n \in Nat \ {0}
  PROVE  Take(k, kind, from, n).out = k.out \o Units(kind, from, n)
<1> DEFINE more == [i \in 1..n |-> <<kind, from + i>>]
<1>1. Take(k, kind, from, n) = [k EXCEPT !.out = k.out \o more, !.sndq = k.sndq + n]
  BY DEF Take
<1> HIDE DEF more
<1>2. Take(k, kind, from, n).out = k.out \o more
  BY <1>1 DEF Connections
<1> QED
  BY <1>2 DEF more, Units

\* send_file puts the next part of the file on the stream, and ends when the last
\* is there.
LEMMA SendFileOrder ==
  ASSUME NEW k \in Connections, Sane(k), Favourable, InOrder(k), k.state = "sending_file",
         NEW q \in SendFile(k)
  PROVE  /\ InOrder(q) /\ q.code = k.code /\ q.state \in {"sending_file", "end"}
         /\ Progress(k) <= Progress(q)
<1> DEFINE toSend == FileLen - k.fileSent
           want == Lesser(toSend, Left(k))
           sent == IF toSend > 0 THEN {AddFileSent(k, n) : n \in SendReturns(k, want)} ELSE {k}
           After(r) == [r EXCEPT !.state = IF r.fileSent >= FileLen THEN "end" ELSE r.state]
<1>1. /\ k.foff \in Nat /\ k.fileSent \in Int /\ k.flen \in Nat /\ FileLen \in Nat
      /\ AnsLen \in Nat /\ k.code = 200 /\ k.code \in Codes \cup {0}
      /\ k.fileSent <= k.foff /\ k.foff <= k.flen /\ k.flen <= FileLen
      /\ k.out = Upto(200, AnsLen + k.foff) /\ k.code = ParseHttpHead(k.req)
  BY ConnectionAssumption DEF Connections, InOrder, Progress
<1>2. SendFile(k) = {After(r) : r \in sent}
  BY DEF SendFile, Left
<1>3. PICK r \in sent : q = After(r)
  BY <1>2
<1>4. /\ r \in Connections /\ r.state = "sending_file" /\ r.code = 200 /\ r.req = k.req
      /\ r.flen = k.flen /\ r.foff \in Nat /\ r.fileSent \in Int
      /\ r.fileSent <= r.foff /\ k.foff <= r.foff /\ r.foff <= r.flen
      /\ r.out = Upto(200, AnsLen + r.foff)
  <2>1. CASE toSend > 0
    <3>1. PICK n \in SendReturns(k, want) : r = AddFileSent(k, n)
      BY <2>1
    <3>2. want \in Nat /\ want <= Left(k) /\ Left(k) = k.flen - k.foff
      BY <1>1, <2>1 DEF Lesser, Left
    <3> HIDE DEF want
    <3>3. /\ n \in Int /\ n <= want /\ n <= Room(k)
          /\ n = Failed \/ n = Eagain \/ n \in Nat
      BY <3>2, SendReturnsFull DEF Favourable
    <3>4. r \in Connections
      BY <3>1, <3>2, AddFileSentType
    <3>5. CASE n = Failed
      <4>1. r = k
        BY <3>1, <3>5 DEF AddFileSent
      <4> QED
        BY <1>1, <4>1
    <3>6. CASE n # Failed
      <4> DEFINE t == Take(k, 0, k.foff, n)
      <4>1. Kept(k, t) /\ Frame(k, t)
        BY <1>1, <3>3, TakeKept
      <4>2. r = [t EXCEPT !.fileSent = t.fileSent + n, !.foff = IF n > 0 THEN t.foff + n ELSE t.foff]
        BY <3>1, <3>6 DEF AddFileSent
      <4>3. t.out = IF n > 0 THEN Upto(200, AnsLen + k.foff + n) ELSE k.out
        <5>1. CASE n > 0
          <6>1. n \in Nat \ {0} /\ n \in Nat
            BY <1>1, <3>3, <5>1 DEF Failed, Eagain
          <6>2. PICK code : code = k.code
            OBVIOUS
          <6>3. PICK from : from = k.foff
            OBVIOUS
          <6>4. code \in Codes \cup {0} /\ from \in Nat
            BY <1>1, <6>2, <6>3
          <6>5. Upto(code, AnsLen + from) \o Units(0, from, n) = Upto(code, AnsLen + from + n)
            BY <6>1, <6>4, UptoFile
          <6>6. t.out = k.out \o Units(0, k.foff, n)
            BY <6>1, TakeOut
          <6>7. k.out = Upto(k.code, AnsLen + k.foff) /\ k.code = 200
            BY <1>1
          <6> HIDE DEF t
          <6>8. t.out = Upto(code, AnsLen + from) \o Units(0, from, n)
            BY <6>2, <6>3, <6>6, <6>7
          <6>9. t.out = Upto(200, AnsLen + k.foff + n)
            BY <6>2, <6>3, <6>5, <6>7, <6>8
          <6> QED
            BY <5>1, <6>9
        <5>2. CASE ~(n > 0)
          BY <3>3, <5>2 DEF Take
        <5> QED
          BY <5>1, <5>2
      <4> HIDE DEF t
      <4>4. /\ t.fileSent = k.fileSent /\ t.foff = k.foff /\ t.flen = k.flen /\ t.state = k.state
            /\ t.code = k.code /\ t.req = k.req
        BY <4>1 DEF Frame, Kept
      <4>5. /\ r.fileSent = k.fileSent + n /\ r.foff = (IF n > 0 THEN k.foff + n ELSE k.foff)
            /\ r.flen = k.flen /\ r.state = k.state /\ r.code = k.code /\ r.req = k.req
            /\ r.out = t.out
        BY <4>1, <4>2, <4>4 DEF Connections, Kept
      <4>6. n <= k.flen - k.foff
        BY <1>1, <3>2, <3>3
      <4>7. AnsLen + k.foff + n = AnsLen + (k.foff + n)
        BY <1>1, <3>3
      <4>8. /\ r.fileSent \in Int /\ r.foff \in Nat /\ r.fileSent <= r.foff /\ k.foff <= r.foff
            /\ r.foff <= k.flen
        BY <1>1, <3>3, <4>5, <4>6
      <4>9. r.out = Upto(200, AnsLen + r.foff)
        BY <1>1, <4>3, <4>5, <4>7
      <4> QED
        BY <1>1, <3>4, <4>5, <4>8, <4>9
    <3> QED
      BY <3>5, <3>6
  <2>2. CASE ~(toSend > 0)
    <3>1. r = k
      BY <2>2
    <3> QED
      BY <1>1, <3>1
  <2> QED
    BY <2>1, <2>2
<1> HIDE DEF sent
<1>5. /\ q.state = IF r.fileSent >= FileLen THEN "end" ELSE "sending_file"
      /\ q.code = 200 /\ q.req = k.req /\ q.flen = k.flen /\ q.foff = r.foff
      /\ q.fileSent = r.fileSent /\ q.out = r.out
  BY <1>3, <1>4 DEF Connections, ConnState
<1>6. q.state = "end" => r.foff = FileLen
  BY <1>1, <1>4, <1>5
<1>7. Progress(q) = AnsLen + r.foff
  BY <1>5, <1>6 DEF Progress, Full
<1>8. Progress(k) = AnsLen + k.foff
  BY DEF Progress
<1> QED
  BY <1>1, <1>4, <1>5, <1>7, <1>8 DEF InOrder

\* start_send_file, called when the head is on the stream.
LEMMA StartSendFileOrder ==
  ASSUME NEW k \in Connections, Sane(k), Favourable,
         k.code = ParseHttpHead(k.req), k.out = Upto(k.code, AnsLen), k.fileOpen <=> k.code = 200,
         k.foff = 0, k.fileSent = 0, k.flen <= FileLen,
         NEW q \in StartSendFile(k)
  PROVE  InOrder(q) /\ q.code = k.code /\ q.state \in {"sending_file", "end"}
<1> DEFINE f == [k EXCEPT !.state = "sending_file"]
           e == [k EXCEPT !.state = "end"]
<1>0. AnsLen \in Nat /\ k.flen \in Nat /\ 0 <= k.flen /\ AnsLen + 0 = AnsLen
  BY ConnectionAssumption DEF Connections
<1>1. CASE k.fileOpen
  <2>1. /\ f \in Connections /\ f.state = "sending_file" /\ f.code = 200 /\ f.req = k.req
        /\ f.out = k.out /\ f.foff = 0 /\ f.fileSent = 0 /\ f.flen = k.flen /\ f.sndq = k.sndq
        /\ f.ansLen = k.ansLen
    BY <1>1 DEF Connections, ConnState
  <2>2. q \in SendFile(f)
    BY <1>1 DEF StartSendFile
  <2> HIDE DEF f
  <2>3. Sane(f)
    BY <2>1 DEF Sane
  <2>4. f.out = Upto(f.code, Progress(f))
    BY <1>0, <1>1, <2>1 DEF Progress
  <2>5. InOrder(f)
    BY <1>0, <1>1, <2>1, <2>4 DEF InOrder
  <2> QED
    BY <1>1, <2>1, <2>2, <2>3, <2>5, SendFileOrder
<1>2. CASE ~k.fileOpen
  <2>1. q = e
    BY <1>2 DEF StartSendFile
  <2>2. q.state = "end" /\ q.code = k.code /\ q.req = k.req /\ q.out = k.out
    BY <2>1 DEF Connections, ConnState
  <2>3. Progress(q) = AnsLen
    BY <1>0, <1>2, <2>2 DEF Progress, Full
  <2> QED
    BY <2>2, <2>3 DEF InOrder
<1> QED
  BY <1>1, <1>2

\* send_answer puts the head on the stream in one send, and what there is room for
\* of the file; a peer that has reset the connection gets nothing.
LEMMA SendAnswerOrder ==
  ASSUME NEW k \in Connections, Sane(k), Favourable, InOrder(k), FileReady(k),
         k.state = "sending_answer", NEW q \in SendAnswer(k)
  PROVE  /\ InOrder(q) /\ FileReady(q) /\ q.code = k.code
         /\ q.state \in {"sending_answer", "sending_file", "end"}
<1> DEFINE sent == {AddAnswerSent(k, n) : n \in SendReturns(k, AnsLen)}
<1>0. /\ AnsLen \in Nat \ {0} /\ AnsLen < SizeMax /\ SizeMax \in Nat /\ SndBuf \in Nat
      /\ k.code \in Codes \cup {0} /\ AnsLen <= SndBuf
  BY ConnectionAssumption DEF Connections, Favourable
<1>1. /\ k.ansLen = AnsLen /\ k.ansSent = 0 /\ k.sndq = 0 /\ k.foff = 0 /\ k.fileSent = 0
      /\ k.flen <= FileLen /\ k.code = ParseHttpHead(k.req) /\ k.out = Upto(k.code, 0)
      /\ k.fileOpen <=> k.code = 200
  BY DEF InOrder, FileReady, Progress
<1>2. k.ansLen - k.ansSent = AnsLen
  BY <1>0, <1>1
<1>3. SendAnswer(k) = UNION {IF r.ansSent >= r.ansLen THEN StartSendFile(r) ELSE {r} : r \in sent}
  BY <1>0, <1>2 DEF SendAnswer
<1>4. PICK n \in SendReturns(k, AnsLen) :
        LET r == AddAnswerSent(k, n) IN q \in (IF r.ansSent >= r.ansLen THEN StartSendFile(r) ELSE {r})
  BY <1>3
<1> DEFINE r == AddAnswerSent(k, n)
<1>5. n = Failed \/ n = AnsLen
  <2>1. Room(k) = SndBuf
    BY <1>0, <1>1 DEF Room
  <2>2. /\ n \in {Failed, Eagain} \cup 0..AnsLen
        /\ \/ n = Failed /\ AnsLen > 0 /\ k.peer = "rst"
           \/ n = Eagain /\ AnsLen > 0 /\ k.peer # "rst" /\ (Room(k) = 0 \/ Pressure)
           \/ n = Lesser(AnsLen, Room(k)) /\ (AnsLen = 0 \/ (n > 0 /\ k.peer # "rst"))
    BY DEF SendReturns
  <2> QED
    BY <1>0, <2>1, <2>2 DEF Lesser, Favourable
<1>6. CASE n = Failed
  <2>1. r = k
    BY <1>6 DEF AddAnswerSent
  <2>2. q = k
    BY <1>0, <1>1, <1>4, <2>1
  <2> QED
    BY <2>2
<1>7. CASE n = AnsLen
  <2> DEFINE t == Take(k, k.code, 0, AnsLen)
  <2>1. Kept(k, t) /\ Frame(k, t)
    <3>1. AnsLen <= Room(k)
      BY <1>0, <1>1 DEF Room
    <3> QED
      BY <1>0, <3>1, TakeKept DEF Favourable
  <2>2. t.out = Upto(k.code, AnsLen)
    <3>1. Follow(k.code, 0, k.code, 0, AnsLen)
      BY <1>0 DEF Follow, At
    <3>2. Upto(k.code, 0) \o Units(k.code, 0, AnsLen) = Upto(k.code, 0 + AnsLen)
      BY <1>0, <3>1, UptoNext
    <3>3. t.out = k.out \o Units(k.code, 0, AnsLen)
      BY <1>0, TakeOut
    <3>4. 0 + AnsLen = AnsLen
      BY <1>0
    <3> QED
      BY <1>1, <3>2, <3>3, <3>4
  <2>3. r = [t EXCEPT !.ansSent = (t.ansSent + AnsLen) % (SizeMax + 1)]
    BY <1>0, <1>1, <1>7 DEF AddAnswerSent, Failed
  <2> HIDE DEF t
  <2>4. (0 + AnsLen) % (SizeMax + 1) = AnsLen
    BY <1>0
  <2>5. /\ r \in Connections /\ r.ansSent = AnsLen /\ r.ansLen = AnsLen /\ r.code = k.code
        /\ r.req = k.req /\ r.out = t.out /\ r.fileOpen = k.fileOpen
        /\ r.foff = 0 /\ r.fileSent = 0 /\ r.flen = k.flen /\ r.sndq = t.sndq
    <3>1. /\ t \in Connections /\ t.ansSent = 0 /\ t.ansLen = AnsLen /\ t.code = k.code
          /\ t.req = k.req /\ t.fileOpen = k.fileOpen
          /\ t.foff = 0 /\ t.fileSent = 0 /\ t.flen = k.flen
      BY <1>1, <2>1 DEF Kept, Frame
    <3>2. r = [t EXCEPT !.ansSent = AnsLen]
      BY <2>3, <2>4, <3>1
    <3> HIDE DEF r
    <3> QED
      BY <1>0, <3>1, <3>2 DEF Connections
  <2> HIDE DEF r
  <2>6. q \in StartSendFile(r)
    BY <1>0, <1>4, <2>5 DEF r
  <2>7. Sane(r)
    BY <2>1, <2>5 DEF Sane, Kept
  <2>8. InOrder(q) /\ q.code = k.code /\ q.state \in {"sending_file", "end"}
    BY <1>1, <2>2, <2>5, <2>6, <2>7, StartSendFileOrder
  <2> QED
    BY <2>8 DEF FileReady
<1> QED
  BY <1>5, <1>6, <1>7

\* start_send_answer leaves a connection with a head to send.
LEMMA AnswerBegun ==
  ASSUME NEW k \in Connections, NEW code \in Codes \cup {0}, NEW s \in ConnState
  PROVE  [k EXCEPT !.state = s, !.code = code, !.ansLen = AnsLen, !.ansSent = 0] \in Connections
  BY ConnectionAssumption DEF Connections

\* The end of fs_on_ready_read, with the code that parse_http_head returns.
LEMMA AnswerOrder ==
  ASSUME NEW k \in Connections, Sane(k), Favourable, InOrder(k), FileReady(k),
         k.state = "wait_request", NEW q \in Answer(k, ParseHttpHead(k.req))
  PROVE  InOrder(q) /\ FileReady(q) /\ q.state # "wait_request"
<1> DEFINE code == ParseHttpHead(k.req)
           opened(n) == [k EXCEPT !.fileOpen = TRUE, !.flen = n]
           a(n) == [opened(n) EXCEPT !.state = "sending_answer", !.code = 200,
                                     !.ansLen = AnsLen, !.ansSent = 0]
           b == [k EXCEPT !.state = "sending_answer", !.code = code, !.ansLen = AnsLen,
                          !.ansSent = 0]
<1>0. /\ AnsLen \in Nat /\ FileLens \subseteq Nat /\ code \in Codes
      /\ \A n \in FileLens : n <= FileLen
  BY ConnectionAssumption DEF ParseHttpHead, Codes, Favourable
<1>1. /\ k.sndq = 0 /\ k.foff = 0 /\ k.fileSent = 0 /\ k.flen <= FileLen
      /\ k.out = << >> /\ ~k.fileOpen
  <2>1. k.out = Upto(k.code, 0)
    BY DEF InOrder, Progress
  <2>2. Upto(k.code, 0) = << >>
    BY DEF Upto
  <2> QED
    BY <2>1, <2>2 DEF InOrder, FileReady
<1>2. << >> = Upto(code, 0) /\ << >> = Upto(200, 0)
  BY DEF Upto
<1>3. CASE code = 200
  <2> HIDE DEF code
  <2>1. PICK n \in FileLens : q \in StartSendAnswer(opened(n), 200)
    <3>1. Answer(k, code) = UNION {StartSendAnswer(opened(n), 200) : n \in FileLens}
      BY <1>3 DEF Answer
    <3> HIDE DEF opened
    <3> QED
      BY <3>1 DEF code
  <2>2. q \in SendAnswer(a(n))
    BY <2>1 DEF StartSendAnswer, Favourable
  <2>3. /\ a(n) \in Connections /\ a(n).state = "sending_answer" /\ a(n).code = 200
        /\ a(n).req = k.req /\ a(n).ansLen = AnsLen /\ a(n).ansSent = 0 /\ a(n).sndq = 0
        /\ a(n).foff = 0 /\ a(n).fileSent = 0 /\ a(n).flen = n /\ a(n).out = << >>
        /\ a(n).fileOpen = TRUE
    <3>1. /\ opened(n) \in Connections /\ opened(n).req = k.req /\ opened(n).sndq = 0
          /\ opened(n).foff = 0 /\ opened(n).fileSent = 0 /\ opened(n).flen = n
          /\ opened(n).out = << >> /\ opened(n).fileOpen = TRUE
      BY <1>0, <1>1 DEF Connections
    <3> HIDE DEF opened
    <3>2. PICK o : o = opened(n)
      OBVIOUS
    <3>3. a(n) = [o EXCEPT !.state = "sending_answer", !.code = 200, !.ansLen = AnsLen, !.ansSent = 0]
      BY <3>2
    <3> HIDE DEF a
    <3>4. 200 \in Codes \cup {0} /\ "sending_answer" \in ConnState
      BY DEF Codes, ConnState
    <3>5. o \in Connections /\ AnsLen \in Nat
      BY <1>0, <3>1, <3>2
    <3>6. a(n) \in Connections
      <4>1. [o EXCEPT !.state = "sending_answer", !.code = 200, !.ansLen = AnsLen, !.ansSent = 0]
              \in Connections
        BY <3>4, <3>5, AnswerBegun
      <4> QED
        BY <3>3, <4>1
    <3>7. /\ a(n).state = "sending_answer" /\ a(n).code = 200 /\ a(n).ansLen = AnsLen
          /\ a(n).ansSent = 0 /\ a(n).req = o.req /\ a(n).sndq = o.sndq /\ a(n).foff = o.foff
          /\ a(n).fileSent = o.fileSent /\ a(n).flen = o.flen /\ a(n).out = o.out
          /\ a(n).fileOpen = o.fileOpen
      BY <3>3, <3>5 DEF Connections
    <3> QED
      BY <3>1, <3>2, <3>6, <3>7
  <2> HIDE DEF a
  <2>4. InOrder(a(n)) /\ FileReady(a(n)) /\ Sane(a(n))
    BY <1>0, <1>2, <1>3, <2>3, ConnectionAssumption DEF InOrder, FileReady, Progress, Sane, code
  <2> QED
    BY <2>2, <2>3, <2>4, SendAnswerOrder
<1>4. CASE code # 200
  <2>1. q \in SendAnswer(b)
    BY <1>4 DEF Answer, StartSendAnswer, Favourable
  <2>2. /\ b \in Connections /\ b.state = "sending_answer" /\ b.code = code
        /\ b.req = k.req /\ b.ansLen = AnsLen /\ b.ansSent = 0 /\ b.sndq = 0
        /\ b.foff = 0 /\ b.fileSent = 0 /\ b.flen = k.flen /\ b.out = << >>
        /\ ~b.fileOpen
    BY <1>0, <1>1 DEF Connections, ConnState
  <2> HIDE DEF b
  <2>3. InOrder(b) /\ FileReady(b) /\ Sane(b)
    BY <1>1, <1>2, <1>4, <2>2, ConnectionAssumption DEF InOrder, FileReady, Progress, Sane
  <2> QED
    BY <2>1, <2>2, <2>3, SendAnswerOrder
<1> QED
  BY <1>3, <1>4

\* fs_on_ready_read.
LEMMA OnReadyReadOrder ==
  ASSUME NEW k \in Connections, Sane(k), Favourable, InOrder(k), FileReady(k),
         NEW q \in OnReadyRead(k)
  PROVE  InOrder(q) /\ FileReady(q) /\ (k.state # "wait_request" => q = k)
<1>1. CASE k.state # "wait_request"
  BY <1>1 DEF OnReadyRead
<1>2. CASE k.state = "wait_request"
  <2> DEFINE read == [k EXCEPT !.got = k.got + k.unread, !.unread = 0]
             w == [read EXCEPT !.poisoned = TRUE]
  <2>1. k.got + k.unread \in Nat
    BY DEF Connections
  <2>2. /\ read \in Connections /\ w \in Connections
        /\ read.state = "wait_request" /\ read.code = k.code /\ read.out = k.out
        /\ read.sndq = k.sndq /\ read.ansSent = k.ansSent /\ read.foff = k.foff
        /\ read.fileSent = k.fileSent /\ read.flen = k.flen /\ read.fileOpen = k.fileOpen
        /\ read.ansLen = k.ansLen /\ read.req = k.req
        /\ w.state = "wait_request" /\ w.code = k.code /\ w.out = k.out
        /\ w.sndq = k.sndq /\ w.ansSent = k.ansSent /\ w.foff = k.foff
        /\ w.fileSent = k.fileSent /\ w.flen = k.flen /\ w.fileOpen = k.fileOpen
    BY <1>2, <2>1 DEF Connections
  <2>3. q = w \/ \E c \in AnswerCodes(read, TRUE) : q \in Answer(read, c)
    BY <1>2 DEF OnReadyRead, Favourable
  <2> HIDE DEF read, w
  <2>4. AnswerCodes(read, TRUE) = {ParseHttpHead(read.req)}
    BY DEF AnswerCodes, Favourable
  <2>5. InOrder(read) /\ FileReady(read) /\ Sane(read) /\ InOrder(w) /\ FileReady(w)
    BY <1>2, <2>2 DEF InOrder, FileReady, Progress, Sane
  <2> QED
    BY <1>2, <2>2, <2>3, <2>4, <2>5, AnswerOrder
<1> QED
  BY <1>1, <1>2

\* fs_on_ready_write.
LEMMA OnReadyWriteOrder ==
  ASSUME NEW k \in Connections, Sane(k), Favourable, InOrder(k), FileReady(k),
         NEW q \in OnReadyWrite(k)
  PROVE  /\ InOrder(q) /\ FileReady(q) /\ Progress(k) <= Progress(q) /\ q.code = k.code
         /\ q.state = "wait_request" => q = k
<1>1. CASE k.state = "sending_answer"
  <2>1. q \in SendAnswer(k)
    BY <1>1 DEF OnReadyWrite
  <2>2. /\ InOrder(q) /\ FileReady(q) /\ q.code = k.code
        /\ q.state \in {"sending_answer", "sending_file", "end"} /\ q \in Connections
    BY <1>1, <2>1, SendAnswerOrder, SendAnswerType
  <2>3. Progress(k) = 0 /\ Progress(q) \in Nat
    <3>1. q.foff \in Nat
      BY <2>2 DEF Connections
    <3> QED
      BY <1>1, <3>1, ConnectionAssumption DEF Progress, Full
  <2> QED
    BY <2>2, <2>3
<1>2. CASE k.state = "sending_file"
  <2>1. q \in SendFile(k)
    BY <1>2 DEF OnReadyWrite
  <2> QED
    BY <1>2, <2>1, SendFileOrder DEF FileReady
<1>3. CASE k.state \notin {"sending_answer", "sending_file"}
  <2>1. q = k
    BY <1>3 DEF OnReadyWrite
  <2>2. Progress(k) \in Nat
    BY <1>3, ConnectionAssumption DEF Progress, Full
  <2> QED
    BY <2>1, <2>2
<1> QED
  BY <1>1, <1>2, <1>3

\* What the client, its kernel and fs_close_conn do to a connection is nothing to
\* the answer.
SameAnswer(k, q) ==
  /\ q.state = k.state /\ q.req = k.req /\ q.code = k.code /\ q.ansLen = k.ansLen
  /\ q.ansSent = k.ansSent /\ q.fileSent = k.fileSent /\ q.out = k.out /\ q.foff = k.foff
  /\ q.flen = k.flen /\ (q.sndq = k.sndq \/ k.sndq > 0)

\* What happens to its socket alone changes nothing of that.
LEMMA SocketOrder ==
  ASSUME NEW k \in Connections
  PROVE  /\ \A n : SameAnswer(k, [k EXCEPT !.unread = n]) /\ [k EXCEPT !.unread = n].fileOpen = k.fileOpen
         /\ \A n : k.sndq > 0 => SameAnswer(k, [k EXCEPT !.sndq = n]) /\ [k EXCEPT !.sndq = n].fileOpen = k.fileOpen
         /\ \A p : SameAnswer(k, [k EXCEPT !.peer = p]) /\ [k EXCEPT !.peer = p].fileOpen = k.fileOpen
         /\ SameAnswer(k, CloseConn(k))
  BY DEF SameAnswer, CloseConn, Connections

\* And what is sent of the answer stays in order.
LEMMA SameOrder ==
  ASSUME NEW k \in Connections, NEW q, SameAnswer(k, q), InOrder(k)
  PROVE  InOrder(q) /\ (FileReady(k) /\ q.fileOpen = k.fileOpen => FileReady(q))
<1>1. Progress(q) = Progress(k)
  BY DEF SameAnswer, Progress
<1>2. k.sndq = 0 => ~(k.sndq > 0)
  OBVIOUS
<1> QED
  BY <1>1, <1>2 DEF SameAnswer, InOrder, FileReady

-----------------------------------------------------------------------------
(***************************************************************************)
(* The event loop.                                                         *)
(***************************************************************************)

\* The connection whose handlers are running is one, not the listening socket.
Handling == pc \in {"read", "write", "hup", "end"} => cur \in Conn

\* The variables keep their types: the counters never leave the integers, and
\* no handler leaves a malformed connection behind.
THEOREM TypeCorrect == Spec => []TypeOK
<1>1. Init => TypeOK /\ Handling
  <2> SUFFICES ASSUME Init PROVE TypeOK /\ Handling
    OBVIOUS
  <2>1. PICK req \in [Conn -> Requests] : conn = [c \in Conn |-> NewConn(req[c])]
    BY DEF Init
  <2>2. \A c \in Conn : NewConn(req[c]) \in Connections
    BY <2>1, RequestsAssumption DEF NewConn, Connections, ConnState, Peer
  <2>3. conn \in [Conn -> Connections]
    BY <2>1, <2>2
  <2>4. pc = "boot" /\ cur = Listener /\ Handling
    BY DEF Init, Handling
  <2>5. life \in [Conn -> Life] /\ mask \in [Conn -> SUBSET Bits]
    BY DEF Init, Life
  <2>6. pc \in PC /\ run_flag \in BOOLEAN
    BY DEF Init, PC
  <2> QED
    BY <2>3, <2>4, <2>5, <2>6 DEF Init, TypeOK
<1>2. TypeOK /\ Handling /\ [Next]_vars => TypeOK' /\ Handling'
  <2> SUFFICES ASSUME TypeOK, Handling, [Next]_vars PROVE TypeOK' /\ Handling'
    OBVIOUS
  <2> USE DEF TypeOK, Handling
  <2>1. ASSUME NEW c \in Conn, Connect(c) PROVE TypeOK' /\ Handling'
    BY <2>1 DEF Connect, loop, Life
  <2>2. ASSUME NEW c \in Conn, SendPart(c) PROVE TypeOK' /\ Handling'
    <3>1. [conn[c] EXCEPT !.unread = @ + 1] \in Connections
      BY SocketType
    <3>2. conn' \in [Conn -> Connections]
      BY <2>2, <3>1 DEF SendPart
    <3> QED
      BY <2>2, <3>2 DEF SendPart, Edge, loop
  <2>3. ASSUME NEW c \in Conn, Ack(c) PROVE TypeOK' /\ Handling'
    <3>1. [conn[c] EXCEPT !.sndq = @ - 1] \in Connections
      BY <2>3, SocketType DEF Ack
    <3>2. conn' \in [Conn -> Connections]
      BY <2>3, <3>1 DEF Ack
    <3> QED
      BY <2>3, <3>2 DEF Ack, Edge, loop
  <2>4. ASSUME NEW c \in Conn, Quit(c) PROVE TypeOK' /\ Handling'
    <3>1. \A how \in Quits : [conn[c] EXCEPT !.peer = how] \in Connections
      BY SocketType, ServerAssumption DEF Peer
    <3>2. conn' \in [Conn -> Connections]
      BY <2>4, <3>1 DEF Quit
    <3> QED
      BY <2>4, <3>2 DEF Quit, Edge, loop
  <2>5. CASE Boot
    BY <2>5 DEF Boot, PC
  <2>6. CASE LoopTest
    BY <2>6 DEF LoopTest, loop, PC
  <2>7. CASE EpollWait
    <3>1. \A c \in Conn : EventBits(c) \in SUBSET Bits
      BY DEF EventBits
    <3> QED
      BY <2>7, <3>1 DEF EpollWait, loop, PC
  <2>8. CASE NextEvent
    BY <2>8 DEF NextEvent, PC
  <2>9. CASE EndOfBatch
    BY <2>9 DEF EndOfBatch, loop, PC
  <2>10. ASSUME NEW c \in Conn, Accept(c) PROVE TypeOK' /\ Handling'
    <3>1. life' \in [Conn -> Life]
      BY <2>10 DEF Accept, Life
    <3>2. conn_number' \in Nat /\ ready' \subseteq Conn \cup {Listener}
      BY <2>10 DEF Accept
    <3> QED
      BY <2>10, <3>1, <3>2 DEF Accept
  <2>11. ASSUME NEW c \in Conn, AcceptInVain(c) PROVE TypeOK' /\ Handling'
    <3>1. life' \in [Conn -> Life]
      BY <2>11 DEF AcceptInVain, Life
    <3>2. conn_number' \in Nat
      BY <2>11 DEF AcceptInVain
    <3> QED
      BY <2>11, <3>1, <3>2 DEF AcceptInVain
  <2>12. CASE AcceptDone
    BY <2>12 DEF AcceptDone, PC
  <2>13. CASE Read
    <3>1. cur \in Conn /\ OnReadyRead(conn[cur]) \subseteq Connections
      BY <2>13, OnReadyReadType DEF Read
    <3>2. conn' \in [Conn -> Connections]
      BY <2>13, <3>1 DEF Read
    <3> QED
      BY <2>13, <3>2 DEF Read, loop, PC
  <2>14. CASE ReadNull
    BY <2>14 DEF ReadNull, loop, PC
  <2>15. CASE Write
    <3>1. cur \in Conn /\ OnReadyWrite(conn[cur]) \subseteq Connections
      BY <2>15, OnReadyWriteType DEF Write
    <3>2. conn' \in [Conn -> Connections]
      BY <2>15, <3>1 DEF Write
    <3> QED
      BY <2>15, <3>2 DEF Write, loop, PC
  <2>16. ASSUME cur \in Conn, Terminate
         PROVE  /\ connections_count' \in Int
                /\ life' \in [Conn -> Life]
                /\ conn' \in [Conn -> Connections]
                /\ ready' \subseteq Conn \cup {Listener}
    <3>1. CloseConn(conn[cur]) \in Connections
      BY <2>16, SocketType
    <3>2. life' \in [Conn -> Life]
      BY <2>16 DEF Terminate, Life
    <3>3. conn' \in [Conn -> Connections]
      BY <2>16, <3>1 DEF Terminate
    <3>4. connections_count' \in Int
      <4>1. connections_count' = connections_count - 1
        BY <2>16 DEF Terminate
      <4>2. connections_count \in Int
        OBVIOUS
      <4> QED
        BY <4>1, <4>2
    <3>5. ready' \subseteq Conn \cup {Listener}
      BY <2>16 DEF Terminate
    <3> QED
      BY <3>2, <3>3, <3>4, <3>5
  <2>17. CASE Hup
    BY <2>16, <2>17 DEF Hup, PC
  <2>18. CASE End
    BY <2>16, <2>18 DEF End, PC
  <2>19. CASE EndAborts
    BY <2>19 DEF EndAborts, loop, PC
  <2>20. CASE Stop
    <3>1. pc' \in PC /\ (pc' = pc \/ pc' = "loop")
      BY <2>20 DEF Stop, PC
    <3>2. run_flag' = FALSE /\ signals' = signals + 1
      BY <2>20 DEF Stop
    <3>4. signals' \in Nat
      <4>1. signals \in Nat
        OBVIOUS
      <4> QED
        BY <3>2, <4>1
    <3>3. UNCHANGED <<connections_count, conn_number, life, conn, ready, batch, mask, cur>>
      BY <2>20 DEF Stop
    <3> QED
      BY <3>1, <3>2, <3>3, <3>4
  <2>21. CASE UNCHANGED vars
    BY <2>21 DEF vars, loop
  <2> QED
    BY <2>1, <2>2, <2>3, <2>4, <2>5, <2>6, <2>7, <2>8, <2>9, <2>10, <2>11, <2>12, <2>13,
       <2>14, <2>15, <2>17, <2>18, <2>19, <2>20, <2>21 DEF Next, Thread, Client
<1> QED
  BY <1>1, <1>2, PTL DEF Spec

-----------------------------------------------------------------------------
\* No event of a batch is about a connection that an earlier event of the same
\* batch freed, and the handlers only run on connections that are not freed
\* (main.c:164-187): terminate_connection takes its connection out of the
\* epoll set, and epoll_wait reports a connection at most once per batch.
THEOREM EventsFresh == Spec => []NoStaleEvent
<1>1. Init => NoStaleEvent
  BY DEF Init, NoStaleEvent
<1>2. TypeOK /\ NoStaleEvent /\ [Next]_vars => NoStaleEvent'
  <2> SUFFICES ASSUME TypeOK, NoStaleEvent, [Next]_vars PROVE NoStaleEvent'
    OBVIOUS
  <2> USE ServerAssumption DEF NoStaleEvent, In
  <2>0. life \in [Conn -> Life] /\ (cur = Listener \/ cur \in Conn)
    BY DEF TypeOK
  <2>1. ASSUME NEW c \in Conn, Connect(c) PROVE NoStaleEvent'
    BY <2>0, <2>1 DEF Connect
  <2>2. ASSUME NEW c \in Conn, SendPart(c) \/ Ack(c) \/ Quit(c) PROVE NoStaleEvent'
    <3>1. /\ ready' \subseteq ready \cup {c} /\ (ready' # ready => life[c] = "live")
          /\ UNCHANGED <<pc, life, batch, cur>>
      BY <2>2 DEF SendPart, Ack, Quit, Edge
    <3> QED
      BY <3>1
  <2>3. CASE Boot \/ LoopTest \/ EndOfBatch \/ Read \/ ReadNull \/ Write \/ EndAborts
    <3>1. UNCHANGED <<life, batch, ready, cur>>
      BY <2>3 DEF Boot, LoopTest, EndOfBatch, Read, ReadNull, Write, EndAborts, loop
    <3>2. \/ pc' \in {"loop", "wait", "exited", "aborted"}
          \/ pc = "read" /\ pc' = "write"
          \/ pc = "write" /\ pc' = "hup"
      BY <2>3 DEF Boot, LoopTest, EndOfBatch, Read, ReadNull, Write, EndAborts
    <3> QED
      BY <3>1, <3>2
  <2>4. CASE EpollWait
    <3>1. /\ batch' \cup ready' \subseteq ready
          /\ UNCHANGED <<life, cur>>
          /\ pc' \in {"wait", "next"}
      BY <2>4 DEF EpollWait
    <3> QED
      BY <3>1
  <2>5. CASE NextEvent
    BY <2>5 DEF NextEvent
  <2>6. ASSUME NEW c \in Conn, Accept(c) PROVE NoStaleEvent'
    <3>1. /\ life' = [life EXCEPT ![c] = "live"]
          /\ pc = "accept" /\ pc' = pc
          /\ ready' \subseteq ready \cup {c}
          /\ UNCHANGED <<batch, cur>>
      BY <2>6 DEF Accept
    <3> QED
      BY <2>0, <3>1
  <2>7. ASSUME NEW c \in Conn, AcceptInVain(c) PROVE NoStaleEvent'
    <3>1. /\ life[c] = "queued" /\ \E end \in Life : life' = [life EXCEPT ![c] = end]
          /\ pc = "accept" /\ pc' = pc
          /\ UNCHANGED <<batch, ready, cur>>
      BY <2>7 DEF AcceptInVain, Life
    <3> QED
      BY <2>0, <3>1
  <2>8. CASE AcceptDone
    BY <2>8 DEF AcceptDone
  <2>9. CASE Hup
    <3>1. CASE Terminate
      BY <2>0, <2>9, <3>1 DEF Hup, Terminate
    <3>2. CASE UNCHANGED <<life, ready>>
      BY <2>9, <3>2 DEF Hup
    <3> QED
      BY <2>9, <3>1, <3>2 DEF Hup
  <2>10. CASE End
    <3>1. CASE Terminate
      BY <2>0, <2>10, <3>1 DEF End, Terminate
    <3>2. CASE UNCHANGED <<life, ready>>
      BY <2>10, <3>2 DEF End
    <3> QED
      BY <2>10, <3>1, <3>2 DEF End
  <2>11. CASE Stop
    <3>1. UNCHANGED <<life, batch, ready, cur>> /\ (pc' = pc \/ pc' \in {"wait", "loop"})
      BY <2>11 DEF Stop
    <3> QED
      BY <3>1
  <2>12. CASE UNCHANGED vars
    BY <2>12 DEF vars
  <2> QED
    BY <2>1, <2>2, <2>3, <2>4, <2>5, <2>6, <2>7, <2>8, <2>9, <2>10, <2>11, <2>12
    DEF Next, Thread, Client
<1> QED
  BY <1>1, <1>2, TypeCorrect, PTL DEF Spec

-----------------------------------------------------------------------------
\* The inductive form of the balance: the count under way in add_connections
\* is zero outside it.
Balance == CountBalance /\ (pc # "accept" => conn_number = 0)

\* The stages of life are finite sets, whose sizes a connection that enters or
\* leaves changes by one.
LEMMA Sizes ==
  ASSUME NEW S, S \subseteq Conn
  PROVE  /\ Cardinality(S) \in Nat
         /\ \A c \in Conn \ S : Cardinality(S \cup {c}) = Cardinality(S) + 1
         /\ \A c \in S : Cardinality(S \ {c}) = Cardinality(S) - 1
<1>1. IsFiniteSet(S)
  BY ServerAssumption, FS_Subset
<1> QED
  BY <1>1, FS_CardinalityType, FS_AddElement, FS_RemoveElement

\* The balance is kept by every step: only Accept adds to the count under way,
\* and only Terminate takes from the count.
LEMMA Balanced == Spec => []Balance
<1> DEFINE live == In("live")
           rejected == In("rejected")
           twice == In("freed_twice")
<1>1. Init => Balance
  <2> SUFFICES ASSUME Init PROVE Balance
    OBVIOUS
  <2>1. live = {} /\ rejected = {} /\ twice = {}
    BY DEF Init, In
  <2>2. connections_count = 0 /\ conn_number = 0
    BY DEF Init
  <2> QED
    BY <2>1, <2>2, FS_EmptySet DEF Balance, CountBalance
<1>2. TypeOK /\ NoStaleEvent /\ Balance /\ [Next]_vars => Balance'
  <2> SUFFICES ASSUME TypeOK, NoStaleEvent, Balance, [Next]_vars PROVE Balance'
    OBVIOUS
  <2>0. life \in [Conn -> Life] /\ connections_count \in Int /\ conn_number \in Nat
    BY DEF TypeOK
  <2>a. /\ live \subseteq Conn /\ rejected \subseteq Conn /\ twice \subseteq Conn
        /\ Cardinality(live) \in Nat /\ Cardinality(rejected) \in Nat /\ Cardinality(twice) \in Nat
    <3>1. live \subseteq Conn /\ rejected \subseteq Conn /\ twice \subseteq Conn
      BY DEF In
    <3> QED
      BY <3>1, Sizes
  <2>b. /\ connections_count + conn_number =
             Cardinality(live) + Cardinality(rejected) - Cardinality(twice)
        /\ pc # "accept" => conn_number = 0
    BY DEF Balance, CountBalance
  <2>c. ASSUME /\ connections_count' + conn_number' =
                    Cardinality(live') + Cardinality(rejected') - Cardinality(twice')
               /\ pc' # "accept" => conn_number' = 0
        PROVE  Balance'
    BY <2>c DEF Balance, CountBalance
  <2>d. ASSUME UNCHANGED life PROVE live' = live /\ rejected' = rejected /\ twice' = twice
    BY <2>d DEF In
  <2>e. ASSUME NEW c \in Conn, NEW w, life' = [life EXCEPT ![c] = w]
        PROVE  /\ live' = IF w = "live" THEN live \cup {c} ELSE live \ {c}
               /\ rejected' = IF w = "rejected" THEN rejected \cup {c} ELSE rejected \ {c}
               /\ twice' = IF w = "freed_twice" THEN twice \cup {c} ELSE twice \ {c}
    BY <2>0, <2>e DEF In
  <2>h. ASSUME NEW c \in Conn, NEW w, w \notin {"live", "rejected", "freed_twice"},
               life' = [life EXCEPT ![c] = w]
        PROVE  live' = live \ {c} /\ rejected' = rejected \ {c} /\ twice' = twice \ {c}
    BY <2>0, <2>h DEF In
  <2>f. \A c \in Conn : /\ c \in live <=> life[c] = "live"
                        /\ c \in rejected <=> life[c] = "rejected"
                        /\ c \in twice <=> life[c] = "freed_twice"
    BY DEF In
  <2>g. \A S, c : c \notin S => S \ {c} = S
    OBVIOUS
  <2> HIDE DEF live, rejected, twice
  <2>1. ASSUME NEW c \in Conn, Connect(c) PROVE Balance'
    <3>1. life[c] = "none" /\ life' = [life EXCEPT ![c] = "queued"]
      BY <2>1 DEF Connect
    <3>2. live' = live /\ rejected' = rejected /\ twice' = twice
      <4>1. c \notin live /\ c \notin rejected /\ c \notin twice
        BY <2>f, <3>1
      <4>2. live' = live \ {c} /\ rejected' = rejected \ {c} /\ twice' = twice \ {c}
        BY <2>h, <3>1
      <4> QED
        BY <2>g, <4>1, <4>2
    <3>3. UNCHANGED <<pc, connections_count, conn_number>>
      BY <2>1 DEF Connect, loop
    <3> QED
      BY <2>b, <2>c, <3>2, <3>3
  <2>2. ASSUME NEW c \in Conn, Accept(c) PROVE Balance'
    <3>1. life[c] = "queued" /\ life' = [life EXCEPT ![c] = "live"]
      BY <2>2 DEF Accept
    <3>2. live' = live \cup {c} /\ c \notin live /\ rejected' = rejected /\ twice' = twice
      BY <2>e, <2>f, <2>g, <3>1
    <3>3. Cardinality(live') = Cardinality(live) + 1
      BY <2>a, <3>2, Sizes
    <3>4. /\ pc' = "accept"
          /\ connections_count' = connections_count
          /\ conn_number' = conn_number + 1
      BY <2>2 DEF Accept
    <3>5. /\ Cardinality(rejected') = Cardinality(rejected)
          /\ Cardinality(twice') = Cardinality(twice)
      BY <3>2
    <3>6. connections_count' + conn_number' =
            Cardinality(live') + Cardinality(rejected') - Cardinality(twice')
      <4>1. connections_count + conn_number =
              Cardinality(live) + Cardinality(rejected) - Cardinality(twice)
        BY <2>b
      <4>2. connections_count' = connections_count /\ conn_number' = conn_number + 1
        BY <3>4
      <4>3. connections_count \in Int /\ conn_number \in Int
        BY <2>0
      <4>4. /\ Cardinality(live) \in Int /\ Cardinality(rejected) \in Int
            /\ Cardinality(twice) \in Int
        BY <2>a
      <4> QED
        BY <3>3, <3>5, <4>1, <4>2, <4>3, <4>4
    <3>7. pc' = "accept"
      BY <3>4
    <3> QED
      BY <2>c, <3>6, <3>7
  <2>3. ASSUME NEW c \in Conn, AcceptInVain(c) PROVE Balance'
    <3>1. life[c] = "queued" /\ pc = "accept" /\ UNCHANGED <<pc, connections_count>>
      BY <2>3 DEF AcceptInVain
    <3>2. CASE life' = [life EXCEPT ![c] = "rejected"] /\ conn_number' = conn_number + 1
      <4>1. rejected' = rejected \cup {c} /\ c \notin rejected /\ live' = live /\ twice' = twice
        BY <2>e, <2>f, <2>g, <3>1, <3>2
      <4>2. Cardinality(rejected') = Cardinality(rejected) + 1
        BY <2>a, <4>1, Sizes
      <4> QED
        BY <2>0, <2>a, <2>b, <2>c, <3>1, <3>2, <4>1, <4>2
    <3>3. ASSUME NEW w \in {"closed", "leaked"}, life' = [life EXCEPT ![c] = w],
                 conn_number' = conn_number
          PROVE  Balance'
      <4>1. live' = live /\ rejected' = rejected /\ twice' = twice
        BY <2>e, <2>f, <2>g, <3>1, <3>3
      <4> QED
        BY <2>b, <2>c, <3>1, <3>3, <4>1
    <3> QED
      BY <2>3, <3>2, <3>3 DEF AcceptInVain
  <2>4. CASE AcceptDone
    <3>1. /\ connections_count' = connections_count + conn_number
          /\ conn_number' = 0 /\ life' = life
      BY <2>4 DEF AcceptDone
    <3> QED
      BY <2>0, <2>b, <2>c, <2>d, <3>1
  <2>5. ASSUME Terminate, pc \in {"hup", "end"}, conn_number' = conn_number PROVE Balance'
    <3>1. cur \in Conn /\ life[cur] \in {"live", "freed"} /\ conn_number = 0
      BY <2>5, <2>b DEF NoStaleEvent, In
    <3>2. connections_count' = connections_count - 1
      BY <2>5 DEF Terminate
    <3>3. CASE life[cur] = "live"
      <4>1. life' = [life EXCEPT ![cur] = "freed"]
        BY <2>5, <3>3 DEF Terminate
      <4>2. live' = live \ {cur} /\ cur \in live /\ rejected' = rejected /\ twice' = twice
        <5>1. cur \in live /\ cur \notin rejected /\ cur \notin twice
          BY <2>f, <3>1, <3>3
        <5>2. live' = live \ {cur} /\ rejected' = rejected \ {cur} /\ twice' = twice \ {cur}
          BY <2>h, <3>1, <4>1
        <5> QED
          BY <2>g, <5>1, <5>2
      <4>3. Cardinality(live') = Cardinality(live) - 1
        BY <2>a, <4>2, Sizes
      <4> QED
        BY <2>0, <2>5, <2>a, <2>b, <2>c, <3>1, <3>2, <4>2, <4>3
    <3>4. CASE life[cur] = "freed"
      <4>1. life' = [life EXCEPT ![cur] = "freed_twice"]
        BY <2>5, <3>4 DEF Terminate
      <4>2. twice' = twice \cup {cur} /\ cur \notin twice /\ live' = live /\ rejected' = rejected
        BY <2>e, <2>f, <2>g, <3>1, <3>4, <4>1
      <4>3. Cardinality(twice') = Cardinality(twice) + 1
        BY <2>a, <3>1, <4>2, Sizes
      <4> QED
        BY <2>0, <2>5, <2>a, <2>b, <2>c, <3>1, <3>2, <4>2, <4>3
    <3> QED
      BY <3>1, <3>3, <3>4
  <2>6. ASSUME UNCHANGED <<connections_count, conn_number, life>>, pc' = pc \/ pc # "accept"
        PROVE  Balance'
    <3>1. live' = live /\ rejected' = rejected /\ twice' = twice
      BY <2>6, <2>d
    <3> QED
      BY <2>6, <2>b, <2>c, <3>1
  <2>7. CASE NextEvent
    <3>1. UNCHANGED <<connections_count, life>> /\ conn_number' = 0 /\ pc = "next"
      BY <2>7 DEF NextEvent
    <3> QED
      BY <2>b, <2>c, <2>d, <3>1
  <2>8. CASE Hup
    BY <2>5, <2>6, <2>8 DEF Hup
  <2>9. CASE End
    BY <2>5, <2>6, <2>9 DEF End
  <2>10. ASSUME NEW c \in Conn, SendPart(c) \/ Ack(c) \/ Quit(c) PROVE Balance'
    BY <2>6, <2>10 DEF SendPart, Ack, Quit, loop
  <2>11. CASE \/ Boot \/ LoopTest \/ EpollWait \/ EndOfBatch \/ Read \/ ReadNull \/ Write
              \/ EndAborts \/ Stop
    <3>1. UNCHANGED <<connections_count, conn_number, life>>
      BY <2>11 DEF Boot, LoopTest, EpollWait, EndOfBatch, Read, ReadNull, Write, EndAborts,
                   Stop, loop
    <3>2. pc' = pc \/ pc # "accept"
      BY <2>11 DEF Boot, LoopTest, EpollWait, EndOfBatch, Read, ReadNull, Write, EndAborts, Stop
    <3> QED
      BY <2>6, <3>1, <3>2
  <2>12. CASE UNCHANGED vars
    BY <2>6, <2>12 DEF vars, loop
  <2> QED
    BY <2>1, <2>2, <2>3, <2>4, <2>7, <2>8, <2>9, <2>10, <2>11, <2>12 DEF Next, Thread, Client
<1> QED
  BY <1>1, <1>2, TypeCorrect, EventsFresh, PTL DEF Spec

\* connections_count, on which the loop's exit depends, is the number of open
\* connections, except that a connection epoll_ctl rejected is counted for
\* ever and one that is terminated twice is taken off twice.
THEOREM CountBalanced == Spec => []CountBalance
<1>1. Balance => CountBalance
  BY DEF Balance
<1> QED
  BY <1>1, Balanced, PTL

-----------------------------------------------------------------------------
\* A file is open only in a connection that is being served, however the
\* connection ends and whatever fails: fs_close_conn closes both descriptors
\* (connection.c:338-349).
THEOREM NoFileLeaks == Spec => []NoDescriptorLeak
<1>1. Init => NoDescriptorLeak
  BY DEF Init, NoDescriptorLeak, NewConn
<1>2. TypeOK /\ NoStaleEvent /\ NoDescriptorLeak /\ [Next]_vars => NoDescriptorLeak'
  <2> SUFFICES ASSUME TypeOK, NoStaleEvent, NoDescriptorLeak, [Next]_vars
               PROVE  NoDescriptorLeak'
    OBVIOUS
  <2>0. life \in [Conn -> Life] /\ conn \in [Conn -> Connections]
    BY DEF TypeOK
  <2> USE DEF NoDescriptorLeak
  <2>1. ASSUME NEW c \in Conn, Connect(c) PROVE NoDescriptorLeak'
    BY <2>0, <2>1 DEF Connect
  <2>2. ASSUME NEW c \in Conn, SendPart(c) \/ Ack(c) \/ Quit(c) PROVE NoDescriptorLeak'
    <3>1. life' = life /\ \E k \in Connections : conn' = [conn EXCEPT ![c] = k]
                                               /\ k.fileOpen = conn[c].fileOpen
      <4>1. conn[c] \in Connections
        BY <2>0
      <4>2. CASE SendPart(c)
        <5>1. conn' = [conn EXCEPT ![c] = [conn[c] EXCEPT !.unread = @ + 1]]
          BY <2>0, <4>2 DEF SendPart
        <5> QED
          BY <4>1, <4>2, <5>1, SocketType DEF SendPart, Connections
      <4>3. CASE Ack(c)
        <5>1. conn' = [conn EXCEPT ![c] = [conn[c] EXCEPT !.sndq = @ - 1]]
          BY <2>0, <4>3 DEF Ack
        <5> QED
          BY <4>1, <4>3, <5>1, SocketType DEF Ack, Connections
      <4>4. CASE Quit(c)
        <5>1. PICK how \in Quits : conn' = [conn EXCEPT ![c] = [conn[c] EXCEPT !.peer = how]]
          BY <2>0, <4>4 DEF Quit
        <5>2. how \in Peer
          BY ServerAssumption DEF Peer
        <5> QED
          BY <4>1, <4>4, <5>1, <5>2, SocketType DEF Quit, Connections
      <4> QED
        BY <2>2, <4>2, <4>3, <4>4
    <3> QED
      BY <2>0, <3>1
  <2>3. CASE Read \/ Write
    <3>1. life' = life /\ cur \in Conn /\ life[cur] = "live"
      BY <2>3, ServerAssumption DEF Read, Write, NoStaleEvent, In
    <3>2. \A c \in Conn : c # cur => conn'[c] = conn[c]
      BY <2>0, <2>3 DEF Read, Write
    <3> QED
      BY <3>1, <3>2
  <2>4. ASSUME NEW c \in Conn, Accept(c) PROVE NoDescriptorLeak'
    BY <2>0, <2>4 DEF Accept
  <2>5. ASSUME NEW c \in Conn, AcceptInVain(c) PROVE NoDescriptorLeak'
    BY <2>0, <2>5 DEF AcceptInVain
  <2>6. ASSUME Terminate, cur \in Conn PROVE NoDescriptorLeak'
    <3>1. ~ conn'[cur].fileOpen
      BY <2>0, <2>6 DEF Terminate, CloseConn, Connections
    <3>2. \A c \in Conn : c # cur => conn'[c] = conn[c] /\ life'[c] = life[c]
      BY <2>0, <2>6 DEF Terminate
    <3> QED
      BY <3>1, <3>2
  <2>7. CASE Hup \/ End
    <3>1. cur \in Conn
      BY <2>7 DEF Hup, End, NoStaleEvent, In
    <3>2. Terminate \/ UNCHANGED <<life, conn>>
      BY <2>7 DEF Hup, End
    <3> QED
      BY <2>6, <3>1, <3>2
  <2>8. CASE \/ Boot \/ LoopTest \/ EpollWait \/ NextEvent \/ EndOfBatch \/ AcceptDone \/ ReadNull
             \/ EndAborts \/ Stop \/ UNCHANGED vars
    BY <2>8 DEF Boot, LoopTest, EpollWait, NextEvent, EndOfBatch, AcceptDone, ReadNull,
                EndAborts, Stop, vars
  <2> QED
    BY <2>1, <2>2, <2>3, <2>4, <2>5, <2>7, <2>8 DEF Next, Thread, Client
<1> QED
  BY <1>1, <1>2, TypeCorrect, EventsFresh, PTL DEF Spec

-----------------------------------------------------------------------------
\* Outside the wait for clients, whoever is in the backlog has an edge of the
\* listening socket that is not yet handled, and nothing is left of a batch
\* when the thread goes back to sleep.
Heard ==
  /\ batch # {} => pc \notin {"boot", "loop", "wait", "exited"}
  /\ In("queued") # {} => Listener \in ready \cup batch \/ pc \in {"accept", "exited", "aborted"}

\* No client is left in the backlog without an edge: add_connections accepts
\* until there is nobody left, and accept does not fail for another reason
\* (main.c:43-68).
THEOREM BacklogServed ==
  ASSUME ~AcceptFails
  PROVE  Spec => []NoLostClient
<1>1. Init => Heard
  BY DEF Init, Heard, In
<1>2. TypeOK /\ NoStaleEvent /\ Heard /\ [Next]_vars => Heard'
  <2> SUFFICES ASSUME TypeOK, NoStaleEvent, Heard, [Next]_vars PROVE Heard'
    OBVIOUS
  <2>0. life \in [Conn -> Life]
    BY DEF TypeOK
  <2> USE DEF Heard
  <2>1. ASSUME NEW c \in Conn, Connect(c) PROVE Heard'
    BY <2>1 DEF Connect
  <2>2. ASSUME NEW c \in Conn, SendPart(c) \/ Ack(c) \/ Quit(c) PROVE Heard'
    <3>1. UNCHANGED <<pc, life, batch>> /\ ready \subseteq ready'
      BY <2>2 DEF SendPart, Ack, Quit, Edge
    <3> QED
      BY <3>1 DEF In
  <2>3. CASE EpollWait
    <3>1. PICK taken \in SUBSET ready :
            /\ batch' = {f \in taken : IF f = Listener THEN In("queued") # {} ELSE EventBits(f) # {}}
            /\ ready' = ready \ taken
      BY <2>3 DEF EpollWait
    <3>2. life' = life /\ pc = "wait" /\ pc' = IF batch' = {} THEN "wait" ELSE "next"
      BY <2>3 DEF EpollWait
    <3>3. In("queued")' = In("queued")
      BY <3>2 DEF In
    <3> QED
      BY <3>1, <3>2, <3>3
  <2>4. CASE NextEvent
    <3>1. PICK f \in batch : /\ batch' = batch \ {f}
                             /\ pc' = IF f = Listener THEN "accept" ELSE "read"
      BY <2>4 DEF NextEvent
    <3>2. UNCHANGED <<life, ready>> /\ pc = "next"
      BY <2>4 DEF NextEvent
    <3>3. In("queued")' = In("queued")
      BY <3>2 DEF In
    <3> QED
      BY <3>1, <3>2, <3>3
  <2>5. ASSUME NEW c \in Conn, Accept(c) \/ AcceptInVain(c) PROVE Heard'
    BY <2>5 DEF Accept, AcceptInVain
  <2>6. CASE AcceptDone
    <3>1. In("queued") = {} /\ UNCHANGED <<life, batch>> /\ pc' = "next"
      BY <2>6 DEF AcceptDone
    <3> QED
      BY <3>1 DEF In
  <2>7. CASE Hup \/ End
    <3>1. cur # Listener /\ cur \in Conn /\ life[cur] \in {"live", "freed"}
      BY <2>7, ServerAssumption DEF Hup, End, NoStaleEvent, In
    <3>2. /\ Terminate \/ UNCHANGED <<life, ready>>
          /\ batch' = batch /\ pc \in {"hup", "end"} /\ pc' \in {"end", "next"}
      BY <2>7 DEF Hup, End
    <3>3. ready \ {cur} \subseteq ready' /\ In("queued")' = In("queued")
      BY <2>0, <3>1, <3>2 DEF Terminate, In
    <3> QED
      BY <3>1, <3>2, <3>3
  <2>8. CASE \/ Boot \/ LoopTest \/ EndOfBatch \/ Read \/ ReadNull \/ Write \/ EndAborts \/ Stop
             \/ UNCHANGED vars
    <3>1. UNCHANGED <<life, ready, batch>>
      BY <2>8 DEF Boot, LoopTest, EndOfBatch, Read, ReadNull, Write, EndAborts, Stop, vars
    <3>2. \/ pc' = pc
          \/ pc \in {"read", "write", "end"} /\ pc' \in {"write", "hup", "aborted"}
          \/ batch = {} /\ pc \in {"boot", "loop", "wait", "next"} /\ pc' # "accept"
      BY <2>8 DEF Boot, LoopTest, EndOfBatch, Read, ReadNull, Write, EndAborts, Stop, vars
    <3> QED
      BY <3>1, <3>2 DEF In
  <2> QED
    BY <2>1, <2>2, <2>3, <2>4, <2>5, <2>6, <2>7, <2>8 DEF Next, Thread, Client
<1>3. Heard => NoLostClient
  BY DEF Heard, NoLostClient
<1> QED
  BY <1>1, <1>2, <1>3, TypeCorrect, EventsFresh, PTL DEF Spec

-----------------------------------------------------------------------------
\* A stop signal is the only thing that clears run_flag once the loop has begun.
Flagged == pc = "boot" \/ run_flag \/ signals > 0

\* Only Stop clears the flag, and Stop counts a signal.
LEMMA FlagHolds == Spec => []Flagged
<1>1. Init => Flagged
  BY DEF Init, Flagged
<1>2. TypeOK /\ Flagged /\ [Next]_vars => Flagged'
  BY DEF TypeOK, Flagged, Next, Thread, Client, Boot, LoopTest, EpollWait, NextEvent, EndOfBatch,
         Accept, AcceptInVain, AcceptDone, Read, ReadNull, Write, Hup, End, EndAborts, Stop,
         Connect, SendPart, Ack, Quit, vars, loop, Terminate, Running
<1> QED
  BY <1>1, <1>2, TypeCorrect, PTL DEF Spec

\* No connection has been terminated twice, and the program has not been stopped
\* for it unless there was a signal or a freed connection read as ended.
Once ==
  /\ In("freed_twice") = {}
  /\ signals = 0 /\ "end" \notin FreedReads => pc # "aborted"
  /\ ExitsEmpty

\* Where the allocator answers a second free by stopping the program, and memory
\* does not run out: the loop ends with nobody connected, and before a stop
\* signal no connection is terminated twice as long as a freed one does not read
\* as ended (main.c:154, :184-187).
THEOREM CountIsTrusted ==
  ASSUME "return" \notin Aborts, ~MallocFails
  PROVE  Spec => []CountTrusted
<1>1. Init => Once
  BY DEF Init, Once, ExitsEmpty, In
<1>2. TypeOK /\ NoStaleEvent /\ Balance /\ Flagged /\ Once /\ [Next]_vars => Once'
  <2> SUFFICES ASSUME TypeOK, NoStaleEvent, Balance, Flagged, Once, [Next]_vars
               PROVE  Once'
    OBVIOUS
  <2>0. /\ life \in [Conn -> Life] /\ signals \in Nat /\ run_flag \in BOOLEAN
        /\ connections_count \in Int /\ conn_number \in Nat
    BY DEF TypeOK
  <2> USE DEF Flagged, Once, ExitsEmpty, In
  <2>1. ASSUME NEW c \in Conn, Connect(c) PROVE Once'
    BY <2>0, <2>1 DEF Connect, loop, Running
  <2>2. ASSUME NEW c \in Conn, SendPart(c) \/ Ack(c) \/ Quit(c) PROVE Once'
    BY <2>2 DEF SendPart, Ack, Quit, loop
  <2>3. CASE LoopTest
    <3>1. UNCHANGED <<life, run_flag, signals>> /\ pc = "loop" /\ pc' \in {"wait", "exited"}
      BY <2>3 DEF LoopTest, loop
    <3>2. ASSUME pc' = "exited" PROVE {c \in Conn : life[c] = "live"} = {}
      <4>1. connections_count = 0 /\ conn_number = 0
        BY <2>3, <3>2 DEF LoopTest, Balance
      <4> DEFINE live == In("live")
                 rejected == In("rejected")
      <4>2. live \subseteq Conn /\ rejected \subseteq Conn
        OBVIOUS
      <4>3. Cardinality(live) + Cardinality(rejected) = 0
        <5>1. In("freed_twice") = {} /\ Cardinality(In("freed_twice")) = 0
          BY FS_EmptySet
        <5>2. 0 = Cardinality(live) + Cardinality(rejected) - 0
          BY <4>1, <5>1 DEF Balance, CountBalance
        <5>3. Cardinality(live) \in Nat /\ Cardinality(rejected) \in Nat
          BY <4>2, Sizes
        <5> HIDE DEF live, rejected
        <5> QED
          BY <5>2, <5>3
      <4>4. Cardinality(live) = 0
        <5>1. Cardinality(live) \in Nat /\ Cardinality(rejected) \in Nat
          BY <4>2, Sizes
        <5> HIDE DEF live, rejected
        <5> QED
          BY <4>3, <5>1
      <4>5. live = {}
        BY <4>2, <4>4, ServerAssumption, FS_Subset, FS_EmptySet
      <4> QED
        BY <4>5
    <3> QED
      BY <3>1, <3>2
  <2>4. CASE NextEvent \/ EpollWait \/ EndOfBatch \/ AcceptDone \/ Read \/ Write
    <3>1. /\ UNCHANGED <<life, run_flag, signals>>
          /\ pc \notin {"boot", "exited", "aborted"} /\ pc' \notin {"exited", "aborted"}
      BY <2>4 DEF NextEvent, EpollWait, EndOfBatch, AcceptDone, Read, Write, loop
    <3> QED
      BY <3>1
  <2>5. ASSUME NEW c \in Conn, Accept(c) PROVE Once'
    BY <2>0, <2>5 DEF Accept
  <2>6. ASSUME NEW c \in Conn, AcceptInVain(c) PROVE Once'
    BY <2>0, <2>6 DEF AcceptInVain
  <2>7. CASE Boot
    BY <2>7 DEF Boot
  <2>8. CASE Hup \/ End
    <3>1. /\ (Terminate /\ life[cur] = "live") \/ UNCHANGED life
          /\ UNCHANGED <<run_flag, signals>>
          /\ pc \in {"hup", "end"} /\ pc' \in {"end", "next"}
      BY <2>8, ServerAssumption DEF Hup, End, NoStaleEvent
    <3>2. In("freed_twice")' = {}
      BY <2>0, <3>1 DEF Terminate
    <3> QED
      BY <3>1, <3>2
  <2>9. CASE EndAborts
    <3>1. /\ UNCHANGED <<life, run_flag, signals>> /\ pc = "end" /\ pc' = "aborted"
          /\ life[cur] # "live" /\ Finished
      BY <2>9 DEF EndAborts, loop
    <3>2. ~run_flag \/ "end" \in FreedReads
      BY <3>1 DEF Finished, StatesRead
    <3> QED
      BY <2>0, <3>1, <3>2
  <2>10. CASE ReadNull
    BY <2>10 DEF ReadNull
  <2>11. CASE Stop
    <3>1. /\ UNCHANGED life /\ signals' = signals + 1
          /\ pc \notin {"exited", "aborted"} /\ pc' \notin {"exited", "aborted"}
      BY <2>11 DEF Stop, Running
    <3> QED
      BY <2>0, <3>1
  <2>12. CASE UNCHANGED vars
    BY <2>12 DEF vars, loop
  <2> QED
    BY <2>1, <2>2, <2>3, <2>4, <2>5, <2>6, <2>7, <2>8, <2>9, <2>10, <2>11, <2>12
    DEF Next, Thread, Client
<1>3. Once => CountTrusted
  BY DEF Once, CountTrusted, TerminatedOnce
<1> QED
  BY <1>1, <1>2, <1>3, TypeCorrect, EventsFresh, Balanced, FlagHolds, PTL DEF Spec

-----------------------------------------------------------------------------
\* Nothing is left of a batch when the thread goes to the loop's test, or to sleep.
Drained == batch # {} => pc \notin {"boot", "loop", "wait", "exited"}

\* The batch is worked off before the loop is tested again (main.c:154-205).
LEMMA BatchDrained == Spec => []Drained
<1>1. Init => Drained
  BY DEF Init, Drained
<1>2. Drained /\ [Next]_vars => Drained'
  BY DEF Drained, Next, Thread, Client, Boot, LoopTest, EpollWait, NextEvent, EndOfBatch, Accept,
         AcceptInVain, AcceptDone, Read, ReadNull, Write, Hup, End, EndAborts, Stop,
         Connect, SendPart, Ack, Quit, vars
<1> QED
  BY <1>1, <1>2, PTL DEF Spec

\* What a connection is owed at each place of the loop: an edge not yet reported,
\* or the bits of the batch, or the handlers that are still to run.
Quiet(k) == k.peer = "open" /\ (k.state = "wait_request" => k.unread = 0) /\ Pushed(k)
Handled(c) ==
  LET k == conn[c] IN
  IF c \in batch \/ (c = cur /\ pc = "read") THEN mask[c] = EventBits(c)
  ELSE IF c = cur /\ pc \in {"write", "hup"}
  THEN /\ k.peer # "open" => "RDHUP" \in mask[c]
       /\ k.state = "wait_request" => k.unread = 0
       /\ IF pc = "write" THEN "OUT" \in mask[c] \/ Room(k) = 0 ELSE Pushed(k)
  ELSE Quiet(k)
Owed(c) ==
  /\ Sane(conn[c])
  /\ life[c] \in {"none", "queued"} => conn[c].state = "wait_request"
  /\ life[c] = "live" /\ conn[c].state = "end" => c = cur /\ pc \in {"write", "hup", "end"}
  /\ life[c] = "live" /\ c \notin ready /\ pc # "aborted" => Handled(c)
EdgesKept == \A c \in Conn : Owed(c)

\* A sane connection has room or none.
LEMMA RoomType ==
  ASSUME NEW k \in Connections, Sane(k)
  PROVE  k.unread \in Nat /\ Room(k) \in Nat
<1>1. k.sndq \in Nat /\ k.unread \in Nat
  BY DEF Connections
<1> QED
  BY <1>1, ConnectionAssumption DEF Sane, Room

\* The bits that epoll reports, one by one.
LEMMA EventBitsAre ==
  ASSUME NEW c
  PROVE  /\ "IN" \in EventBits(c) <=> conn[c].unread > 0 \/ conn[c].peer # "open"
         /\ "OUT" \in EventBits(c) <=> Room(conn[c]) > 0 \/ conn[c].peer = "rst"
         /\ "RDHUP" \in EventBits(c) <=> conn[c].peer # "open"
  BY DEF EventBits, Bits

\* A step that a connection does not notice.
LEMMA OwedSame ==
  ASSUME NEW c \in Conn, Owed(c), conn'[c] = conn[c], life'[c] = life[c], mask'[c] = mask[c],
         c \in ready => c \in ready', c \in batch <=> c \in batch',
         ~(c = cur /\ pc \in {"read", "write", "hup", "end"}),
         ~(c = cur' /\ pc' \in {"read", "write", "hup", "end"}),
         pc = "aborted" => pc' = "aborted"
  PROVE  Owed(c)'
<1>1. EventBits(c)' = EventBits(c)
  BY DEF EventBits
<1>2. Handled(c) /\ pc # "aborted" => Handled(c)'
  BY <1>1 DEF Handled
<1> QED
  BY <1>2 DEF Owed

\* With no connection registered, no event is owed to one.
LEMMA EdgesInit == Init => EdgesKept
<1> SUFFICES ASSUME Init, NEW c \in Conn PROVE Owed(c)
  BY DEF EdgesKept
<1>1. PICK req \in [Conn -> Requests] : conn = [d \in Conn |-> NewConn(req[d])]
  BY DEF Init
<1>2. conn[c].sndq = 0 /\ conn[c].ansLen = 0 /\ conn[c].state = "wait_request"
  BY <1>1 DEF NewConn
<1>3. life[c] = "none"
  BY DEF Init
<1> QED
  BY <1>2, <1>3, ConnectionAssumption DEF Owed, Sane

\* What the client or its kernel does to c is an edge when it matters.
LEMMA EdgesClient ==
  ASSUME TypeOK, EdgesKept, NEW c \in Conn, Client(c)
  PROVE  EdgesKept'
<1> SUFFICES ASSUME NEW d \in Conn PROVE Owed(d)'
  BY DEF EdgesKept
<1>0. /\ conn \in [Conn -> Connections] /\ life \in [Conn -> Life] /\ Owed(c) /\ Owed(d)
      /\ Listener \notin Conn
  BY ServerAssumption DEF TypeOK, EdgesKept
<1>1. CASE Connect(c)
  <2>1. /\ UNCHANGED <<pc, conn, batch, mask, cur>> /\ life[c] = "none"
        /\ life' = [life EXCEPT ![c] = "queued"] /\ ready' = ready \cup {Listener}
    BY <1>1 DEF Connect
  <2>2. EventBits(d)' = EventBits(d)
    BY <2>1 DEF EventBits
  <2> QED
    BY <1>0, <2>1, <2>2 DEF Owed, Handled
<1>2. CASE SendPart(c) \/ Quit(c)
  <2>1. /\ UNCHANGED <<pc, life, batch, mask, cur>>
        /\ ready' = IF life[c] = "live" THEN ready \cup {c} ELSE ready
    BY <1>2 DEF SendPart, Quit, Edge
  <2>2. /\ d # c => conn'[d] = conn[d]
        /\ conn'[c].sndq = conn[c].sndq /\ conn'[c].ansLen = conn[c].ansLen
        /\ conn'[c].state = conn[c].state
    <3>1. conn[c] \in Connections
      BY <1>0
    <3>2. CASE SendPart(c)
      <4>1. conn' = [conn EXCEPT ![c] = [conn[c] EXCEPT !.unread = @ + 1]]
        BY <1>0, <3>2 DEF SendPart
      <4> QED
        BY <1>0, <3>1, <4>1 DEF Connections
    <3>3. CASE Quit(c)
      <4>1. PICK how \in Quits : conn' = [conn EXCEPT ![c] = [conn[c] EXCEPT !.peer = how]]
        BY <1>0, <3>3 DEF Quit
      <4> QED
        BY <1>0, <3>1, <4>1 DEF Connections
    <3> QED
      BY <1>2, <3>2, <3>3
  <2>3. d # c => EventBits(d)' = EventBits(d)
    BY <2>2 DEF EventBits
  <2> QED
    BY <1>0, <2>1, <2>2, <2>3 DEF Owed, Handled, Sane
<1>3. CASE Ack(c)
  <2> DEFINE k == conn[c]
             q == conn'[c]
  <2>1. /\ UNCHANGED <<pc, life, batch, mask, cur>>
        /\ IF Room(k) = 0 THEN Edge(c) ELSE UNCHANGED ready
        /\ conn' = [conn EXCEPT ![c] = [k EXCEPT !.sndq = k.sndq - 1]] /\ k.sndq > 0
    BY <1>0, <1>3 DEF Ack
  <2>2. /\ d # c => conn'[d] = conn[d]
        /\ q.sndq = k.sndq - 1 /\ q.ansLen = k.ansLen /\ q.state = k.state /\ q.peer = k.peer
        /\ q.unread = k.unread /\ q.foff = k.foff /\ q.flen = k.flen
        /\ k.sndq \in Nat
    BY <1>0, <2>1 DEF Connections
  <2>3. Sane(k) /\ Sane(q) /\ Room(k) \in Nat /\ Room(q) = Room(k) + 1
    BY <1>0, <2>1, <2>2, ConnectionAssumption DEF Owed, Sane, Room
  <2>4. CASE d # c
    <3>1. EventBits(d)' = EventBits(d) /\ (d \in ready' <=> d \in ready)
      BY <2>1, <2>2, <2>4 DEF EventBits, Edge
    <3> QED
      BY <1>0, <2>1, <2>2, <2>4, <3>1 DEF Owed, Handled
  <2>5. CASE d = c /\ Room(k) = 0
    <3>1. life[c] = "live" => c \in ready'
      BY <2>1, <2>5 DEF Edge
    <3> QED
      BY <1>0, <2>1, <2>2, <2>3, <2>5, <3>1 DEF Owed
  <2>6. CASE d = c /\ Room(k) # 0
    <3>1. EventBits(c)' = EventBits(c)
      <4>1. Room(conn[c]) > 0 /\ Room(conn'[c]) > 0
        BY <2>3, <2>6
      <4> QED
        BY <2>2, <4>1 DEF EventBits
    <3>2. Pushed(k) => Pushed(q)
      BY <2>2, <2>6 DEF Pushed
    <3>3. ready' = ready
      BY <2>1, <2>6
    <3> QED
      BY <1>0, <2>1, <2>2, <2>3, <2>6, <3>1, <3>2, <3>3 DEF Owed, Handled, Quiet
  <2> QED
    BY <2>4, <2>5, <2>6
<1> QED
  BY <1>1, <1>2, <1>3 DEF Client

\* What epoll_wait takes from the ready list and does not report is quiet.
LEMMA EdgesEpollWait ==
  ASSUME TypeOK, Drained, EdgesKept, EpollWait
  PROVE  EdgesKept'
<1> SUFFICES ASSUME NEW d \in Conn PROVE Owed(d)'
  BY DEF EdgesKept
<1>0. conn \in [Conn -> Connections] /\ Owed(d) /\ d # Listener /\ batch = {} /\ pc = "wait"
  BY ServerAssumption DEF TypeOK, EdgesKept, Drained, EpollWait
<1>1. PICK taken \in SUBSET ready :
        /\ batch' = {f \in taken : IF f = Listener THEN In("queued") # {} ELSE EventBits(f) # {}}
        /\ mask' = [c \in Conn |-> IF c \in taken THEN EventBits(c) ELSE {}]
        /\ ready' = ready \ taken
  BY DEF EpollWait
<1>2. UNCHANGED <<life, conn, cur>> /\ pc' \in {"wait", "next"}
  BY DEF EpollWait
<1>3. EventBits(d)' = EventBits(d)
  BY <1>2 DEF EventBits
<1>4. CASE d \in taken
  <2>1. mask'[d] = EventBits(d) /\ (d \in batch' <=> EventBits(d) # {})
    BY <1>0, <1>1, <1>4
  <2>2. EventBits(d) = {} => Quiet(conn[d])
    <3>1. SUFFICES ASSUME EventBits(d) = {} PROVE Quiet(conn[d])
      OBVIOUS
    <3>2. conn[d].peer = "open" /\ ~(conn[d].unread > 0) /\ ~(Room(conn[d]) > 0)
      BY <3>1, EventBitsAre
    <3>3. conn[d].unread \in Nat /\ Room(conn[d]) \in Nat
      BY <1>0, ConnectionAssumption DEF Owed, Sane, Room, Connections
    <3> QED
      BY <3>2, <3>3 DEF Quiet, Pushed
  <2> QED
    BY <1>0, <1>2, <1>3, <2>1, <2>2 DEF Owed, Handled
<1>5. CASE d \notin taken
  BY <1>0, <1>1, <1>2, <1>5 DEF Owed, Handled
<1> QED
  BY <1>4, <1>5

\* The handlers run on bits that are still true, or an edge has come since.
LEMMA EdgesReadWrite ==
  ASSUME TypeOK, NoStaleEvent, EdgesKept, ~Pressure, Read \/ Write
  PROVE  EdgesKept'
<1> SUFFICES ASSUME NEW d \in Conn PROVE Owed(d)'
  BY DEF EdgesKept
<1> DEFINE k == conn[cur]
           q == conn'[cur]
<1>0. /\ conn \in [Conn -> Connections] /\ cur \in Conn /\ life[cur] = "live" /\ cur \notin batch
      /\ Owed(d) /\ Owed(cur)
  BY ServerAssumption DEF TypeOK, EdgesKept, NoStaleEvent, In, Read, Write
<1>1. UNCHANGED <<life, ready, batch, mask, cur>> /\ pc' # "aborted" /\ pc # "aborted"
  BY DEF Read, Write
<1>2. \A c \in Conn : c # cur => conn'[c] = conn[c]
  BY <1>0 DEF Read, Write
<1>3. CASE d # cur
  <2>1. conn'[d] = conn[d] /\ EventBits(d)' = EventBits(d)
    BY <1>2, <1>3 DEF EventBits
  <2>2. ~(life[d] = "live" /\ conn[d].state = "end")
    BY <1>0, <1>3 DEF Owed
  <2> QED
    BY <1>0, <1>1, <1>3, <2>1, <2>2 DEF Owed, Handled
<1>4. CASE d = cur /\ Read
  <2>1. pc = "read" /\ pc' = "write"
    BY <1>4 DEF Read
  <2>2. /\ q \in Connections /\ Sane(q) /\ q.peer = k.peer /\ Room(q) <= Room(k)
        /\ "IN" \in mask[cur] => IF k.state = "wait_request" THEN q.unread = 0 ELSE q = k
        /\ "IN" \notin mask[cur] => q = k
    <3>1. k \in Connections /\ Sane(k)
      BY <1>0 DEF Owed
    <3>2. CASE "IN" \in mask[cur]
      <4>1. q \in OnReadyRead(k)
        BY <1>0, <1>4, <3>2 DEF Read
      <4> HIDE DEF k, q
      <4> QED
        BY <3>1, <3>2, <4>1, OnReadyReadKept
    <3>3. CASE "IN" \notin mask[cur]
      <4>1. q = k
        BY <1>4, <3>3 DEF Read
      <4>2. Room(k) \in Nat
        BY <3>1, ConnectionAssumption DEF Sane, Room, Connections
      <4> QED
        BY <3>1, <3>3, <4>1, <4>2
    <3> QED
      BY <3>2, <3>3
  <2>3. ASSUME cur \notin ready
        PROVE  /\ q.peer # "open" => "RDHUP" \in mask[cur]
               /\ q.state = "wait_request" => q.unread = 0
               /\ "OUT" \in mask[cur] \/ Room(q) = 0
    <3>1. mask[cur] = EventBits(cur)
      BY <1>0, <1>1, <2>1, <2>3 DEF Owed, Handled
    <3>2. k.unread \in Nat /\ Room(k) \in Nat /\ Room(q) \in Nat
      <4>1. k \in Connections /\ Sane(k) /\ q \in Connections /\ Sane(q)
        BY <1>0, <2>2 DEF Owed
      <4> HIDE DEF k, q
      <4> QED
        BY <4>1, RoomType
    <3>3. /\ "IN" \in mask[cur] <=> k.unread > 0 \/ k.peer # "open"
          /\ "OUT" \in mask[cur] <=> Room(k) > 0 \/ k.peer = "rst"
          /\ "RDHUP" \in mask[cur] <=> k.peer # "open"
      BY <3>1, EventBitsAre
    <3> HIDE DEF k, q
    <3> QED
      BY <2>2, <3>2, <3>3
  <2> QED
    BY <1>0, <1>1, <1>4, <2>1, <2>2, <2>3 DEF Owed, Handled
<1>5. CASE d = cur /\ Write
  <2>1. pc = "write" /\ pc' = "hup"
    BY <1>5 DEF Write
  <2>2. /\ q \in Connections /\ Sane(q) /\ q.peer = k.peer /\ q.unread = k.unread
        /\ q.state = "wait_request" <=> k.state = "wait_request"
        /\ "OUT" \in mask[cur] => Pushed(q)
        /\ "OUT" \notin mask[cur] => q = k
    <3>1. k \in Connections /\ Sane(k)
      BY <1>0 DEF Owed
    <3>2. CASE "OUT" \in mask[cur]
      <4>1. q \in OnReadyWrite(k)
        BY <1>0, <1>5, <3>2 DEF Write
      <4> HIDE DEF k, q
      <4>2. Kept(k, q) /\ Pushed(q) /\ (q.state = "wait_request" <=> k.state = "wait_request")
        BY <3>1, <4>1, OnReadyWriteKept
      <4> QED
        BY <3>2, <4>2 DEF Kept
    <3>3. CASE "OUT" \notin mask[cur]
      <4>1. q = k
        BY <1>5, <3>3 DEF Write
      <4> QED
        BY <3>1, <3>3, <4>1
    <3> QED
      BY <3>2, <3>3
  <2>3. ASSUME cur \notin ready
        PROVE  /\ q.peer # "open" => "RDHUP" \in mask[cur]
               /\ q.state = "wait_request" => q.unread = 0
               /\ Pushed(q)
    BY <1>0, <1>1, <2>1, <2>2, <2>3 DEF Owed, Handled, Pushed
  <2> QED
    BY <1>0, <1>1, <1>5, <2>1, <2>2, <2>3 DEF Owed, Handled
<1> QED
  BY <1>3, <1>4, <1>5

\* A connection that has hung up, or ended, is terminated; any other is quiet, or
\* has an edge.
LEMMA EdgesHupEnd ==
  ASSUME TypeOK, NoStaleEvent, EdgesKept, Hup \/ End
  PROVE  EdgesKept'
<1> SUFFICES ASSUME NEW d \in Conn PROVE Owed(d)'
  BY DEF EdgesKept
<1>0. /\ conn \in [Conn -> Connections] /\ life \in [Conn -> Life] /\ cur \in Conn /\ cur \notin batch
      /\ life[cur] \in {"live", "freed"}
      /\ Owed(d) /\ Owed(cur)
  BY ServerAssumption DEF TypeOK, EdgesKept, NoStaleEvent, In, Hup, End
<1>1. /\ UNCHANGED <<batch, mask, cur>>
      /\ \/ pc = "hup" /\ pc' = "end"
         \/ pc = "end" /\ pc' = "next"
  BY DEF Hup, End
<1>2. CASE Terminate
  <2>1. /\ life' = [life EXCEPT ![cur] = IF life[cur] = "live" THEN "freed" ELSE "freed_twice"]
        /\ conn' = [conn EXCEPT ![cur] = CloseConn(conn[cur])]
        /\ ready' = ready \ {cur}
    BY <1>0, <1>2 DEF Terminate
  <2>2. CASE d = cur
    <3>1. life'[d] \in {"freed", "freed_twice"}
      BY <1>0, <2>1, <2>2
    <3>2. Sane(conn'[d])
      BY <1>0, <2>1, <2>2 DEF Owed, Sane, CloseConn, Connections
    <3> QED
      BY <3>1, <3>2 DEF Owed
  <2>3. CASE d # cur
    <3>1. conn'[d] = conn[d] /\ life'[d] = life[d] /\ (d \in ready => d \in ready')
      BY <1>0, <2>1, <2>3
    <3> QED
      BY <1>0, <1>1, <2>3, <3>1, OwedSame
  <2> QED
    BY <2>2, <2>3
<1>3. CASE UNCHANGED <<life, conn, ready>>
  <2>1. CASE d # cur
    BY <1>0, <1>1, <1>3, <2>1, OwedSame
  <2>2. CASE d = cur /\ life[cur] # "live"
    BY <1>0, <1>3, <2>2 DEF Owed
  <2>3. CASE d = cur /\ life[cur] = "live" /\ pc = "hup" /\ ~Terminate
    <3>1. "RDHUP" \notin mask[cur]
      BY <2>3 DEF Hup, End
    <3>2. cur \notin ready => Quiet(conn[cur])
      BY <1>0, <2>3, <3>1 DEF Owed, Handled, Quiet
    <3> QED
      BY <1>0, <1>1, <1>3, <2>3, <3>2 DEF Owed, Handled
  <2>4. CASE d = cur /\ life[cur] = "live" /\ pc = "end" /\ ~Terminate
    <3>1. conn[cur].state # "end"
      BY <2>4 DEF Hup, End, Unfinished, StatesRead
    <3>2. cur \notin ready => Quiet(conn[cur])
      BY <1>0, <2>4 DEF Owed, Handled
    <3> QED
      BY <1>0, <1>1, <1>3, <2>4, <3>1, <3>2 DEF Owed, Handled
  <2> QED
    BY <1>1, <1>2, <2>1, <2>2, <2>3, <2>4
<1> QED
  BY <1>2, <1>3 DEF Hup, End

\* The edges are kept by every step.
LEMMA EdgesStep ==
  ASSUME TypeOK, NoStaleEvent, Drained, EdgesKept, ~Pressure, [Next]_vars
  PROVE  EdgesKept'
<1>0. /\ conn \in [Conn -> Connections] /\ life \in [Conn -> Life]
      /\ \A c \in Conn : Owed(c) /\ c # Listener
  BY ServerAssumption DEF TypeOK, EdgesKept
<1>1. ASSUME NEW c \in Conn, Client(c) PROVE EdgesKept'
  BY <1>1, EdgesClient
<1>2. CASE \/ Boot \/ LoopTest \/ EndOfBatch \/ AcceptDone \/ ReadNull \/ EndAborts \/ Stop
           \/ UNCHANGED vars
  <2> SUFFICES ASSUME NEW d \in Conn PROVE Owed(d)'
    BY DEF EdgesKept
  <2>1. UNCHANGED <<life, conn, ready, batch, mask, cur>>
    BY <1>2 DEF Boot, LoopTest, EndOfBatch, AcceptDone, ReadNull, EndAborts, Stop, vars
  <2>2. EventBits(d)' = EventBits(d)
    BY <2>1 DEF EventBits
  <2>3. \/ pc' = pc
        \/ {pc, pc'} \cap {"read", "write", "hup", "end", "aborted"} = {}
        \/ pc = "read" /\ pc' = "aborted"
        \/ pc = "end" /\ pc' = "aborted" /\ life[cur] # "live"
    BY <1>2 DEF Boot, LoopTest, EndOfBatch, AcceptDone, ReadNull, EndAborts, Stop, vars, Running
  <2> QED
    BY <1>0, <2>1, <2>2, <2>3 DEF Owed, Handled
<1>3. CASE EpollWait
  BY <1>3, EdgesEpollWait
<1>4. CASE NextEvent
  <2> SUFFICES ASSUME NEW d \in Conn PROVE Owed(d)'
    BY DEF EdgesKept
  <2>1. PICK f \in batch : /\ batch' = batch \ {f} /\ cur' = f
                           /\ pc' = IF f = Listener THEN "accept" ELSE "read"
    BY <1>4 DEF NextEvent
  <2>2. UNCHANGED <<life, conn, ready, mask>> /\ pc = "next"
    BY <1>4 DEF NextEvent
  <2>3. EventBits(d)' = EventBits(d)
    BY <2>2 DEF EventBits
  <2> QED
    BY <1>0, <2>1, <2>2, <2>3 DEF Owed, Handled
<1>5. ASSUME NEW c \in Conn, Accept(c) \/ AcceptInVain(c) PROVE EdgesKept'
  <2> SUFFICES ASSUME NEW d \in Conn PROVE Owed(d)'
    BY DEF EdgesKept
  <2>1. /\ UNCHANGED <<pc, conn, batch, mask, cur>> /\ pc = "accept" /\ life[c] = "queued"
        /\ ready \subseteq ready'
    BY <1>5 DEF Accept, AcceptInVain
  <2>2. EventBits(d)' = EventBits(d)
    BY <2>1 DEF EventBits
  <2>3. CASE d # c
    <3>1. life'[d] = life[d]
      BY <1>0, <1>5, <2>3 DEF Accept, AcceptInVain
    <3> QED
      BY <1>0, <2>1, <2>2, <3>1 DEF Owed, Handled
  <2>4. CASE d = c /\ Accept(c)
    <3>1. life'[c] = "live" /\ (EventBits(c) # {} => c \in ready')
      BY <1>0, <2>4 DEF Accept
    <3>2. c \notin batch
      BY <2>1, ServerAssumption DEF NoStaleEvent, In
    <3>3. EventBits(c) = {} => Quiet(conn[c])
      <4>1. SUFFICES ASSUME EventBits(c) = {} PROVE Quiet(conn[c])
        OBVIOUS
      <4>2. conn[c].peer = "open" /\ ~(conn[c].unread > 0)
        BY <4>1, EventBitsAre
      <4>3. conn[c].unread \in Nat /\ conn[c].state = "wait_request"
        BY <1>0, <2>1 DEF Owed, Connections
      <4> QED
        BY <4>2, <4>3 DEF Quiet, Pushed
    <3> QED
      BY <1>0, <2>1, <2>4, <3>1, <3>2, <3>3 DEF Owed, Handled
  <2>5. CASE d = c /\ AcceptInVain(c)
    <3>1. life'[c] \in {"closed", "rejected", "leaked"}
      BY <1>0, <2>5 DEF AcceptInVain
    <3> QED
      BY <1>0, <2>1, <2>5, <3>1 DEF Owed
  <2> QED
    BY <1>5, <2>3, <2>4, <2>5
<1>6. CASE Read \/ Write
  BY <1>6, EdgesReadWrite
<1>7. CASE Hup \/ End
  BY <1>7, EdgesHupEnd
<1> QED
  BY <1>1, <1>2, <1>3, <1>4, <1>5, <1>6, <1>7 DEF Next, Thread

\* No edge is lost, whatever clients, signals and failures of memory do, as long
\* as the kernel takes what it has room for (main.c:155-187 with
\* connection.c:204-335).
THEOREM EdgesNotLost ==
  ASSUME ~Pressure
  PROVE  Spec => []NoLostEdge
<1>1. TypeOK /\ NoStaleEvent /\ Drained /\ EdgesKept /\ [Next]_vars => EdgesKept'
  BY EdgesStep
<1>2. EdgesKept => NoLostEdge
  BY DEF EdgesKept, Owed, Handled, Quiet, Pushed, NoLostEdge, Idle
<1> QED
  BY <1>1, <1>2, EdgesInit, TypeCorrect, EventsFresh, BatchDrained, PTL DEF Spec

-----------------------------------------------------------------------------
\* The edges of every state; that the connections are sane follows.
LEMMA EdgesHold == ASSUME ~Pressure PROVE Spec => []EdgesKept
<1>1. TypeOK /\ NoStaleEvent /\ Drained /\ EdgesKept /\ [Next]_vars => EdgesKept'
  BY EdgesStep
<1> QED
  BY <1>1, EdgesInit, TypeCorrect, EventsFresh, BatchDrained, PTL DEF Spec

\* Every stream is in order, and whoever is still served has the file it needs.
StreamKept ==
  \A c \in Conn :
    /\ InOrder(conn[c])
    /\ life[c] \notin {"freed", "freed_twice"} => FileReady(conn[c])

\* What a client or its kernel does.
LEMMA ClientConn ==
  ASSUME TypeOK, NEW c \in Conn, SendPart(c) \/ Ack(c) \/ Quit(c)
  PROVE  /\ SameAnswer(conn[c], conn'[c]) /\ conn'[c].fileOpen = conn[c].fileOpen
         /\ \A d \in Conn : d # c => conn'[d] = conn[d]
         /\ life' = life
         /\ conn'[c].peer = conn[c].peer \/ (Quit(c) /\ conn'[c].peer # "open")
<1>0. conn \in [Conn -> Connections] /\ conn[c] \in Connections /\ life \in [Conn -> Life]
  BY DEF TypeOK
<1>1. CASE SendPart(c)
  <2>1. conn' = [conn EXCEPT ![c] = [conn[c] EXCEPT !.unread = conn[c].unread + 1]] /\ life' = life
    BY <1>0, <1>1 DEF SendPart
  <2>2. conn'[c] = [conn[c] EXCEPT !.unread = conn[c].unread + 1]
    BY <1>0, <2>1
  <2>3. conn'[c].peer = conn[c].peer
    BY <1>0, <2>2 DEF Connections
  <2> QED
    BY <1>0, <2>1, <2>2, <2>3, SocketOrder
<1>2. CASE Ack(c)
  <2>1. conn' = [conn EXCEPT ![c] = [conn[c] EXCEPT !.sndq = conn[c].sndq - 1]]
        /\ life' = life /\ conn[c].sndq > 0
    BY <1>0, <1>2 DEF Ack
  <2>2. conn'[c] = [conn[c] EXCEPT !.sndq = conn[c].sndq - 1]
    BY <1>0, <2>1
  <2>3. conn'[c].peer = conn[c].peer
    BY <1>0, <2>2 DEF Connections
  <2> QED
    BY <1>0, <2>1, <2>2, <2>3, SocketOrder
<1>3. CASE Quit(c)
  <2>1. PICK how \in Quits : conn' = [conn EXCEPT ![c] = [conn[c] EXCEPT !.peer = how]]
    BY <1>0, <1>3 DEF Quit
  <2>2. conn'[c] = [conn[c] EXCEPT !.peer = how] /\ life' = life
    BY <1>0, <1>3, <2>1 DEF Quit
  <2>3. conn'[c].peer = how /\ how # "open"
    BY <1>0, <2>2, ServerAssumption DEF Connections
  <2> QED
    BY <1>0, <1>3, <2>1, <2>2, <2>3, SocketOrder
<1> QED
  BY <1>1, <1>2, <1>3

\* What terminate_connection does.
LEMMA TerminateConn ==
  ASSUME TypeOK, cur \in Conn, Terminate
  PROVE  /\ SameAnswer(conn[cur], conn'[cur]) /\ conn'[cur].peer = conn[cur].peer
         /\ \A d \in Conn : d # cur => conn'[d] = conn[d] /\ life'[d] = life[d]
         /\ life'[cur] = IF life[cur] = "live" THEN "freed" ELSE "freed_twice"
<1>0. conn \in [Conn -> Connections] /\ conn[cur] \in Connections /\ life \in [Conn -> Life]
  BY DEF TypeOK
<1>1. /\ conn' = [conn EXCEPT ![cur] = CloseConn(conn[cur])]
      /\ life' = [life EXCEPT ![cur] = IF life[cur] = "live" THEN "freed" ELSE "freed_twice"]
  BY <1>0 DEF Terminate
<1>2. conn'[cur] = CloseConn(conn[cur])
  BY <1>0, <1>1
<1>3. conn'[cur].peer = conn[cur].peer
  BY <1>0, <1>2 DEF CloseConn, Connections
<1> QED
  BY <1>0, <1>1, <1>2, <1>3, SocketOrder

\* A handler of the connection being handled.
LEMMA HandlerConn ==
  ASSUME TypeOK, NoStaleEvent, EdgesKept, StreamKept, Favourable, Read \/ Write
  PROVE  /\ cur \in Conn /\ life' = life /\ life[cur] = "live"
         /\ \A d \in Conn : d # cur => conn'[d] = conn[d]
         /\ InOrder(conn'[cur]) /\ FileReady(conn'[cur])
         /\ conn'[cur].req = conn[cur].req /\ conn'[cur].peer = conn[cur].peer
         /\ conn'[cur].state = "wait_request" => conn'[cur].out = conn[cur].out
         /\ \/ conn'[cur].out = conn[cur].out
            \/ Progress(conn[cur]) = 0
            \/ conn'[cur].code = conn[cur].code /\ Progress(conn[cur]) <= Progress(conn'[cur])
<1> DEFINE k == conn[cur]
           q == conn'[cur]
<1>0. conn \in [Conn -> Connections] /\ cur \in Conn /\ life[cur] = "live" /\ life' = life
  BY ServerAssumption DEF TypeOK, NoStaleEvent, In, Read, Write
<1>1. k \in Connections /\ Sane(k) /\ InOrder(k) /\ FileReady(k)
  BY <1>0 DEF EdgesKept, Owed, StreamKept
<1>2. \A d \in Conn : d # cur => conn'[d] = conn[d]
  BY <1>0 DEF Read, Write
<1>3. q = k \/ q \in OnReadyRead(k) \/ q \in OnReadyWrite(k)
  BY <1>0 DEF Read, Write
<1> HIDE DEF k, q
<1>4. CASE q = k
  BY <1>0, <1>1, <1>2, <1>4 DEF k, q
<1>5. CASE q \in OnReadyRead(k)
  <2>1. InOrder(q) /\ FileReady(q) /\ (k.state # "wait_request" => q = k)
    BY <1>1, <1>5, OnReadyReadOrder
  <2>2. q.peer = k.peer /\ q.req = k.req
    BY <1>1, <1>5, OnReadyReadKept DEF Favourable
  <2>3. k.state = "wait_request" => Progress(k) = 0
    BY DEF Progress
  <2>4. q.state = "wait_request" /\ k.state = "wait_request" => q.out = k.out
    <3>1. Upto(q.code, 0) = Upto(k.code, 0)
      BY DEF Upto
    <3> QED
      BY <1>1, <2>1, <3>1 DEF InOrder, Progress
  <2> QED
    BY <1>0, <1>2, <2>1, <2>2, <2>3, <2>4 DEF k, q
<1>6. CASE q \in OnReadyWrite(k)
  <2>1. /\ InOrder(q) /\ FileReady(q) /\ Progress(k) <= Progress(q) /\ q.code = k.code
        /\ q.state = "wait_request" => q = k
    BY <1>1, <1>6, OnReadyWriteOrder
  <2>2. q.peer = k.peer /\ q.req = k.req
    BY <1>1, <1>6, OnReadyWriteKept DEF Favourable, Kept
  <2> QED
    BY <1>0, <1>2, <2>1, <2>2 DEF k, q
<1> QED
  BY <1>3, <1>4, <1>5, <1>6

\* A connection starts with an empty stream and no file.
LEMMA StreamInit == Init => StreamKept
<1> SUFFICES ASSUME Init, NEW c \in Conn PROVE InOrder(conn[c]) /\ FileReady(conn[c])
  BY DEF StreamKept
<1>1. PICK req \in [Conn -> Requests] : conn = [d \in Conn |-> NewConn(req[d])]
  BY DEF Init
<1>2. conn[c] = NewConn(req[c])
  BY <1>1
<1>3. Upto(0, 0) = << >>
  BY DEF Upto
<1> QED
  BY <1>2, <1>3, ConnectionAssumption DEF NewConn, InOrder, FileReady, Progress

\* No step of the thread or of a client puts anything else on a stream.
LEMMA StreamStep ==
  ASSUME TypeOK, NoStaleEvent, EdgesKept, StreamKept, Favourable, [Next]_vars
  PROVE  StreamKept'
<1>0. conn \in [Conn -> Connections] /\ life \in [Conn -> Life]
  BY DEF TypeOK
<1>1. ASSUME NEW c \in Conn, SendPart(c) \/ Ack(c) \/ Quit(c) PROVE StreamKept'
  <2>1. /\ SameAnswer(conn[c], conn'[c]) /\ conn'[c].fileOpen = conn[c].fileOpen
        /\ \A d \in Conn : d # c => conn'[d] = conn[d]
        /\ life' = life
    BY <1>1, ClientConn
  <2>2. conn[c] \in Connections /\ InOrder(conn[c])
    BY <1>0 DEF StreamKept
  <2>3. InOrder(conn'[c]) /\ (FileReady(conn[c]) => FileReady(conn'[c]))
    BY <2>1, <2>2, SameOrder
  <2> QED
    BY <2>1, <2>3 DEF StreamKept
<1>2. CASE Read \/ Write
  <2>1. /\ cur \in Conn /\ life' = life /\ life[cur] = "live"
        /\ \A d \in Conn : d # cur => conn'[d] = conn[d]
        /\ InOrder(conn'[cur]) /\ FileReady(conn'[cur])
    BY <1>2, HandlerConn
  <2> QED
    BY <2>1 DEF StreamKept
<1>3. ASSUME cur \in Conn, Terminate PROVE StreamKept'
  <2>1. /\ SameAnswer(conn[cur], conn'[cur])
        /\ \A d \in Conn : d # cur => conn'[d] = conn[d] /\ life'[d] = life[d]
        /\ life'[cur] = IF life[cur] = "live" THEN "freed" ELSE "freed_twice"
    BY <1>3, TerminateConn
  <2>2. conn[cur] \in Connections /\ InOrder(conn[cur])
    BY <1>0, <1>3 DEF StreamKept
  <2>3. InOrder(conn'[cur])
    BY <2>1, <2>2, SameOrder
  <2> QED
    BY <2>1, <2>3 DEF StreamKept
<1>4. ASSUME NEW c \in Conn, Connect(c) \/ Accept(c) \/ AcceptInVain(c) PROVE StreamKept'
  <2>1. /\ conn' = conn /\ life[c] \in {"none", "queued"}
        /\ \A d \in Conn : d # c => life'[d] = life[d]
    BY <1>0, <1>4 DEF Connect, Accept, AcceptInVain
  <2> QED
    BY <2>1 DEF StreamKept
<1>5. CASE Hup \/ End
  <2>1. cur \in Conn /\ (Terminate \/ UNCHANGED <<life, conn>>)
    BY <1>5 DEF Hup, End, NoStaleEvent, In
  <2> QED
    BY <1>3, <2>1 DEF StreamKept
<1>6. CASE \/ Boot \/ LoopTest \/ EpollWait \/ NextEvent \/ EndOfBatch \/ AcceptDone \/ ReadNull
           \/ EndAborts \/ Stop \/ UNCHANGED vars
  <2>1. UNCHANGED <<life, conn>>
    BY <1>6 DEF Boot, LoopTest, EpollWait, NextEvent, EndOfBatch, AcceptDone, ReadNull, EndAborts,
                Stop, vars
  <2> QED
    BY <2>1 DEF StreamKept
<1> QED
  BY <1>1, <1>2, <1>4, <1>5, <1>6 DEF Next, Thread, Client

\* Every stream is a beginning of its answer, all the time.
LEMMA StreamHolds == ASSUME Favourable PROVE Spec => []StreamKept
<1>1. ~Pressure
  BY DEF Favourable
<1>2. TypeOK /\ NoStaleEvent /\ EdgesKept /\ StreamKept /\ [Next]_vars => StreamKept'
  BY StreamStep
<1>3. Spec => []EdgesKept
  BY <1>1, EdgesHold
<1> QED
  BY <1>2, <1>3, StreamInit, TypeCorrect, EventsFresh, PTL DEF Spec

\* The answer is all of its units.
LEMMA ResponseIs ==
  ASSUME NEW code \in Codes
  PROVE  Response(code) = Upto(code, Full(code))
<1> DEFINE head == [i \in 1..AnsLen |-> <<code, i>>]
           body == [i \in 1..FileLen |-> <<0, i>>]
<1>0. AnsLen \in Nat /\ FileLen \in Nat
  BY ConnectionAssumption
<1>1. head = Upto(code, AnsLen)
  BY <1>0 DEF Upto, At
<1>2. head \in Seq(Unit) /\ Len(head) = AnsLen
  BY <1>0, <1>1, UptoIs
<1>3. CASE code = 200
  <2>1. body \in [1..FileLen -> Unit]
    <3>1. \A i \in 1..FileLen : <<0, i>> \in Unit
      BY DEF Unit
    <3> QED
      BY <3>1
  <2>2. body \in Seq(Unit)
    BY <1>0, <2>1
  <2>3. Len(body) = FileLen
    BY <1>0, <2>1, <2>2, LenProperties
  <2>4. \A i \in 1..FileLen : body[i] = At(code, AnsLen + i)
    BY <1>0, AtFile
  <2> HIDE DEF body, head
  <2>5. head \o body = Upto(code, AnsLen + FileLen)
    BY <1>0, <1>1, <2>2, <2>3, <2>4, UptoMore
  <2> QED
    BY <1>3, <2>5 DEF Response, Full, body, head
<1>4. CASE code # 200
  <2>1. Response(code) = head \o << >>
    BY <1>4 DEF Response
  <2> HIDE DEF head
  <2>2. head \o << >> = head
    BY <1>2, ConcatEmptySeq
  <2>3. Full(code) = AnsLen
    BY <1>0, <1>4 DEF Full
  <2> QED
    BY <1>1, <2>1, <2>2, <2>3
<1> QED
  BY <1>3, <1>4

\* The server ends a connection on its own only when the whole answer has been handed
\* to the kernel (connection.c:204-335): both EAGAIN miscounts, of an unsigned and of a
\* signed count, are harmless as long as the head fits the send buffer and the kernel
\* takes what it has room for, and the file has not grown since stat.
THEOREM WholeAnswers ==
  ASSUME Favourable
  PROVE  Spec => []EndMeansAnswered
<1>1. StreamKept => EndMeansAnswered
  <2> SUFFICES ASSUME StreamKept, NEW c \in Conn, conn[c].state = "end"
               PROVE  conn[c].out = Response(conn[c].code)
    BY DEF EndMeansAnswered
  <2>1. conn[c].out = Upto(conn[c].code, Full(conn[c].code)) /\ conn[c].code = ParseHttpHead(conn[c].req)
    BY DEF StreamKept, InOrder, Progress
  <2>2. conn[c].code \in Codes
    BY <2>1 DEF ParseHttpHead, Codes
  <2> QED
    BY <2>1, <2>2, ResponseIs
<1> QED
  BY <1>1, StreamHolds, PTL

-----------------------------------------------------------------------------
(* The event loop implements the abstract service.                         *)

\* What epoll_wait reports of a peer that has gone stays true.
MaskTrue == \A c \in Conn : mask[c] \cap {"HUP", "RDHUP"} # {} => conn[c].peer # "open"

\* A peer that has gone does not come back on the same connection.
LEMMA MaskHolds == ASSUME Favourable PROVE Spec => []MaskTrue
<1>1. Init => MaskTrue
  BY DEF Init, MaskTrue
<1>2. TypeOK /\ NoStaleEvent /\ EdgesKept /\ StreamKept /\ MaskTrue /\ [Next]_vars => MaskTrue'
  <2> SUFFICES ASSUME TypeOK, NoStaleEvent, EdgesKept, StreamKept, MaskTrue, [Next]_vars
               PROVE  MaskTrue'
    OBVIOUS
  <2>0. conn \in [Conn -> Connections]
    BY DEF TypeOK
  <2>1. ASSUME NEW c \in Conn, SendPart(c) \/ Ack(c) \/ Quit(c) PROVE MaskTrue'
    <3>1. /\ \A d \in Conn : d # c => conn'[d] = conn[d]
          /\ conn'[c].peer = conn[c].peer \/ conn'[c].peer # "open"
      BY <2>1, ClientConn
    <3>2. mask' = mask
      BY <2>1 DEF SendPart, Ack, Quit
    <3> QED
      BY <3>1, <3>2 DEF MaskTrue
  <2>2. CASE EpollWait
    <3>1. PICK taken \in SUBSET ready : mask' = [c \in Conn |-> IF c \in taken THEN EventBits(c) ELSE {}]
      BY <2>2 DEF EpollWait
    <3>2. conn' = conn
      BY <2>2 DEF EpollWait
    <3>3. \A c : EventBits(c) \cap {"HUP", "RDHUP"} # {} => conn[c].peer # "open"
      BY DEF EventBits
    <3> QED
      BY <3>1, <3>2, <3>3 DEF MaskTrue
  <2>3. CASE Read \/ Write
    <3>1. mask' = mask /\ cur \in Conn
      BY <2>3, ServerAssumption DEF Read, Write, NoStaleEvent, In
    <3>2. /\ \A d \in Conn : d # cur => conn'[d] = conn[d]
          /\ conn'[cur].peer = conn[cur].peer
      BY <2>3, HandlerConn
    <3> QED
      BY <3>1, <3>2 DEF MaskTrue
  <2>4. CASE Hup \/ End
    <3>1. mask' = mask /\ cur \in Conn /\ (Terminate \/ conn' = conn)
      BY <2>4 DEF Hup, End, NoStaleEvent, In
    <3>2. \A d \in Conn : conn'[d].peer = conn[d].peer
      BY <3>1, TerminateConn
    <3> QED
      BY <3>1, <3>2 DEF MaskTrue
  <2>5. CASE \/ Boot \/ LoopTest \/ NextEvent \/ EndOfBatch \/ AcceptDone \/ ReadNull
             \/ EndAborts \/ Stop \/ (\E c \in Conn : Connect(c) \/ Accept(c) \/ AcceptInVain(c))
             \/ UNCHANGED vars
    <3>1. UNCHANGED <<conn, mask>>
      BY <2>5 DEF Boot, LoopTest, NextEvent, EndOfBatch, AcceptDone, ReadNull, EndAborts, Stop,
                  Connect, Accept, AcceptInVain, vars
    <3> QED
      BY <3>1 DEF MaskTrue
  <2> QED
    BY <2>1, <2>2, <2>3, <2>4, <2>5 DEF Next, Thread, Client
<1>3. ~Pressure
  BY DEF Favourable
<1>4. Spec => []EdgesKept
  BY <1>3, EdgesHold
<1> QED
  BY <1>1, <1>2, <1>4, StreamHolds, TypeCorrect, EventsFresh, PTL DEF Spec

\* The abstract variables.
request == [c \in Conn |-> conn[c].req]
phase == [c \in Conn |-> CASE life[c] = "none" -> "idle"
                           [] life[c] \in {"queued", "live"} -> "open"
                           [] OTHER -> "closed"]
stream == [c \in Conn |-> conn[c].out]
gone == [c \in Conn |-> conn[c].peer # "open"]
stopping == signals > 0

\* Initially no connection is open and nothing has been sent.
LEMMA ServiceInit == Init => Service!Init
<1> SUFFICES ASSUME Init PROVE Service!Init
  OBVIOUS
<1>1. PICK req \in [Conn -> Requests] : conn = [c \in Conn |-> NewConn(req[c])]
  BY DEF Init
<1>2. life = [c \in Conn |-> "none"] /\ signals = 0
  BY DEF Init
<1>3. \A c \in Conn : conn[c].req = req[c] /\ conn[c].out = << >> /\ conn[c].peer = "open"
  BY <1>1 DEF NewConn
<1>4. request \in [Conn -> Request]
  BY <1>3, RequestsAssumption DEF request
<1>5. phase = [c \in Conn |-> "idle"]
  BY <1>2 DEF phase
<1>6. stream = [c \in Conn |-> << >>]
  BY <1>3 DEF stream
<1>7. gone = [c \in Conn |-> FALSE]
  <2>1. \A c \in Conn : (conn[c].peer # "open") = FALSE
    BY <1>3
  <2> QED
    BY <2>1 DEF gone
<1>8. stopping = FALSE
  BY <1>2 DEF stopping
<1> QED
  BY <1>4, <1>5, <1>6, <1>7, <1>8 DEF Service!Init, request, phase, stream, gone, stopping

\* No request is for a file that stat finds and open may not read, whose 500 the readme
\* would have as 403 (connection.c:97-101).
Openable == \A req \in Requests : req.target # "unreadable"

\* The request of a connection is one of those its client makes.
AsAsked == \A c \in Conn : conn[c].req \in Requests

\* The request of a connection never changes.
LEMMA AskedHolds == ASSUME Favourable PROVE Spec => []AsAsked
<1>1. Init => AsAsked
  BY DEF Init, AsAsked, NewConn
<1>2. TypeOK /\ NoStaleEvent /\ EdgesKept /\ StreamKept /\ AsAsked /\ [Next]_vars => AsAsked'
  <2> SUFFICES ASSUME TypeOK, NoStaleEvent, EdgesKept, StreamKept, AsAsked, [Next]_vars
               PROVE  AsAsked'
    OBVIOUS
  <2>0. conn \in [Conn -> Connections]
    BY DEF TypeOK
  <2>1. ASSUME NEW c \in Conn, SendPart(c) \/ Ack(c) \/ Quit(c) PROVE AsAsked'
    <3>1. (\A d \in Conn : d # c => conn'[d] = conn[d]) /\ SameAnswer(conn[c], conn'[c])
      BY <2>1, ClientConn
    <3> QED
      BY <3>1 DEF AsAsked, SameAnswer
  <2>2. CASE Read \/ Write
    <3>1. cur \in Conn
      BY <2>2, ServerAssumption DEF Read, Write, NoStaleEvent, In
    <3>2. /\ \A d \in Conn : d # cur => conn'[d] = conn[d]
          /\ conn'[cur].req = conn[cur].req
      BY <2>2, HandlerConn
    <3> QED
      BY <3>1, <3>2 DEF AsAsked
  <2>3. CASE Hup \/ End
    <3>1. cur \in Conn /\ (Terminate \/ conn' = conn)
      BY <2>3 DEF Hup, End, NoStaleEvent, In
    <3>2. \A d \in Conn : conn'[d].req = conn[d].req
      BY <3>1, TerminateConn DEF SameAnswer
    <3> QED
      BY <3>1, <3>2 DEF AsAsked
  <2>4. CASE \/ Boot \/ LoopTest \/ EpollWait \/ NextEvent \/ EndOfBatch \/ AcceptDone \/ ReadNull
             \/ EndAborts \/ Stop \/ (\E c \in Conn : Connect(c) \/ Accept(c) \/ AcceptInVain(c))
             \/ UNCHANGED vars
    <3>1. UNCHANGED conn
      BY <2>4 DEF Boot, LoopTest, EpollWait, NextEvent, EndOfBatch, AcceptDone, ReadNull, EndAborts,
                  Stop, Connect, Accept, AcceptInVain, vars
    <3> QED
      BY <3>1 DEF AsAsked
  <2> QED
    BY <2>1, <2>2, <2>3, <2>4 DEF Next, Thread, Client
<1>3. ~Pressure
  BY DEF Favourable
<1>4. Spec => []EdgesKept
  BY <1>3, EdgesHold
<1> QED
  BY <1>1, <1>2, <1>4, StreamHolds, TypeCorrect, EventsFresh, PTL DEF Spec

\* The code of a request is allowed.
LEMMA CodeAllowed ==
  ASSUME NEW req \in Request, req.target # "unreadable"
  PROVE  ParseHttpHead(req) \in Allowed(req) /\ Allowed(req) \subseteq Codes
<1>1. /\ req.words \in {2, 3} /\ req.version \in {"HTTP/1.1", "other"}
      /\ req.method \in {"GET", "other"} /\ req.target \in Target
  BY DEF Request
<1> DEFINE wellFormed == WellFormed(req)
           code == ParseHttpHead(req)
<1>2. CASE ~wellFormed
  <2>1. CASE req.words = 2
    <3>1. code = 500
      BY <2>1 DEF ParseHttpHead
    <3> QED
      BY <1>2, <3>1 DEF Allowed, WellFormed, Codes
  <2>2. CASE req.words = 3 /\ req.version # "HTTP/1.1"
    <3>1. code = 505
      BY <2>2 DEF ParseHttpHead
    <3> QED
      BY <1>2, <3>1 DEF Allowed, WellFormed, Codes
  <2>3. CASE req.words = 3 /\ req.version = "HTTP/1.1" /\ req.method # "GET"
    <3>1. code = 405
      BY <2>3 DEF ParseHttpHead
    <3> QED
      BY <1>2, <3>1 DEF Allowed, WellFormed, Codes
  <2> QED
    BY <1>1, <1>2, <2>1, <2>2, <2>3 DEF WellFormed
<1>3. CASE wellFormed
  <2>1. code = CASE req.target = "regular" -> 200
                 [] req.target \in {"search_denied", "not_regular"} -> 403
                 [] req.target = "missing" -> 404
                 [] req.target = "name_too_long" -> 414
                 [] OTHER -> 500
    BY <1>3 DEF ParseHttpHead, OpenRegularFile, WellFormed
  <2> HIDE DEF code
  <2>2. /\ code \in Codes
        /\ code = 200 <=> req.target = "regular"
        /\ code = 404 <=> req.target = "missing"
        /\ req.target \in NoRights => code = 403
    BY <1>1, <2>1 DEF Codes, Target, NoRights
  <2>3. code \in Allowed(req) /\ Allowed(req) \subseteq Codes
    BY <1>3, <2>2 DEF Allowed
  <2> QED
    BY <2>3 DEF code
<1> QED
  BY <1>2, <1>3

\* Every step of the event loop is a step of the service, or none.
LEMMA ServiceStep ==
  ASSUME TypeOK, NoStaleEvent, EdgesKept, StreamKept, MaskTrue, Flagged, TypeOK', StreamKept',
         Favourable, ~AcceptFails, Openable, AsAsked, [Next]_vars
  PROVE  [Service!Next]_(Service!svars)
<1>0. /\ conn \in [Conn -> Connections] /\ life \in [Conn -> Life] /\ signals \in Nat
      /\ conn' \in [Conn -> Connections] /\ signals' \in Nat
  BY DEF TypeOK
<1>a. ASSUME UNCHANGED <<request, phase, stream, gone, stopping>>
      PROVE  UNCHANGED Service!svars
  BY <1>a DEF Service!svars, request, phase, stream, gone, stopping
<1>b. ASSUME NEW c \in Conn, SameAnswer(conn[c], conn'[c]), \A d \in Conn : d # c => conn'[d] = conn[d]
      PROVE  /\ UNCHANGED <<request, stream>>
             /\ conn'[c].peer = conn[c].peer => UNCHANGED gone
  <2>1. \A d \in Conn : conn'[d].req = conn[d].req /\ conn'[d].out = conn[d].out
    BY <1>b DEF SameAnswer
  <2>2. conn'[c].peer = conn[c].peer => \A d \in Conn : conn'[d].peer = conn[d].peer
    BY <1>b
  <2> QED
    BY <2>1, <2>2 DEF request, stream, gone
<1>c. ASSUME conn' = conn PROVE UNCHANGED <<request, stream, gone>>
  BY <1>c DEF request, stream, gone
<1>d. ASSUME life' = life PROVE UNCHANGED phase
  BY <1>d DEF phase
<1>e. ASSUME signals' = signals PROVE UNCHANGED stopping
  BY <1>e DEF stopping
<1>1. ASSUME NEW c \in Conn, Connect(c) PROVE Service!Next
  <2>1. UNCHANGED <<request, stream, gone, stopping>>
    BY <1>1, <1>c, <1>e DEF Connect
  <2>2. life[c] = "none" /\ life' = [life EXCEPT ![c] = "queued"]
    BY <1>1 DEF Connect
  <2>3. phase[c] = "idle" /\ phase' = [phase EXCEPT ![c] = "open"]
    BY <1>0, <2>2 DEF phase
  <2>4. Service!Open(c)
    BY <2>1, <2>3 DEF Service!Open, request, phase, stream, gone, stopping
  <2> QED
    BY <2>4 DEF Service!Next
<1>2. ASSUME NEW c \in Conn, SendPart(c) \/ Ack(c) \/ Quit(c)
      PROVE  Service!Next \/ UNCHANGED Service!svars
  <2>1. /\ SameAnswer(conn[c], conn'[c])
        /\ \A d \in Conn : d # c => conn'[d] = conn[d]
        /\ life' = life
        /\ conn'[c].peer = conn[c].peer \/ (Quit(c) /\ conn'[c].peer # "open")
    BY <1>2, ClientConn
  <2>2. UNCHANGED <<request, phase, stream, stopping>>
    BY <1>2, <1>b, <1>d, <1>e, <2>1 DEF SendPart, Ack, Quit
  <2>3. CASE conn'[c].peer = conn[c].peer
    BY <1>a, <1>b, <2>1, <2>2, <2>3
  <2>4. CASE Quit(c) /\ conn'[c].peer # "open"
    <3>1. phase[c] = "open"
      BY <2>4 DEF Quit, Reachable, phase
    <3>2. gone' = [gone EXCEPT ![c] = TRUE]
      BY <1>0, <2>1, <2>4 DEF gone
    <3>3. Service!Leave(c)
      BY <2>2, <3>1, <3>2 DEF Service!Leave, request, phase, stream, gone, stopping
    <3> QED
      BY <3>3 DEF Service!Next
  <2> QED
    BY <2>1, <2>3, <2>4
<1>3. ASSUME NEW c \in Conn, Accept(c) PROVE UNCHANGED Service!svars
  <2>1. UNCHANGED <<request, stream, gone, stopping>>
    BY <1>3, <1>c, <1>e DEF Accept
  <2>2. life[c] = "queued" /\ life' = [life EXCEPT ![c] = "live"]
    BY <1>3 DEF Accept
  <2>3. phase' = phase
    BY <1>0, <2>2 DEF phase
  <2> QED
    BY <1>a, <2>1, <2>3
<1>4. ASSUME NEW c \in Conn, AcceptInVain(c) PROVE FALSE
  BY <1>4 DEF AcceptInVain, Favourable
<1>5. CASE Read \/ Write
  <2> DEFINE k == conn[cur]
             q == conn'[cur]
  <2>1. /\ cur \in Conn /\ life' = life /\ life[cur] = "live"
        /\ \A d \in Conn : d # cur => conn'[d] = conn[d]
        /\ InOrder(q) /\ q.req = k.req /\ q.peer = k.peer
        /\ q.state = "wait_request" => q.out = k.out
        /\ \/ q.out = k.out
           \/ Progress(k) = 0
           \/ q.code = k.code /\ Progress(k) <= Progress(q)
    BY <1>5, HandlerConn
  <2>2. UNCHANGED <<request, phase, gone, stopping>>
    <3>1. \A d \in Conn : conn'[d].req = conn[d].req /\ conn'[d].peer = conn[d].peer
      BY <2>1
    <3>2. signals' = signals
      BY <1>5 DEF Read, Write
    <3> QED
      BY <1>d, <1>e, <2>1, <3>1, <3>2 DEF request, gone
  <2>3. CASE q.out = k.out
    <3>1. \A d \in Conn : conn'[d].out = conn[d].out
      BY <2>1, <2>3
    <3>2. stream' = stream
      BY <3>1 DEF stream
    <3> QED
      BY <1>a, <2>2, <3>2
  <2>4. CASE q.out # k.out
    <3> DEFINE code == q.code
               n == Progress(q)
               m == Progress(k)
    <3>1. /\ k \in Connections /\ q \in Connections /\ InOrder(k)
      BY <1>0, <2>1 DEF StreamKept
    <3>2. /\ q.state # "wait_request" /\ code = ParseHttpHead(k.req) /\ q.out = Upto(code, n)
          /\ k.out = Upto(k.code, m)
      BY <2>1, <2>4, <3>1 DEF InOrder
    <3>3. code \in Allowed(k.req) /\ code \in Codes /\ k.code \in Codes \cup {0}
      BY <2>1, <3>1, <3>2, CodeAllowed DEF Connections, Openable, AsAsked
    <3>4. n \in Nat /\ m \in Nat /\ n <= Full(code) /\ Full(code) \in Nat
      <4>1. k.foff \in Nat /\ q.foff \in Nat /\ AnsLen \in Nat /\ FileLen \in Nat
        BY <3>1, ConnectionAssumption DEF Connections
      <4>2. q.state = "sending_file" => code = 200 /\ q.foff <= q.flen /\ q.flen <= FileLen
                                          /\ q.flen \in Nat
        BY <2>1, <3>1 DEF InOrder, Connections
      <4> QED
        BY <4>1, <4>2 DEF Progress, Full
    <3>5. k.out = Upto(code, m)
      <4>1. Upto(k.code, 0) = Upto(code, 0)
        BY DEF Upto
      <4> QED
        BY <2>1, <2>4, <3>2, <4>1
    <3>6. m <= n
      BY <2>1, <2>4, <3>4
    <3>7. m # n
      BY <2>4, <3>2, <3>5
    <3>8. Response(code) = Upto(code, Full(code))
      BY <3>3, ResponseIs
    <3> HIDE DEF k, q, code, n, m
    <3>9. Len(k.out) = m /\ Len(Response(code)) = Full(code)
      BY <3>3, <3>4, <3>5, <3>8, UptoIs
    <3>10. /\ k.out = SubSeq(Response(code), 1, m)
           /\ q.out = SubSeq(Response(code), 1, n)
      <4>1. m \in 0..Full(code) /\ n \in 0..Full(code)
        BY <3>4, <3>6
      <4> QED
        BY <3>2, <3>3, <3>4, <3>5, <3>8, <4>1, UptoLess
    <3>11. n \in m+1..Full(code) /\ m <= Full(code)
      BY <3>4, <3>6, <3>7
    <3>12. stream[cur] = k.out /\ request[cur] = k.req /\ phase[cur] = "open"
      BY <2>1 DEF stream, request, phase, k
    <3>13. stream' = [stream EXCEPT ![cur] = SubSeq(Response(code), 1, n)]
      <4>1. conn'[cur].out = SubSeq(Response(code), 1, n)
        BY <3>10 DEF q
      <4> QED
        BY <1>0, <2>1, <4>1 DEF stream
    <3>14. Service!Prefix(stream[cur], Response(code))
      BY <3>9, <3>10, <3>11, <3>12 DEF Service!Prefix
    <3>15. n \in Len(stream[cur])+1..Len(Response(code)) /\ code \in Allowed(request[cur])
      BY <3>3, <3>9, <3>11, <3>12
    <3>16. \E co \in Allowed(request[cur]) : \E j \in Len(stream[cur])+1..Len(Response(co)) :
             /\ Service!Prefix(stream[cur], Response(co))
             /\ stream' = [stream EXCEPT ![cur] = SubSeq(Response(co), 1, j)]
      BY <3>13, <3>14, <3>15
    <3>17. ASSUME NEW c \in Conn, c = cur PROVE Service!Serve(c)
      <4>1. /\ phase[c] = "open"
            /\ \E co \in Allowed(request[c]) : \E j \in Len(stream[c])+1..Len(Response(co)) :
                 /\ Service!Prefix(stream[c], Response(co))
                 /\ stream' = [stream EXCEPT ![c] = SubSeq(Response(co), 1, j)]
        BY <3>12, <3>16, <3>17
      <4> QED
        BY <2>2, <4>1 DEF Service!Serve, request, phase, stream, gone, stopping
    <3>18. Service!Next
      BY <2>1, <3>17 DEF Service!Next
    <3> QED
      BY <3>18
  <2> QED
    BY <2>3, <2>4
<1>6. CASE Hup \/ End
  <2>1. signals' = signals /\ cur \in Conn /\ life[cur] \in {"live", "freed"}
    BY <1>6 DEF Hup, End, NoStaleEvent, In
  <2>2. CASE UNCHANGED <<life, conn>>
    BY <1>a, <1>c, <1>d, <1>e, <2>1, <2>2
  <2>3. CASE Terminate
    <3>1. /\ SameAnswer(conn[cur], conn'[cur]) /\ conn'[cur].peer = conn[cur].peer
          /\ \A d \in Conn : d # cur => conn'[d] = conn[d] /\ life'[d] = life[d]
          /\ life'[cur] = IF life[cur] = "live" THEN "freed" ELSE "freed_twice"
      BY <2>1, <2>3, TerminateConn
    <3>2. UNCHANGED <<request, stream, gone, stopping>>
      BY <1>b, <1>e, <2>1, <3>1
    <3>3. CASE life[cur] = "freed"
      <4>1. phase' = phase
        BY <3>1, <3>3 DEF phase
      <4> QED
        BY <1>a, <3>2, <4>1
    <3>4. CASE life[cur] = "live"
      <4>1. phase[cur] = "open" /\ phase' = [phase EXCEPT ![cur] = "closed"]
        BY <1>0, <2>1, <3>1, <3>4 DEF phase
      <4>2. Service!Complete(stream[cur], request[cur]) \/ gone[cur] \/ stopping
        <5>1. CASE Hup /\ mask[cur] \cap {"HUP", "RDHUP"} # {}
          BY <2>1, <5>1 DEF MaskTrue, gone
        <5>2. CASE Hup /\ mask[cur] \cap {"HUP", "RDHUP"} = {}
          <6>1. life' = life
            BY <5>2 DEF Hup
          <6> QED
            BY <3>1, <3>4, <6>1
        <5>3. CASE End /\ ~Finished
          <6>1. life' = life
            BY <5>3 DEF End
          <6> QED
            BY <3>1, <3>4, <6>1
        <5>4. CASE End /\ Finished
          <6>1. ~run_flag \/ conn[cur].state = "end"
            BY <3>4, <5>4 DEF Finished, StatesRead
          <6>2. ASSUME ~run_flag PROVE stopping
            BY <1>0, <5>4, <6>2 DEF End, Flagged, stopping
          <6>3. ASSUME conn[cur].state = "end" PROVE Service!Complete(stream[cur], request[cur])
            <7> DEFINE code == conn[cur].code
            <7>1. /\ conn[cur] \in Connections
                  /\ conn[cur].out = Upto(code, Full(code)) /\ code = ParseHttpHead(conn[cur].req)
              BY <1>0, <2>1, <6>3 DEF StreamKept, InOrder, Progress
            <7>2. code \in Allowed(conn[cur].req) /\ code \in Codes
              BY <2>1, <7>1, CodeAllowed DEF Connections, Openable, AsAsked
            <7>3. conn[cur].out = Response(code)
              BY <7>1, <7>2, ResponseIs
            <7>4. stream[cur] = conn[cur].out /\ request[cur] = conn[cur].req
              BY <2>1 DEF stream, request
            <7> QED
              BY <7>2, <7>3, <7>4 DEF Service!Complete
          <6> QED
            BY <6>1, <6>2, <6>3
        <5> QED
          BY <1>6, <5>1, <5>2, <5>3, <5>4
      <4>3. ASSUME NEW c \in Conn, c = cur PROVE Service!Close(c)
        BY <3>2, <4>1, <4>2, <4>3 DEF Service!Close, request, phase, stream, gone, stopping
      <4>4. Service!Next
        BY <2>1, <4>3 DEF Service!Next
      <4> QED
        BY <4>4
    <3> QED
      BY <2>1, <3>3, <3>4
  <2> QED
    BY <1>6, <2>2, <2>3 DEF Hup, End
<1>7. CASE Stop
  <2>1. UNCHANGED <<request, phase, stream, gone>>
    BY <1>7, <1>c, <1>d DEF Stop
  <2>2. stopping' = TRUE
    BY <1>0, <1>7 DEF Stop, stopping
  <2>3. Service!Halt
    BY <2>1, <2>2 DEF Service!Halt, request, phase, stream, gone, stopping
  <2> QED
    BY <2>3 DEF Service!Next
<1>8. CASE \/ Boot \/ LoopTest \/ EpollWait \/ NextEvent \/ EndOfBatch \/ AcceptDone \/ ReadNull
           \/ EndAborts \/ UNCHANGED vars
  <2>1. UNCHANGED <<life, conn, signals>>
    BY <1>8 DEF Boot, LoopTest, EpollWait, NextEvent, EndOfBatch, AcceptDone, ReadNull, EndAborts, vars
  <2> QED
    BY <1>a, <1>c, <1>d, <1>e, <2>1
<1> QED
  BY <1>1, <1>2, <1>3, <1>4, <1>5, <1>6, <1>7, <1>8 DEF Next, Thread, Client

\* The loop with its buffers, batches and signals implements the service that
\* HttpService describes: every client gets the answer to its request, in order and
\* without gaps or repeats, and is hung up on only when it has all of it, has gone, or
\* the server is being stopped (main.c:145-188 with connection.c:204-349).
THEOREM ImplementsService ==
  ASSUME Favourable, ~AcceptFails, Openable
  PROVE  Spec => ServesHttp
<1>1. ~Pressure
  BY DEF Favourable
<1>2. Spec => []EdgesKept
  BY <1>1, EdgesHold
<1>3. Spec => []StreamKept /\ []MaskTrue /\ []AsAsked
  BY StreamHolds, MaskHolds, AskedHolds
<1>4. /\ TypeOK /\ NoStaleEvent /\ EdgesKept /\ StreamKept /\ MaskTrue /\ Flagged /\ AsAsked
      /\ TypeOK' /\ StreamKept' /\ [Next]_vars
      => [Service!Next]_(Service!svars)
  BY ServiceStep
<1> QED
  BY <1>2, <1>3, <1>4, ServiceInit, TypeCorrect, EventsFresh, FlagHolds, PTL
  DEF Spec, ServesHttp, Service!Spec
=============================================================================
