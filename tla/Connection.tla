------------------------------ MODULE Connection ------------------------------
(***************************************************************************)
(* One connection of the file server (hw13/fileserver/connection.c): the   *)
(* record struct Connection, together with the kernel's side of its socket *)
(* and of the file it sends, and the handlers that the event loop calls.   *)
(*                                                                         *)
(* A handler is an operator from a connection to the set of connections it *)
(* can leave behind; the set has several members where malloc or the       *)
(* kernel decides.  Lengths are in abstract units: an answer head is       *)
(* AnsLen units, the file FileLen units, the socket's send buffer holds    *)
(* SndBuf units, and a request head arrives in Parts pieces.               *)
(***************************************************************************)
EXTENDS Integers, Sequences

CONSTANTS
  Parts,        \* pieces that make up a complete request head
  Extra,        \* pieces a client may send after its request
  AnsLen,       \* units of an answer head
  FileLen,      \* size that stat() reports for the file
  FileLens,     \* lengths the file can have by the time it is sent
  SndBuf,       \* capacity of a socket's send buffer
  SizeMax,      \* the largest size_t
  Requests,     \* the request heads clients send
  MallocFails,  \* may an allocation fail?
  Pressure      \* may the kernel refuse a send although the buffer has room?

ASSUME ConnectionAssumption ==
  /\ Parts \in Nat \ {0}
  /\ Extra \in Nat
  /\ AnsLen \in Nat \ {0}
  /\ FileLen \in Nat
  /\ FileLens \subseteq Nat
  /\ FileLens # {}
  /\ SndBuf \in Nat \ {0}
  /\ SizeMax \in Nat
  /\ SizeMax > AnsLen
  /\ MallocFails \in BOOLEAN
  /\ Pressure \in BOOLEAN

ConnState == {"wait_request", "sending_answer", "sending_file", "end"}

\* What open_regular_file finds at the requested path: the outcomes of stat
\* and, for "unreadable", of the open that follows it.
Target == {"regular", "unreadable", "search_denied", "missing", "name_too_long",
           "other_error", "not_regular"}

\* A request head, by what split_http_head and parse_http_head look at.
Request == [words : {2, 3}, version : {"HTTP/1.1", "other"},
            method : {"GET", "other"}, target : Target]

ASSUME RequestsAssumption == Requests \subseteq Request

Codes == {200, 403, 404, 405, 414, 500, 505}

-----------------------------------------------------------------------------
(* The answer a request gets.                                              *)

\* The status of the attempt to open the target.
OpenRegularFile(target) ==
  CASE target = "regular"       -> "ok"
    [] target = "search_denied" -> "eacess"
    [] target = "not_regular"   -> "not_regular"
    [] target = "missing"       -> "not_found"
    [] target = "name_too_long" -> "name_too_long"
    [] OTHER                    -> "other_error"

\* parse_http_head: the status code; 200 stands for its NULL result.
ParseHttpHead(req) ==
  LET res == OpenRegularFile(req.target) IN
  IF req.words < 3 THEN 500
  ELSE IF req.version # "HTTP/1.1" THEN 505
  ELSE IF req.method # "GET" THEN 405
  ELSE CASE res = "ok"                         -> 200
         [] res \in {"eacess", "not_regular"}  -> 403
         [] res = "not_found"                  -> 404
         [] res = "name_too_long"              -> 414
         [] OTHER                              -> 500

-----------------------------------------------------------------------------
(* The socket.                                                             *)

\* A unit of an answer head is <<code, i>>, a unit of the file <<0, i>>.
Unit == (Codes \cup {0}) \X Nat

Peer == {"open", "fin", "rst"}

Connections ==
  [state : ConnState, req : Request, got : Nat, poisoned : BOOLEAN, code : Codes \cup {0},
   ansLen : Nat, ansSent : Nat, fileOpen : BOOLEAN, fileSent : Int,
   unread : Nat, sndq : Nat, out : Seq(Unit), foff : Nat, flen : Nat, peer : Peer]

\* fs_new_conn, on a socket whose peer may already have sent or closed.
NewConn(req) ==
  [state |-> "wait_request", req |-> req, got |-> 0, poisoned |-> FALSE, code |-> 0,
   ansLen |-> 0, ansSent |-> 0, fileOpen |-> FALSE, fileSent |-> 0,
   unread |-> 0, sndq |-> 0, out |-> << >>, foff |-> 0, flen |-> 0, peer |-> "open"]

Room(k) == SndBuf - k.sndq
Lesser(a, b) == IF a < b THEN a ELSE b

Eagain == -1   \* send and sendfile return -1 and errno is EAGAIN
Failed == -2   \* they return -1 with any other errno

\* What send or sendfile can return when there are `want' units to take.
SendReturns(k, want) ==
  {n \in {Failed, Eagain} \cup 0..want :
     \/ n = Failed /\ want > 0 /\ k.peer = "rst"
     \/ n = Eagain /\ want > 0 /\ k.peer # "rst" /\ (Room(k) = 0 \/ Pressure)
     \/ n = Lesser(want, Room(k)) /\ (want = 0 \/ (n > 0 /\ k.peer # "rst"))}

\* The kernel takes the units kind, from+1 .. from+n.
Take(k, kind, from, n) ==
  IF n <= 0 THEN k
  ELSE [k EXCEPT !.out = @ \o [i \in 1..n |-> <<kind, from + i>>], !.sndq = @ + n]

-----------------------------------------------------------------------------
(* The handlers.                                                           *)

\* Mutant of AddFileSent: the offset is file_bytes_sent.
SentFromCount(k, n) ==
  IF n = Failed THEN k
  ELSE [Take(k, 0, k.fileSent, n) EXCEPT !.fileSent = @ + n, !.foff = IF n > 0 THEN @ + n ELSE @]

\* One sendfile.  Its EAGAIN is not an error to send_file, so the -1 it
\* returns is added to file_bytes_sent; the file offset is the kernel's.
AddFileSent(k, n) ==
  IF n = Failed THEN k
  ELSE [Take(k, 0, k.foff, n) EXCEPT !.fileSent = @ + n,
                                     !.foff = IF n > 0 THEN @ + n ELSE @]

\* Mutant of SendFile: any part of the file is taken for all of it.
EndsAfterPart(k) ==
  LET left == IF k.flen > k.foff THEN k.flen - k.foff ELSE 0
      sent == {AddFileSent(k, n) : n \in SendReturns(k, Lesser(FileLen - k.fileSent, left))}
  IN {[q EXCEPT !.state = IF q.fileSent > 0 THEN "end" ELSE @] : q \in sent}

SendFile(k) ==
  LET toSend == FileLen - k.fileSent
      left   == IF k.flen > k.foff THEN k.flen - k.foff ELSE 0
      sent   == IF toSend > 0
                THEN {AddFileSent(k, n) : n \in SendReturns(k, Lesser(toSend, left))}
                ELSE {k}
  IN {[q EXCEPT !.state = IF q.fileSent >= FileLen THEN "end" ELSE @] : q \in sent}

StartSendFile(k) ==
  IF k.fileOpen THEN SendFile([k EXCEPT !.state = "sending_file"])
                ELSE {[k EXCEPT !.state = "end"]}

\* Mutant of AddAnswerSent: answer_bytes_sent is signed.
SignedAnswerSent(k, n) ==
  IF n = Failed THEN k ELSE [Take(k, k.code, k.ansSent, n) EXCEPT !.ansSent = @ + n]

\* One send of the rest of the answer head: its EAGAIN, too, is added, and
\* answer_bytes_sent is unsigned.
AddAnswerSent(k, n) ==
  IF n = Failed THEN k
  ELSE [Take(k, k.code, k.ansSent, n) EXCEPT !.ansSent = (@ + n) % (SizeMax + 1)]

SendAnswer(k) ==
  LET toSend == k.ansLen - k.ansSent
      sent   == IF toSend > 0 THEN {AddAnswerSent(k, n) : n \in SendReturns(k, toSend)}
                              ELSE {k}
  IN UNION {IF q.ansSent >= q.ansLen THEN StartSendFile(q) ELSE {q} : q \in sent}

StartSendAnswer(k, code) ==
  SendAnswer([k EXCEPT !.state = "sending_answer", !.code = code,
                       !.ansLen = AnsLen, !.ansSent = 0])
    \cup IF MallocFails THEN {[k EXCEPT !.state = "end", !.ansLen = 0]} ELSE {}

\* The parsed request opens its file, and the answer starts.
Answer(k, code) ==
  IF code = 200
  THEN UNION {StartSendAnswer([k EXCEPT !.fileOpen = TRUE, !.flen = n], 200) : n \in FileLens}
  ELSE StartSendAnswer(k, code)

\* The codes that parse_http_head can return for the caught text.  When the
\* terminating NUL could not be stored the text is not a string and any code
\* is possible; the path buffer's own allocation failure gives 500.
AnswerCodes(k, terminated) ==
  IF terminated THEN {ParseHttpHead(k.req)} \cup (IF MallocFails THEN {500} ELSE {})
                ELSE Codes

\* Mutant of OnReadyRead: one recv, not as many as there is data for.
ReadsOnce(k) ==
  IF k.state # "wait_request" THEN {k}
  ELSE LET read == IF k.unread > 0 THEN [k EXCEPT !.got = @ + 1, !.unread = @ - 1] ELSE k
       IN IF read.got >= Parts /\ ~read.poisoned
          THEN UNION {Answer(read, c) : c \in AnswerCodes(read, TRUE)}
          ELSE {[read EXCEPT !.poisoned = TRUE]}

\* recv until the queue is empty; catch_http_request stores a NUL after what
\* has come so far, and since buffer_pop_back does not take it back it stays
\* in front of whatever comes later.
OnReadyRead(k) ==
  IF k.state # "wait_request" THEN {k}
  ELSE
    LET read   == [k EXCEPT !.got = @ + k.unread, !.unread = 0]
        caught == read.got >= Parts /\ ~read.poisoned
    IN (IF caught THEN UNION {Answer(read, c) : c \in AnswerCodes(read, TRUE)}
                  ELSE {[read EXCEPT !.poisoned = TRUE]})
         \cup IF MallocFails
              THEN {[read EXCEPT !.state = "end"]}
                     \cup UNION {Answer(read, c) : c \in AnswerCodes(read, FALSE)}
              ELSE {}

\* Mutant of OnReadyWrite: the file is not continued.
WritesHeadOnly(k) == IF k.state = "sending_answer" THEN SendAnswer(k) ELSE {k}

OnReadyWrite(k) ==
  CASE k.state = "sending_answer" -> SendAnswer(k)
    [] k.state = "sending_file"   -> SendFile(k)
    [] OTHER                      -> {k}

\* Mutant of CloseConn: the file stays open.
KeepsFile(k) == k

\* fs_close_conn: both descriptors are closed.
CloseConn(k) == [k EXCEPT !.fileOpen = FALSE]
=============================================================================
