------------------------------- MODULE Telehack -------------------------------
(***************************************************************************)
(* The client of telehack.com's figlet (hw12/src/main.c): it reads up to   *)
(* the prompt, a dot at the start of a line, sends a request, and takes what*)
(* comes back, up to a second of silence, for the echo of the request and  *)
(* the answer.  The bytes of a request are their positions in it, 0 is the *)
(* byte of memory before it; the answer is `Text` and the next prompt.     *)
(***************************************************************************)
EXTENDS Integers, Sequences

CONSTANTS Greetings,    \* what the server may say first
          ReqLen,       \* the length of the request
          MaxOut,       \* bound: of what has been sent so many bytes are kept
          Text,         \* the text of the answer
          BufLen        \* 1024: how much is received at once

NewLine == "n"
Dot == "."
Prompt == <<NewLine, Dot>>

TelehackAssumption == ReqLen \in Nat /\ MaxOut \in Nat /\ MaxOut > ReqLen

VARIABLES tel,       \* the client
          net,       \* the connection: what has arrived, at either end, whether it is closed,
                     \* and, as history, whether a send was interrupted
          server,    \* what the server has still to send
          greeting,  \* the greeting of this run
          late       \* history: the client gave up on an answer that was still coming

telVars == <<tel, net, server, greeting, late>>

Request == [k \in 1..ReqLen |-> k]

Begin == [at |-> "connect", i |-> 0, tries |-> 3, read |-> 0, sent |-> 0, received |-> 0,
          answer |-> <<>>]

-----------------------------------------------------------------------------
(* Where the client goes from here. *)

Leave(how) == tel' = [tel EXCEPT !.at = how]

\* onerror before `answer` is initialised frees what happens to be in it.
ErrorTooEarly == Leave("failed") \/ Leave("crashed")

Quiet == UNCHANGED <<net, server, greeting, late>>

\* getaddrinfo, socket, setsockopt (after whose failure connect gets a closed
\* descriptor), connect.
Connect ==
    /\ tel.at = "connect"
    /\ Leave("prompt") \/ Leave("failed")
    /\ Quiet

\* The matcher starts over without testing the character that broke the match.
Match(c) == IF Prompt[tel.i + 1] = c THEN tel.i + 1 ELSE 0

ReadPrompt ==
    /\ tel.at = "prompt" /\ net.in # <<>>
    /\ LET i == Match(Head(net.in)) IN
       tel' = [tel EXCEPT !.read = @ + 1,
                          !.i = IF i = Len(Prompt) THEN 0 ELSE i,
                          !.at = IF i = Len(Prompt) THEN "request" ELSE @]
    /\ net' = [net EXCEPT !.in = Tail(@)]
    /\ UNCHANGED <<server, greeting, late>>

\* A second of silence, an interruption, or the end of the stream.
NoPrompt ==
    /\ tel.at = "prompt" /\ net.in = <<>>
    /\ \/ tel.tries > 1 /\ tel' = [tel EXCEPT !.tries = @ - 1]
       \/ tel.tries = 1 /\ ErrorTooEarly
    /\ Quiet

\* send takes n bytes of req from `sent` on.
Piece(n) == [k \in 1..n |-> tel.sent + k]

SendSome(n) == net' = [net EXCEPT !.out = SubSeq(@ \o Piece(n), 1,
                                           IF Len(@) + n < MaxOut THEN Len(@) + n ELSE MaxOut)]

Done(n) == n >= ReqLen

\* What it returns overwrites `sent`: the loop goes on from there while that is
\* less than a half, and is content only with the whole.
Send ==
    /\ tel.at = "request"
    /\ \E n \in 1..(ReqLen - tel.sent) :
        /\ SendSome(n)
        /\ \/ n < ReqLen - n /\ tel' = [tel EXCEPT !.sent = n]
           \/ n >= ReqLen - n /\ Done(n) /\ Leave("answer")
           \/ n >= ReqLen - n /\ ~Done(n) /\ ErrorTooEarly
    /\ UNCHANGED <<server, greeting, late>>

\* The -1 of an interruption is kept in `sent` too: the next send is of the byte
\* before the request and the request.
SendInterrupted ==
    /\ tel.at = "request"
    /\ tel' = [tel EXCEPT !.sent = -1]
    /\ net' = [net EXCEPT !.hit = TRUE]
    /\ UNCHANGED <<server, greeting, late>>

\* malloc fails, or send with another error; a peer that is gone may raise SIGPIPE.
RequestFails ==
    /\ tel.at = "request"
    /\ ErrorTooEarly \/ (net.closed /\ Leave("killed"))
    /\ Quiet

SkipTooMuch(data) ==    \* mutant: the last byte of the echo is counted twice
    SubSeq(data, (IF tel.received > ReqLen THEN 0 ELSE ReqLen + 1 - tel.received) + 1, Len(data))

\* The bytes after the echo.
Skip(data) ==
    IF tel.received > ReqLen THEN data
    ELSE SubSeq(data, ReqLen - tel.received + 1, Len(data))

Chunk == SubSeq(net.in, 1, IF Len(net.in) < BufLen THEN Len(net.in) ELSE BufLen)

ReadAnswer ==
    /\ tel.at = "answer" /\ net.in # <<>>
    /\ \/ tel' = [tel EXCEPT !.answer = @ \o Skip(Chunk), !.received = @ + Len(Chunk)]
       \/ Skip(Chunk) # <<>> /\ Leave("failed")    \* buffer_append fails
    /\ net' = [net EXCEPT !.in = SubSeq(@, Len(Chunk) + 1, Len(@))]
    /\ UNCHANGED <<server, greeting, late>>

\* The end of the stream is received, and from then on again and again.
ReadEnd ==
    /\ tel.at = "answer" /\ net.in = <<>> /\ net.closed
    /\ Leave("spins")
    /\ Quiet

\* The last byte of the answer is taken for the prompt.
EndAnswer ==
    /\ IF Len(tel.answer) > 1
       THEN tel' = [tel EXCEPT !.answer = SubSeq(@, 1, Len(@) - 1), !.at = "printed"]
       ELSE Leave("failed")
    /\ late' = (net.in # <<>> \/ server # <<>>)
    /\ UNCHANGED <<net, server, greeting>>

\* A second of silence ends the answer; an interruption only makes recv start again.
Silence ==
    /\ tel.at = "answer" /\ net.in = <<>> /\ ~net.closed
    /\ EndAnswer

\* So does any error, whatever is still to come.
ReadFails ==
    /\ tel.at = "answer"
    /\ EndAnswer

\* What goes on by itself.
Runs == Connect \/ ReadPrompt \/ NoPrompt \/ Send \/ ReadAnswer \/ ReadEnd \/ Silence

Client == Runs \/ SendInterrupted \/ RequestFails \/ ReadFails

-----------------------------------------------------------------------------
(* The server, with as long a pause as it likes before anything it does.  What it does  *)
(* when the client has ended is left out.                                               *)

Talking == tel.at \in {"prompt", "request", "answer"} /\ ~net.closed

Say ==
    /\ Talking
    /\ server # <<>>
    /\ \E n \in 1..Len(server) :
        /\ net' = [net EXCEPT !.in = @ \o SubSeq(server, 1, n)]
        /\ server' = SubSeq(server, n + 1, Len(server))
    /\ UNCHANGED <<tel, greeting, late>>

\* It answers a whole request, with its echo first.
Answer ==
    /\ Talking /\ ~net.answered
    /\ server = <<>> /\ Len(net.out) >= ReqLen
    /\ server' = SubSeq(net.out, 1, ReqLen) \o Text \o Prompt
    /\ net' = [net EXCEPT !.answered = TRUE]
    /\ UNCHANGED <<tel, greeting, late>>

Close ==
    /\ Talking
    /\ net' = [net EXCEPT !.closed = TRUE]
    /\ UNCHANGED <<tel, server, greeting, late>>

Init ==
    /\ greeting \in Greetings
    /\ tel = Begin
    /\ net = [in |-> <<>>, out |-> <<>>, closed |-> FALSE, answered |-> FALSE, hit |-> FALSE]
    /\ server = greeting
    /\ late = FALSE

Next == Client \/ Say \/ Answer \/ Close

\* send takes something and recv gives up after its second; errors need not come, and
\* the server does as it likes.
Spec == Init /\ [][Next]_telVars /\ WF_telVars(Runs)

-----------------------------------------------------------------------------
\* A prompt of the greeting ends at its k-th byte.
PromptAt(k) == k >= 2 /\ SubSeq(greeting, k - 1, k) = Prompt

(* The client asks after a prompt, never after anything else, and it reads   *)
(* past a prompt only when another empty line comes before it: then the      *)
(* second newline has reset the matcher (main.c:93-103).                     *)
AsksAtPrompt ==
    /\ tel.at \in {"request", "answer", "spins", "printed"} => PromptAt(tel.read)
    /\ tel.at = "prompt" =>
        \A k \in 2..tel.read : PromptAt(k) => k > 2 /\ greeting[k - 2] = NewLine

(* When the client goes on to the answer it has sent the whole request, each *)
(* byte once and in order, however much each send took, unless one was       *)
(* interrupted (main.c:122-133): what follows that starts a byte too early.  *)
RequestWhole ==
    tel.at \in {"answer", "spins", "printed"} /\ ~net.hit => net.out = Request

(* What is printed is the answer's text and the newline before the prompt,   *)
(* in whatever pieces it came, when it came without a pause of a second, an  *)
(* error of recv or of an earlier send, and the prompt was the end of the    *)
(* greeting (main.c:140-160).                                                *)
AnswerWhole ==
    tel.at = "printed" /\ ~late /\ tel.read = Len(greeting) /\ net.answered /\ ~net.hit =>
        tel.answer = Text \o <<NewLine>>

\* Where the client may be for ever: at its end, at the end of the stream, or in the
\* loop of send, which goes on after less than a half of the request or an interruption.
Rests == \/ tel.at \in {"failed", "crashed", "killed", "printed"}
         \/ tel.at = "spins" /\ net.closed
         \/ tel.at = "request" /\ (tel.sent = -1 \/ 2 * tel.sent < ReqLen)

(* The client of a server that has said all it says in the end either ends,  *)
(* or receives nothing for ever since the server closed the connection       *)
(* during the answer (main.c:140-156), or sends for ever, less than a half   *)
(* of the request each time or interrupted (main.c:124-129).                 *)
EndsUnlessClosed == []<>Rests
=============================================================================
