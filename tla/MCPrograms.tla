----------------------------- MODULE MCPrograms -----------------------------
(* The smaller programs of the repository, one of them at a time: `program` *)
(* is chosen at the start, the machines of the others stand still.          *)
EXTENDS Buffer

CONSTANT Chosen    \* the programs of a run

VARIABLES program

VARIABLES files, index, at, mine, nextLine, erange, res, main, joined, sum, top
VARIABLES plot, todo, lib, closed, line, said, loop, onexit, sent, torn, misused, hit, failed, over
VARIABLES tel, net, server, greeting, late
VARIABLES archive, limit, lister
VARIABLES text, reader, counts
VARIABLES lines, dict, ini, wanted, dumped, starved
VARIABLES input, read, output, lost, ends
VARIABLES size, step, fd, mapped, offset, crc

-----------------------------------------------------------------------------
(* parselogs, hw11. *)

CONSTANTS u1, u2, u3, r1, r2

LogLine(u, r, n) == [complete |-> TRUE, inRange |-> TRUE, url |-> u, refer |-> r, trafic |-> n]

LogLines == {LogLine(u1, r1, 0), LogLine(u2, r1, 3), LogLine(u3, r2, 2),
             [LogLine(u1, r1, 0) EXCEPT !.complete = FALSE],
             [LogLine(u1, r1, 0) EXCEPT !.inRange = FALSE]}

Logs == INSTANCE ParseLogs WITH Files <- 2, Urls <- {u1, u2, u3}, Refers <- {r1, r2},
            Lines <- LogLines, MaxLines <- 2, NThreads <- 2, StatSize <- 2, WordMod <- 8,
            ReadFails <- TRUE

ASSUME LogsAssumption == Logs!ParseLogsAssumption

LogsInit == (program # "logs" => files = [f \in 1..2 |-> <<>>]) /\ Logs!Init

(* The logger, hw6 and hw13. *)

Logger == INSTANCE SfLog WITH Guys <- <<"a", "b">>, MainThread <- "main",
            StopSignals <- {"TERM"}, ErrorSignals <- {"SEGV"}, MaxEvents <- 3

LoggerInit == (program # "logger" => plot = "chorus") /\ Logger!Init

(* telehack, hw12. *)

Greetings == {<<"x", "n", ".">>, <<"n", "n", ".">>, <<"n", ".", "x", "n", ".">>,
              <<"n", "n", ".", "n", ".">>, <<"x", ".", "n">>}

Client == INSTANCE Telehack WITH ReqLen <- 4, MaxOut <- 5, Text <- <<"t", "u">>, BufLen <- 3

ASSUME ClientAssumption == Client!TelehackAssumption

ClientInit == (program # "client" => greeting = <<"x", ".", "n">>) /\ Client!Init

(* jpeg with zip, hw1. *)

Entry(id, name, extra, data, n) ==
    [id |-> id, name |-> name, extra |-> extra, data |-> data, size |-> n]

FirstEntries ==
    {Entry("h1", name, <<"x">>, data, n) : name \in {<<"a">>, <<"a", "b", "c">>, <<>>},
                                           data \in {<<>>, <<"x", "y">>, <<"x", "P">>}, n \in {0, 2, 31}}

SecondEntries == {Entry("h2", <<"d">>, <<>>, <<"z">>, n) : n \in {0, 1}}

Pictures == {<<"FF", "D8", "FF", "x", "FF", "D9">>, <<"FF", "D8", "FF", "D9">>,
             <<"FF", "D8", "x", "FF", "FF", "D9">>, <<"x", "y">>}

Archives ==
    [picture : Pictures, gap : {<<>>, <<"x">>, <<"P">>, <<"P", "K">>},
     entries : {<<>>} \cup {<<a>> : a \in FirstEntries} \cup (FirstEntries \X SecondEntries)]

Zip == INSTANCE ZipJpeg WITH Files <- Archives, file <- archive, reader <- lister,
            MaxName <- 2, Wrap <- 32

ZipInit == /\ program # "zip" => archive = [picture |-> <<"x", "y">>, gap |-> <<>>, entries |-> <<>>]
           /\ Zip!Init
           /\ program # "zip" => limit = 0

(* wordcount, hw3. *)

Words == INSTANCE WordCount WITH Letters <- {"a", "b"}, Blank <- " ", MaxText <- 6, MaxKey <- 4

WordsInit == (program # "words" => text = <<>>) /\ Words!Init

(* ciniparser, hw9. *)

IniLine(k, name, val) == [kind |-> k, name |-> name, val |-> val]

IniLines == {IniLine("section", "s", ""), IniLine("section", "t", ""),
             IniLine("value", "a", "1"), IniLine("value", "a", "2"), IniLine("value", "b", "1"),
             IniLine("error", "", ""), IniLine("skip", "", "")}

LastLines == IniLines \cup {IniLine("cut", "", ""), IniLine("joined", "", "")}

IniFiles == ({IniLine("section", "s", "")} \X IniLines \X LastLines)
            \cup {<<last>> : last \in LastLines} \cup {<<>>}

IniKeys == {<<"s">>, <<"t">>, <<"u">>} \cup ({"", "s", "t"} \X {"a", "b"})

Ini == INSTANCE IniFile WITH Files <- IniFiles, file <- lines, want <- wanted,
            Keys <- IniKeys, Vals <- {"1"}, MinSize <- 2, MaxOps <- 2, MaxStarved <- 1

IniInit == (program # "ini" => lines = <<>>) /\ Ini!Init

(* The converter of code pages, hw2: a page of the values around each limit. *)

Page == [c \in 128..134 |-> <<128, 2047, 2048, 9888, 32767, 32768, 65535>>[c - 127]]

Pages == INSTANCE CodePage WITH MaxInput <- 2

PagesInit == (program # "pages" => input = <<>>) /\ Pages!Init

(* crc32, hw10. *)

Crc == INSTANCE CrcFile WITH PageSize <- 3, MaxFile <- 10

CrcInit == (program # "crc" => size = 0) /\ Crc!Init

-----------------------------------------------------------------------------
logsVars == <<files, index, at, mine, nextLine, erange, res, main, joined, sum, top>>
loggerVars == <<plot, todo, lib, closed, line, said, loop, onexit, sent, torn, misused, hit, failed, over>>
clientVars == <<tel, net, server, greeting, late>>
zipVars == <<archive, limit, lister>>
wordsVars == <<text, reader, counts>>
iniVars == <<lines, dict, ini, wanted, dumped, starved>>
pagesVars == <<input, read, output, lost, ends>>
crcVars == <<size, step, fd, mapped, offset, crc>>
all == <<program, vars, logsVars, loggerVars, clientVars, zipVars, wordsVars, iniVars, pagesVars, crcVars>>

MCInit == /\ program \in Chosen
          /\ (program # "buffer" => use = "answer") /\ Init
          /\ LogsInit /\ LoggerInit /\ ClientInit /\ ZipInit /\ WordsInit /\ IniInit
          /\ PagesInit /\ CrcInit

OnlyBuffer ==
    /\ program = "buffer"
    /\ UNCHANGED <<program, logsVars, loggerVars, clientVars, zipVars, wordsVars, iniVars, pagesVars, crcVars>>

OnlyLogs ==
    /\ program = "logs"
    /\ UNCHANGED <<program, vars, loggerVars, clientVars, zipVars, wordsVars, iniVars, pagesVars, crcVars>>

OnlyLogger ==
    /\ program = "logger"
    /\ UNCHANGED <<program, vars, logsVars, clientVars, zipVars, wordsVars, iniVars, pagesVars, crcVars>>

OnlyClient ==
    /\ program = "client"
    /\ UNCHANGED <<program, vars, logsVars, loggerVars, zipVars, wordsVars, iniVars, pagesVars, crcVars>>

OnlyZip ==
    /\ program = "zip"
    /\ UNCHANGED <<program, vars, logsVars, loggerVars, clientVars, wordsVars, iniVars, pagesVars, crcVars>>

OnlyWords ==
    /\ program = "words"
    /\ UNCHANGED <<program, vars, logsVars, loggerVars, clientVars, zipVars, iniVars, pagesVars, crcVars>>

OnlyIni ==
    /\ program = "ini"
    /\ UNCHANGED <<program, vars, logsVars, loggerVars, clientVars, zipVars, wordsVars, pagesVars, crcVars>>

OnlyPages ==
    /\ program = "pages"
    /\ UNCHANGED <<program, vars, logsVars, loggerVars, clientVars, zipVars, wordsVars, iniVars, crcVars>>

OnlyCrc ==
    /\ program = "crc"
    /\ UNCHANGED <<program, vars, logsVars, loggerVars, clientVars, zipVars, wordsVars, iniVars, pagesVars>>

MCNext ==
    \/ OnlyBuffer /\ Next
    \/ OnlyLogs /\ Logs!Next
    \/ OnlyLogger /\ Logger!Next
    \/ OnlyClient /\ Client!Next
    \/ OnlyZip /\ Zip!Next
    \/ OnlyWords /\ Words!Next
    \/ OnlyIni /\ Ini!Next
    \/ OnlyPages /\ Pages!Next
    \/ OnlyCrc /\ Crc!Next

\* The programs whose end is a property do not stand still while they can go on.
Goes == \/ OnlyLogs /\ Logs!Next
        \/ OnlyLogger /\ \E t \in Logger!Threads : Logger!Run(t)
        \/ OnlyClient /\ Client!Runs

MCSpec == MCInit /\ [][MCNext]_all /\ WF_all(Goes)

-----------------------------------------------------------------------------
\* parselogs: no byte is counted twice or forgotten while the threads run and
\* are joined, and what is printed are the statistics of all the lines
\* (ParseLogs; main.c:95-135, :213-230, :338-370).
LogsRight == program = "logs" => Logs!InOnePlace /\ Logs!StatisticsRight

\* The logger writes whole lines to open streams, and every thread of the
\* chorus has said its name (SfLog; sflog.c:49-108, hw6/test/main.c:28-64).
LoggerRight == program = "logger" => Logger!LogWhole /\ Logger!OpenStream /\ Logger!ChorusSaid

\* The client asks after the prompt, sends the request as it is and prints the
\* answer as it was sent (Telehack; hw12/src/main.c:86-169).
ClientRight == program = "client" => Client!AsksAtPrompt /\ Client!RequestWhole /\ Client!AnswerWhole

\* Every entry of an archive is listed, nothing else is, and a whole picture
\* is not refused (ZipJpeg; hw1/main.c:37-130).
ListsRight == program = "zip" => Zip!ListsAll /\ Zip!ListsOnly /\ Zip!RefusesOnly

\* The words are counted (WordCount; hw3/wordcount/main.c:35-73).
CountsRight == program = "words" => Words!CountsRight

\* Every word of a file is counted (WordCount; hw3/readme.md:10), which the
\* program does not do (hw3/wordcount/main.c:38).
EveryWord == program = "words" => Words!EveryWord

\* An ini file is loaded or refused, kept through any sets and unsets, and
\* dumped (IniFile; ciniparser.c:199-472, dictionary.c:129-243).
IniRight ==
    program = "ini" => Ini!Faithful /\ Ini!CountedSlots /\ Ini!RefusedRightly /\ Ini!DumpWhole

\* Each section has its number and is dumped (IniFile; ciniparser.h:66-86),
\* which the code does not do (ciniparser.c:207-208).
EverySection == program = "ini" => Ini!EverySection

\* A text is converted to UTF-8, or the loss of a character's last byte is
\* told (CodePage; hw2/main.c:51-78).
PagesRight == program = "pages" => Pages!RightUtf8 /\ Pages!LastLossTold

\* The output is UTF-8 with any page (CodePage; hw2/readme.md:3-4), which it
\* is not from U+8000 on (hw2/main.c:62-69).
AlwaysUtf8 == program = "pages" => Pages!AlwaysUtf8

\* The checksum is that of the whole file (CrcFile; hw10/main.c:65-88).
WholeFile == program = "crc" => Crc!WholeFile

\* A file of any size has its checksum (CrcFile; hw10/readme.md:9-10), which
\* one of whole pages has not (hw10/main.c:66, :81).
AnySize == program = "crc" => Crc!AnySize

\* The programs with threads, signals or a peer end, but for the cases that
\* each of them names: parselogs (main.c:204-356), the chorus and the server
\* under signals (sflog.c:98), the client (hw12/src/main.c:136-156).
ProgramsEnd ==
    /\ program = "logs" => Logs!Ends
    /\ program = "logger" => Logger!EndsUnlessHit
    /\ program = "client" => Client!EndsUnlessClosed
=============================================================================
