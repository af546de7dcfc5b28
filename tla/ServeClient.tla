------------------------------ MODULE ServeClient ------------------------------
(***************************************************************************)
(* One connection served: w3ServerServeClient and w3ServerDisconnect of    *)
(* server/src/w3server.c, with the receive loop, the tokenizer, the        *)
(* routing of the request and the send loop that AcceptPool leaves out.    *)
(* Requests for programs under /bin are in module BinExec.                 *)
(*                                                                         *)
(* The client sends its request in pieces, may end its stream or reset the *)
(* connection at any time, and reads the answer at its own pace.  A        *)
(* request is a sequence of symbols: a command word, "sp", "cr", "lf", and *)
(* symbols that stand for pieces of a path.  Positions are those of the    *)
(* code plus one.  The TCP behaviour is that of the kernel under the code. *)
(***************************************************************************)
EXTENDS Naturals, Sequences, SequencesExt

CONSTANTS Symbols,      \* what commands and paths consist of
          Requests,     \* records [cmd, path, tail]: what a client may send
          Files,        \* [path |-> [size, good]]: blocks of a file, and how
                        \* many can be read before the disk fails
          ReadSize,     \* bytes asked of each read (1024 in the code)
          Window        \* answers the kernel buffers for a client

ASSUME FilesAssumption ==
    \A p \in DOMAIN Files : Files[p] \in [size : Nat, good : Nat] /\ Files[p].good <= Files[p].size
(* A read takes more than the word "GET" and its blank. *)
ASSUME ReadSizeAssumption == ReadSize \in Nat /\ ReadSize > 2
ASSUME WindowAssumption == Window \in Nat \ {0}

VARIABLES req,          \* the request this client will send
          sent,         \* symbols of it sent so far
          fin,          \* the client ended its stream
          link,         \* "up"; "reset": the next write fails; "dead": it kills
          pc,           \* where the serving thread is
          size,         \* bytes received (variable size)
          cap,          \* bytes allocated for data
          job,          \* what is left to write to the socket
          out,          \* what was written
          rcvd,         \* how much of it the client has read
          view          \* what the client makes of it

vars == <<req, sent, fin, link, pc, size, cap, job, out, rcvd, view>>

client == <<req, sent, fin, link, rcvd, view>>
server == <<pc, size, cap, job, out>>

Stream(r) == r.cmd \o <<"sp">> \o r.path \o r.tail

Delimiters == {"sp", "cr", "nul"}
Bytes == Symbols \cup Delimiters \cup {"lf"}

(* A request is divided where its first two tokens end.                     *)
ASSUME SymbolsAssumption == Symbols \cap Delimiters = {}
ASSUME RequestsAssumption ==
    \A r \in Requests :
        /\ r.cmd \in Seq(Symbols) /\ r.path \in Seq(Symbols) /\ r.tail \in Seq(Bytes)
        /\ r.tail \in {<<>>, <<"lf">>} \/ Head(r.tail) \in {"sp", "cr"}

Init ==
    /\ req \in Requests
    /\ sent = 0 /\ fin = FALSE /\ link = "up" /\ rcvd = 0 /\ view = "reading"
    /\ pc = "idle" /\ size = 0 /\ cap = 0 /\ job = <<>> /\ out = <<>>

-----------------------------------------------------------------------------
(* calloc cleared the first ReadSize bytes of data, and realloc keeps them; *)
(* what realloc adds is whatever was there.                                 *)
ClearedNone == 0            \* mutant: malloc, as in w3ReceiveData

Cleared == ReadSize

(* The data read so far, followed by what the tokenizer finds behind it. *)
Memory(junk) ==
    SubSeq(Stream(req), 1, size)
        \o [i \in 1..Len(junk) |-> IF size + i <= Cleared THEN "nul" ELSE junk[i]]

(* A string that begins at from, where the first n bytes of data have been  *)
(* received, may run on to wherever memory happens to end it, or the        *)
(* process dies: none of ends was received, none is left that was cleared.  *)
RunsOn(from, n, ends) ==
    /\ from > Cleared \/ n >= Cleared
    /\ \A i \in from..n : Stream(req)[i] \notin ends

Junk == {<<"nul", "nul", "nul">>, <<"x", "nul", "nul">>}

(* Mutant: only blanks and zeros end a token. *)
TokenToBlank(str) ==
    LET ends == {i \in DOMAIN str : str[i] \in {"sp", "nul"}}
    IN  SubSeq(str, 1, (CHOOSE i \in ends : \A j \in ends : i <= j) - 1)

(* w3ServerGetToken: everything up to a blank, a carriage return or a zero. *)
Token(str) ==
    LET ends == {i \in DOMAIN str : str[i] \in Delimiters}
    IN  SubSeq(str, 1, (CHOOSE i \in ends : \A j \in ends : i <= j) - 1)

(* An answer is a sequence of pieces: a page, which w3HTMLGenerateError     *)
(* makes, or the blocks of a file.  The last write of a file may have no    *)
(* bytes; it is no block.                                                   *)
Page(code) == <<code>>
Block(path, k) == <<path, k>>

Pieces == {Page(code) : code \in {"400", "404", "503"}}
              \cup UNION {{Block(p, k) : k \in 1..Files[p].size} : p \in DOMAIN Files}

(* w3ServerSendError: the page of the error. *)
SendError(code) == <<Page(code)>>

(* w3ServerRespond appends the name of the standard file to "/" and to      *)
(* directories.  For an empty path it reads the byte before the string.     *)
WithIndex(path) ==
    IF path = <<>> THEN {path, <<"index">>}
    ELSE IF Len(path) = 1 \/ Last(path) = "/" THEN {Append(path, "index")}
    ELSE {path}

(* w3ServerSendFile: the blocks of the file; the error page instead of a    *)
(* file that cannot be opened, and after the blocks before a read error.    *)
Content(path) ==
    IF path \notin DOMAIN Files THEN SendError("404")
    ELSE LET f == Files[path]
             blocks == [k \in 1..f.good |-> Block(path, k)]
         IN  IF f.good < f.size THEN blocks \o SendError("404") ELSE blocks

IdentifyCommand(cmd) ==
    IF Len(cmd) = 1 /\ cmd[1] \in {"GET", "HEAD", "POST"} THEN cmd[1] ELSE "unknown"

(* w3ServerRespond: all answers to the text. *)
Answers(text) ==
    LET cmd == Token(text)
        rest == SubSeq(text, Len(cmd) + 2, Len(text))
        kind == IdentifyCommand(cmd)
    IN  IF kind = "GET" THEN {Content(p) : p \in WithIndex(Token(rest))}
        ELSE {SendError(IF kind = "unknown" THEN "400" ELSE "503")}

-----------------------------------------------------------------------------
(* The connection waits in the queue and is accepted: see AcceptPool. *)
Arrive ==
    /\ pc = "idle"
    /\ pc' = "queued"
    /\ UNCHANGED <<client, size, cap, job, out>>

Accepted ==
    /\ pc = "queued"
    /\ pc' = "read"
    /\ cap' = ReadSize
    /\ UNCHANGED <<client, size, job, out>>

(* A dead pointer, an access beyond a block, or a second write on a reset   *)
(* connection.                                                              *)
Crash == pc' = "crashed" /\ UNCHANGED <<client, size, cap, job, out>>

(* What read gives: at most ReadSize bytes of what has come. *)
Pending == sent - size

GotAndZero == IF Pending < ReadSize THEN Pending + 1 ELSE ReadSize  \* mutant

Got == IF Pending < ReadSize THEN Pending ELSE ReadSize

(* The size of data after n bytes: room for the next read behind them. *)
GrownTight(n) == IF n < ReadSize THEN ReadSize ELSE n               \* mutant

Grown(n) == ReadSize + n

(* The loop ends with a line feed as the last byte of what was read. *)
LineReadAtOnce(n) == TRUE                                           \* mutant

LineRead(n) == Stream(req)[n] = "lf"

Received(n) ==
    /\ n > 0
    /\ size' = size + n
    /\ cap' = Grown(size')
    /\ pc' = IF LineRead(size') THEN "respond" ELSE "read"
    /\ UNCHANGED <<client, job, out>>

(* What a read of n bytes gives may reach beyond the block, and is printed  *)
(* as a string: what came of it and what memory holds behind.               *)
BeyondBlock(n) == size + n > cap \/ RunsOn(size + 1, size + n, {"nul"})

(* One turn of the loop of w3ServerReceiveRequest.  At the end of the       *)
(* stream read returns 0 and ends the loop.  If read fails the result is    *)
(* NULL, and w3ServerServeClient uses it.                                   *)
ReceiveRequest ==
    /\ pc = "read"
    /\ \/ Received(Got)
       \/ /\ Got = 0 /\ fin
          /\ pc' = "respond"
          /\ UNCHANGED <<client, size, cap, job, out>>
       \/ /\ Got > 0 \/ fin
          /\ BeyondBlock(Got)
          /\ Crash
       \/ /\ Got = 0 /\ ~fin /\ link # "up"
          /\ Crash

(* The tokens that w3ServerRespond takes: the command, and the path of GET. *)
TokenRunsOn(text) ==
    \/ RunsOn(1, size, Delimiters)
    \/ /\ IdentifyCommand(Token(text)) = "GET"
       /\ RunsOn(Len(Token(text)) + 2, size, Delimiters)

(* w3ServerRespond decides what to send. *)
Respond ==
    /\ pc = "respond"
    /\ \E junk \in Junk :
          \/ /\ job' \in Answers(Memory(junk))
             /\ pc' = "send"
             /\ UNCHANGED <<client, size, cap, out>>
          \/ /\ TokenRunsOn(Memory(junk))
             /\ Crash

(* w3SendData: the result of write is ignored.  It waits while the client   *)
(* reads nothing; on a reset connection the first write fails and the next  *)
(* one, or the first if the client had ended its stream, raises SIGPIPE.    *)
SendData ==
    /\ pc = "send" /\ job # <<>>
    /\ \/ /\ link = "up" /\ Len(out) - rcvd < Window
          /\ out' = Append(out, Head(job))
          /\ job' = Tail(job)
          /\ UNCHANGED <<client, pc, size, cap>>
       \/ /\ link = "reset"
          /\ link' = "dead"
          /\ job' = Tail(job)
          /\ UNCHANGED <<req, sent, fin, rcvd, view, pc, size, cap, out>>
       \/ /\ link = "dead"
          /\ Crash

(* Mutant: the socket is closed only once the client has ended its stream.  *)
DisconnectAfterEnd ==
    /\ pc = "send" /\ job = <<>> /\ fin
    /\ pc' = "closed"
    /\ UNCHANGED <<client, size, cap, job, out>>

(* w3ServerDisconnect. *)
Disconnect ==
    /\ pc = "send" /\ job = <<>>
    /\ pc' = "closed"
    /\ UNCHANGED <<client, size, cap, job, out>>

-----------------------------------------------------------------------------
(* The client. *)
Live == pc \in {"queued", "read", "respond", "send", "closed"} /\ link = "up" /\ view = "reading"

ClientSend ==
    /\ Live /\ ~fin
    /\ sent' \in (sent + 1)..Len(Stream(req))
    /\ UNCHANGED <<req, fin, link, rcvd, view, server>>

ClientFin ==
    /\ Live /\ ~fin
    /\ fin' = TRUE
    /\ UNCHANGED <<req, sent, link, rcvd, view, server>>

(* A reset after the end of the stream arms SIGPIPE at once. *)
ClientReset ==
    /\ Live /\ pc # "closed"
    /\ link' = IF fin THEN "dead" ELSE "reset"
    /\ UNCHANGED <<req, sent, fin, rcvd, view, server>>

ClientRead ==
    /\ view = "reading" /\ link = "up"
    /\ \/ /\ rcvd < Len(out)
          /\ rcvd' = rcvd + 1
          /\ UNCHANGED view
       \/ /\ rcvd = Len(out) /\ pc = "closed" /\ sent = size
          /\ view' = "complete"
          /\ UNCHANGED rcvd
    /\ UNCHANGED <<req, sent, fin, link, server>>

(* The kernel resets a connection that is closed with data it received and  *)
(* nobody read: the client loses what it has not read yet.                  *)
ClientCut ==
    /\ view = "reading" /\ pc = "closed" /\ sent > size
    /\ view' = "cut"
    /\ UNCHANGED <<req, sent, fin, link, rcvd, server>>

-----------------------------------------------------------------------------
ServerStep == ReceiveRequest \/ Respond \/ SendData \/ Disconnect

Next ==
    \/ Arrive \/ Accepted
    \/ ServerStep
    \/ ClientSend \/ ClientFin \/ ClientReset \/ ClientRead \/ ClientCut

SafeSpec == Init /\ [][Next]_vars

(* The thread runs whenever it can; nothing is asked of the client. *)
Spec == SafeSpec /\ WF_vars(ServerStep)

-----------------------------------------------------------------------------
(* Sizes, and what is on its way, stay in their sets. *)
TypeOK ==
    /\ req \in Requests
    /\ sent \in 0..Len(Stream(req)) /\ size \in 0..sent
    /\ fin \in BOOLEAN
    /\ link \in {"up", "reset", "dead"}
    /\ pc \in {"idle", "queued", "read", "respond", "send", "closed", "crashed"}
    /\ cap \in Nat
    /\ job \in Seq(Pieces) /\ out \in Seq(Pieces)
    /\ rcvd \in 0..Len(out)
    /\ view \in {"reading", "complete", "cut"}

(* Every read finds room for ReadSize bytes behind those received before.   *)
RoomToRead == pc = "read" => size + ReadSize <= cap

(* What the request asks for, from its parts: a command that is not GET has *)
(* a page; a path that ends in "/" names the index of a directory; a line   *)
(* feed that no carriage return precedes belongs to the path.               *)
Delimited(r) == r.tail # <<>> /\ Head(r.tail) \in {"sp", "cr"}

Asked(r) ==
    LET path == IF r.tail # <<>> /\ Head(r.tail) = "lf" THEN Append(r.path, "lf") ELSE r.path
    IN  IF r.cmd = <<"GET">>
        THEN Content(IF Len(path) = 1 \/ Last(path) = "/" THEN Append(path, "index") ELSE path)
        ELSE IF r.cmd \in {<<"HEAD">>, <<"POST">>} THEN <<Page("503")>> ELSE <<Page("400")>>

(* However the request was cut into pieces and whatever memory held before, *)
(* what is written and still to be written is the answer to the request,    *)
(* once: of a request whose path is delimited, or that fits one read, once  *)
(* the first line came.  (The byte before an empty path decides on it.)     *)
FirstLineCame ==
    size >= Len(req.cmd) + 1 + Len(req.path) + (IF req.tail = <<>> THEN 0 ELSE 1)

AnswerAsAsked ==
    /\ pc \in {"send", "closed"} /\ link = "up"
    /\ FirstLineCame /\ req.path # <<>>
    /\ Delimited(req) \/ size < ReadSize
    => out \o job = Asked(req)

(* A client that neither resets nor has sent as much as one read takes does *)
(* not bring the process down, complete or not, however its bytes are cut   *)
(* into reads: they fit the block, and every string made of them ends in a  *)
(* byte that calloc cleared.                                                *)
ShortRequestHarmless == pc = "crashed" => link # "up" \/ sent >= ReadSize

(* A client that sends one line, as w3ClientGetDocument does, and does not  *)
(* reset is never cut off, and takes the end of the stream for the end of   *)
(* the answer it asked for.                                                 *)
OneLine(r) ==
    /\ Delimited(r) /\ r.path # <<>>
    /\ \A i \in DOMAIN Stream(r) : Stream(r)[i] = "lf" => i = Len(Stream(r))

OneLineWhole ==
    OneLine(req) => /\ view # "cut"
                    /\ view = "complete" /\ FirstLineCame
                          => SubSeq(out, 1, rcvd) = Asked(req)

(* Once the client ended its line or its stream the thread is done with it: *)
(* it closes, or the process dies, or from some time on it waits for ever   *)
(* for a client that does not read.  (A client that goes on after a line    *)
(* feed may have to end it again.)                                          *)
Held == pc = "send" /\ job # <<>> /\ link = "up" /\ Len(out) - rcvd >= Window

LineEnded == fin \/ (sent = Len(Stream(req)) /\ Last(Stream(req)) = "lf")

Released == (pc = "read" /\ LineEnded) ~> (pc \in {"closed", "crashed"} \/ []Held)

(* server/README:59: "It responds to GET by sending the requested file to   *)
(* the client": a client that asks for a file that can be read, and does    *)
(* not reset, is not cut off before it has read the file.                   *)
RequestedFileArrives ==
    view = "cut" /\ FirstLineCame /\ req.cmd = <<"GET">> /\ req.path \in DOMAIN Files
        => rcvd = Len(out)

-----------------------------------------------------------------------------
(* This is one connection of the service of ConnectionService: what became  *)
(* of it, and what its client has done.                                     *)
State == CASE pc = "idle" -> "idle"
           [] pc = "queued" -> "queued"
           [] pc = "closed" -> "closed"
           [] pc = "crashed" -> "lost"
           [] OTHER -> "accepted"

Spoke == fin \/ \E i \in 1..sent : Stream(req)[i] = "lf"

Said == (IF Spoke THEN {"spoken"} ELSE {})
            \cup (IF sent >= ReadSize THEN {"long"} ELSE {})
            \cup (IF link # "up" THEN {"reset"} ELSE {})

Service == INSTANCE ConnectionService WITH
    Conns <- {"this"},
    up    <- pc # "crashed",
    conn  <- [c \in {"this"} |-> State],
    input <- [c \in {"this"} |-> Said]

(* Serving is what AcceptPool takes it for: it closes only once the client  *)
(* ended a line or its stream, and dies only of a reset or a long request.  *)
ServesAsService == Service!SafeSpec
=============================================================================
