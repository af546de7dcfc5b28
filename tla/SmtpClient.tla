------------------------------- MODULE SmtpClient -------------------------------
(***************************************************************************)
(* A mail sent: w3SendMail of client/src/w3smtp.c, with w3ReceiveMailReply, *)
(* w3ClientConnect, w3ClientDisconnect and w3SendData, and the mail server *)
(* it talks to.                                                            *)
(*                                                                         *)
(* The client ignores every result and every reply, and does not read the  *)
(* greeting of the server: it is taken for the reply to HELO, and so on.   *)
(* A read may return several replies at once.  The server answers every    *)
(* line, may refuse any command and may close the connection at any time.  *)
(*                                                                         *)
(* What is on the wire is a sequence of lines as the server splits them.   *)
(* The lines of a mail file end in a bare line feed: to a server that does *)
(* not accept it the whole body is one line.  The body is sent as it is: a  *)
(* line of it may spell a command, be a dot or begin with one.             *)
(***************************************************************************)
EXTENDS Naturals, Sequences

CONSTANTS Bodies,       \* bodies of mails: sequences of BodyLines
          MaxGreeting   \* lines of the longest greeting

(* What a line is to the server: a command, the end of a mail, text behind  *)
(* a dot or any other text.                                                *)
Commands == {"HELO", "MAIL", "RCPT", "DATA", "QUIT"}
BodyLines == Commands \cup {".", ".text", "text"}

ASSUME BodiesAssumption == \A body \in Bodies : body \in Seq(BodyLines)
ASSUME GreetingAssumption == MaxGreeting \in Nat \ {0}

VARIABLES mail,         \* the body of the mail
          pc,           \* where w3SendMail is
          step,         \* the part of the dialogue it is at
          link,         \* the socket: see Write and ReceiveMailReply
          replies,      \* lines of replies that wait to be read
          lines,        \* lines that wait at the server
          server,       \* "greet", "command", "data" or "closed"
          stage,        \* commands the server accepted for this message
          message,      \* lines of the message it has so far
          delivered,    \* messages it accepted
          refused       \* the server refused something or gave up

vars == <<mail, pc, step, link, replies, lines, server, stage, message, delivered, refused>>

atServer == <<server, stage, message, delivered>>

(* Mutant: the end of the mail is sent after QUIT. *)
DialogueEndLast(body) ==
    << <<"HELO">>, <<"MAIL">>, <<"RCPT">>, <<"DATA">>, body, <<"QUIT", ".">> >>

(* What w3SendMail writes, call by call; it reads after each but the last.  *)
Dialogue(body) ==
    << <<"HELO">>, <<"MAIL">>, <<"RCPT">>, <<"DATA">>, body \o <<".">>, <<"QUIT">> >>

Steps == 6

Init ==
    /\ mail \in Bodies
    /\ pc = "connect" /\ step = 1 /\ link = "none"
    /\ replies = 0 /\ lines = <<>>
    /\ server = "closed" /\ stage = "none" /\ message = <<>> /\ delivered = <<>>
    /\ refused = FALSE

-----------------------------------------------------------------------------
(* w3ClientConnect; its result is ignored.  If the host is unknown          *)
(* con.socket is not initialised: some number that is no connection.  If    *)
(* the server refused, the socket is not connected.                         *)
Connect ==
    /\ pc = "connect"
    /\ pc' = "write"
    /\ \/ link' = "up" /\ server' = "greet" /\ UNCHANGED refused
       \/ link' \in {"none", "unconnected"} /\ refused' = TRUE /\ UNCHANGED server
    /\ UNCHANGED <<mail, step, replies, lines, stage, message, delivered>>

(* Writing to a socket that is not connected, or again to one whose server  *)
(* is gone, raises SIGPIPE.                                                 *)
Killed ==
    /\ link \in {"unconnected", "dead"}
    /\ pc' = "killed"
    /\ UNCHANGED <<step, link, lines>>

(* Mutant: the reply to QUIT is read too. *)
WriteThenRead(text) ==
    /\ link \notin {"unconnected", "dead"}
    /\ lines' = IF link = "up" THEN lines \o text ELSE lines
    /\ UNCHANGED <<step, link>>
    /\ pc' = "read"

(* Failures of write are ignored.  On a connection that the server closed   *)
(* the first write is answered with a reset, sooner or later.               *)
Write(text) ==
    /\ link \notin {"unconnected", "dead"}
    /\ lines' = IF link = "up" THEN lines \o text ELSE lines
    /\ CASE link = "reset" -> link' = "dead"
         [] link = "fin"   -> link' \in {"fin", "dead"}
         [] OTHER          -> link' = link
    /\ pc' = IF step = Steps THEN "disconnect" ELSE "read"
    /\ UNCHANGED step

SendData ==
    /\ pc = "write"
    /\ Write(Dialogue(mail)[step]) \/ Killed
    /\ UNCHANGED <<mail, replies, atServer, refused>>

(* Mutants: the reply is read to the end of the stream, as w3ReceiveData    *)
(* does with a document; a read does not wait for a reply.                  *)
ReceiveToTheEnd ==
    /\ pc = "read"
    /\ \/ link \in {"fin", "dead"} /\ replies' = 0 /\ UNCHANGED link
       \/ link = "reset" /\ link' = "dead" /\ replies' = 0
       \/ link = "none" /\ UNCHANGED <<link, replies>>
    /\ pc' = "write" /\ step' = step + 1
    /\ UNCHANGED <<mail, lines, atServer, refused>>

ReceiveIfAny ==
    /\ pc = "read"
    /\ replies' \in {0, replies}
    /\ link' = IF link = "reset" THEN "dead" ELSE link
    /\ pc' = "write" /\ step' = step + 1
    /\ UNCHANGED <<mail, lines, atServer, refused>>

(* w3ReceiveMailReply reads on until what it read ends a line: one reply or *)
(* several.  The end of the stream and an error end the loop too; of the    *)
(* error the caller gets NULL, which it only frees.  A number that is no    *)
(* connection may be that of the standard input, where a read may wait.     *)
ReceiveMailReply ==
    /\ pc = "read"
    /\ \/ /\ \/ replies > 0 /\ replies' \in 0..(replies - 1) /\ UNCHANGED link
             \/ replies = 0 /\ link \in {"none", "fin", "dead"} /\ UNCHANGED <<link, replies>>
             \/ replies = 0 /\ link = "reset" /\ link' = "dead" /\ UNCHANGED replies
          /\ pc' = "write" /\ step' = step + 1
       \/ link = "none" /\ pc' = "stray" /\ UNCHANGED <<step, link, replies>>
    /\ UNCHANGED <<mail, lines, atServer, refused>>

(* w3ClientDisconnect, and w3SendMail returns true.  Replies that nobody    *)
(* read make the kernel reset the connection, and the server may lose the   *)
(* lines it has not read.                                                   *)
Disconnect ==
    /\ pc = "disconnect"
    /\ pc' = "returned"
    /\ lines' = lines \/ (replies > 0 /\ lines' = <<>>)
    /\ UNCHANGED <<mail, step, link, replies, atServer, refused>>

-----------------------------------------------------------------------------
(* The server.  A reply to a client that is gone is answered with a reset.  *)
Reply(rest, n) ==
    IF pc \in {"returned", "killed"}
    THEN lines' \in {rest, <<>>} /\ UNCHANGED replies
    ELSE lines' = rest /\ replies' = replies + n

Greet ==
    /\ server = "greet"
    /\ server' = "command"
    /\ \E n \in 1..MaxGreeting : Reply(lines, n)
    /\ UNCHANGED <<mail, pc, step, link, stage, message, delivered, refused>>

(* The stages at which a command is accepted, and the stage it leads to:    *)
(* HELO begins anew, a mail may have several recipients.                    *)
StagesFor == [HELO |-> {"none", "helo", "mail", "rcpt"}, MAIL |-> {"helo"},
              RCPT |-> {"mail", "rcpt"}, DATA |-> {"rcpt"}]
StageAfter == [HELO |-> "helo", MAIL |-> "mail", RCPT |-> "rcpt", DATA |-> "rcpt"]

AcceptCommand ==
    /\ server = "command" /\ lines # <<>>
    /\ Head(lines) \in DOMAIN StagesFor /\ stage \in StagesFor[Head(lines)]
    /\ stage' = StageAfter[Head(lines)]
    /\ server' = IF Head(lines) = "DATA" THEN "data" ELSE "command"
    /\ Reply(Tail(lines), 1)
    /\ UNCHANGED <<mail, pc, step, link, message, delivered, refused>>

RefuseCommand ==
    /\ server = "command" /\ lines # <<>> /\ Head(lines) # "QUIT"
    /\ refused' = TRUE
    /\ Reply(Tail(lines), 1)
    /\ UNCHANGED <<mail, pc, step, link, atServer>>

(* A line of a mail is read without the dot it begins with.                 *)
Undotted(line) == IF line = ".text" THEN "text" ELSE line

TakeLine ==
    /\ server = "data" /\ lines # <<>> /\ Head(lines) # "."
    /\ message' = Append(message, Undotted(Head(lines)))
    /\ lines' = Tail(lines)
    /\ UNCHANGED <<mail, pc, step, link, replies, server, stage, delivered, refused>>

(* The mail is accepted as a whole, or refused.                             *)
TakeEnd ==
    /\ server = "data" /\ lines # <<>> /\ Head(lines) = "."
    /\ message' = <<>> /\ server' = "command" /\ stage' = "helo"
    /\ \/ delivered' = Append(delivered, message) /\ UNCHANGED refused
       \/ refused' = TRUE /\ UNCHANGED delivered
    /\ Reply(Tail(lines), 1)
    /\ UNCHANGED <<mail, pc, step, link>>

(* The connection is closed: with lines that were not read, it is reset.    *)
Close(rest) ==
    /\ server' = "closed"
    /\ lines' = <<>>
    /\ link' = IF rest = <<>> THEN "fin" ELSE "reset"
    /\ UNCHANGED <<mail, pc, step, stage, message, delivered>>

Quit ==
    /\ server = "command" /\ lines # <<>> /\ Head(lines) = "QUIT"
    /\ Close(Tail(lines))
    /\ replies' = IF pc = "returned" THEN replies ELSE replies + 1
    /\ UNCHANGED refused

GiveUp ==
    /\ server # "closed"
    /\ Close(lines)
    /\ refused' = TRUE
    /\ UNCHANGED replies

-----------------------------------------------------------------------------
ClientStep == Connect \/ SendData \/ ReceiveMailReply \/ Disconnect
ServerStep == Greet \/ AcceptCommand \/ RefuseCommand \/ TakeLine \/ TakeEnd \/ Quit

Next == ClientStep \/ ServerStep \/ GiveUp

SafeSpec == Init /\ [][Next]_vars

(* The client runs whenever it can, the server answers what it reads.       *)
Spec == SafeSpec /\ WF_vars(ClientStep) /\ WF_vars(ServerStep)

-----------------------------------------------------------------------------
(* The dialogue stays in its steps, and lines are those of the dialogue. *)
TypeOK ==
    /\ mail \in Bodies
    /\ pc \in {"connect", "write", "read", "disconnect", "returned", "killed", "stray"}
    /\ step \in 1..Steps
    /\ link \in {"none", "unconnected", "up", "fin", "reset", "dead"}
    /\ replies \in Nat
    /\ lines \in Seq(BodyLines) /\ message \in Seq(BodyLines)
    /\ server \in {"greet", "command", "data", "closed"}
    /\ stage \in {"none", "helo", "mail", "rcpt"}
    /\ delivered \in Seq(Seq(BodyLines))
    /\ refused \in BOOLEAN

(* Whatever replies were taken for the reply to which command: the server   *)
(* delivers the mail once, with its whole body but for the dots its lines   *)
(* begin with, or nothing.  It may refuse anything if no line of the body   *)
(* spells a command; if one does, the server may obey it after a refusal,   *)
(* for w3SendMail sends the body all the same (w3smtp.c:137-151), but it     *)
(* never does as long as it refuses nothing.  (A body with a line "." is    *)
(* cut there.)                                                             *)
Plain(body) == \A i \in DOMAIN body : body[i] # "."
Commandless(body) == \A i \in DOMAIN body : body[i] \notin Commands
AsRead(body) == [i \in DOMAIN body |-> Undotted(body[i])]

OnlyTheMail ==
    Plain(mail) /\ (refused => Commandless(mail)) => delivered \in {<<>>, <<AsRead(mail)>>}

(* A mail is delivered once w3SendMail returned if the server accepted it   *)
(* all: although the last reply it waits for is that to DATA, and it closes *)
(* with replies unread, the body has arrived by then.  A greeting of one    *)
(* line is assumed; with more the client is further ahead.                  *)
DeliveredIfAccepted ==
    Plain(mail) => (pc = "returned" ~> (refused \/ delivered # <<>>))

(* client/include/w3smtp.h says of the mail file that "The following lines  *)
(* contain the mail body": the server takes them for that, and none of them *)
(* for a command.                                                           *)
BodyIsBody == server = "command" /\ lines # <<>> => Head(lines) \notin {"text", ".text"}
=============================================================================
