-------------------------------- MODULE MailFile --------------------------------
(***************************************************************************)
(* A mail file sent: w3SendMailFile and __w3ReadLine of client/src/w3smtp.c *)
(* read recipient, sender, mailer, port and body from a file, one character *)
(* a step, and hand them to w3SendMail (SmtpClient).                        *)
(*                                                                         *)
(* A string is written into a block of memory that is to grow with it.  For *)
(* the body it does.  For a line the result of realloc is dropped: it may   *)
(* have grown the block where it is, or have moved it and freed the old one, *)
(* which is written on.  What the build does after a write that is beyond a *)
(* block or to one that was freed is left open: the process is "undefined". *)
(***************************************************************************)
EXTENDS SmtpClient, SequencesExt

CONSTANTS Files,        \* what mail files hold
          Block         \* 64, by which the blocks grow

(* A word that begins a command counts as one character.                    *)
Characters == Commands \cup {"c", ".", "\r", "\n"}

ASSUME FilesAssumption == Files \subseteq Seq(Characters) /\ <<>> \in Bodies
ASSUME BlockAssumption == Block \in Nat \ {0}

VARIABLES phase,        \* "open", "read", "sent", "nofile" or "undefined"
          file,         \* the file
          at,           \* characters that were read of it
          eof,          \* feof(f)
          header,       \* lines that were read
          text,         \* what was written to the present block
          size,         \* size, what the block is taken to hold
          room          \* what the block behind the pointer holds, 0 if freed

block == <<text, size, room>>
reader == <<phase, file, at, eof, header, block>>
smtp == <<pc, step, link, replies, lines, atServer, refused>>
(* The mail is not known yet.                                               *)
FileInit ==
    /\ Init /\ mail = <<>>
    /\ phase = "open" /\ file \in Files /\ at = 0 /\ eof = FALSE
    /\ header = <<>> /\ text = <<>> /\ size = 0 /\ room = 0

-----------------------------------------------------------------------------
Goto(p) == phase' = p
Undefined == Goto("undefined") /\ UNCHANGED <<mail, file, at, eof, header, block>>
Allocate(n) == text' = <<>> /\ size' = Block /\ room' = n

Open ==
    /\ phase = "open"
    /\ \/ Goto("read") /\ Allocate(Block)
       \/ Goto("nofile") /\ UNCHANGED block
    /\ UNCHANGED <<mail, file, at, eof, header>>

(* Mutant: the end of the file is counted as a character. *)
GetcCounting ==
    LET c == IF at < Len(file) THEN file[at + 1] ELSE "EOF" IN
    /\ text' = Append(text, c)
    /\ eof' = (eof \/ c = "EOF")
    /\ at' = at + 1

(* fgetc, and its result written to the block: at the end of the file EOF,  *)
(* which feof then tells, again and again.                                 *)
Getc ==
    LET c == IF at < Len(file) THEN file[at + 1] ELSE "EOF" IN
    /\ text' = Append(text, c)
    /\ eof' = (eof \/ c = "EOF")
    /\ at' = IF c = "EOF" THEN at ELSE at + 1

ReadingHeader == phase = "read" /\ Len(header) < 4
LineEnded == text # <<>> /\ (Last(text) = "\n" \/ eof)

(* __w3ReadLine, one character.                                             *)
ReadLine ==
    /\ ReadingHeader /\ ~LineEnded
    /\ \/ /\ Len(text) >= room
          /\ Undefined
       \/ /\ Len(text) < room
          /\ Getc
          /\ IF Len(text') < size
             THEN UNCHANGED <<size, room>>
             ELSE size' = size + Block /\ room' \in {0, size + Block}
          /\ UNCHANGED <<mail, phase, file, header>>

(* The last character, a line feed or EOF, is replaced by the final zero,   *)
(* and a block allocated for the next string.                              *)
EndLine ==
    /\ ReadingHeader /\ LineEnded
    /\ \/ /\ Len(text) > room
          /\ Undefined
       \/ /\ Len(text) <= room
          /\ header' = Append(header, Front(text))
          /\ Allocate(IF Len(header) = 3 THEN Block + 1 ELSE Block)
          /\ UNCHANGED <<mail, phase, file, at, eof>>

ReadingBody == phase = "read" /\ Len(header) = 4

(* Mutant: the block grows one character later. *)
ReadBodyLate ==
    /\ ReadingBody /\ ~eof
    /\ \/ /\ Len(text) >= room
          /\ Undefined
       \/ /\ Len(text) < room
          /\ Getc
          /\ IF Len(text') <= size
             THEN UNCHANGED <<size, room>>
             ELSE size' = size + Block /\ room' = size + Block
          /\ UNCHANGED <<mail, phase, file, header>>

ReadBody ==
    /\ ReadingBody /\ ~eof
    /\ \/ /\ Len(text) >= room
          /\ Undefined
       \/ /\ Len(text) < room
          /\ Getc
          /\ IF Len(text') < size
             THEN UNCHANGED <<size, room>>
             ELSE size' = size + Block /\ room' = size + Block
          /\ UNCHANGED <<mail, phase, file, header>>

(* The lines of a text, the last one without a line feed, and what they are *)
(* to the mail server.                                                     *)
AddCharacter(ls, c) ==
    IF c = "\n" THEN Append(ls, <<>>) ELSE [ls EXCEPT ![Len(ls)] = Append(@, c)]
LinesOf(s) ==
    LET upTo[n \in 0..Len(s)] ==
            IF n = 0 THEN << <<>> >> ELSE AddCharacter(upTo[n - 1], s[n])
    IN  upTo[Len(s)]
(* The carriage return that is part of the end of a line; the last line of  *)
(* the body ends with the one w3SendMail adds.                             *)
Ended(ls, k) ==
    IF k < Len(ls) /\ ls[k] # <<>> /\ Last(ls[k]) = "\r" THEN Front(ls[k]) ELSE ls[k]
SeenLine(l) ==
    IF l = <<".">> THEN "."
    ELSE IF l = <<>> THEN "text"
    ELSE IF l[1] = "." THEN ".text"
    ELSE IF l[1] \in Commands THEN l[1] ELSE "text"
Seen(ls) == [k \in DOMAIN ls |-> SeenLine(Ended(ls, k))]

(* What a mail file has as the body is a body.                              *)
Body(s) == SubSeq(Seen(LinesOf(s)), 5, Len(LinesOf(s)))
ASSUME FileBodiesAssumption ==
    \A s \in Files : Len(LinesOf(s)) > 4 => Body(s) \in Bodies

(* Mutant: the final zero is put behind the last character. *)
SendMailWhole ==
    /\ ReadingBody /\ eof
    /\ \/ /\ text = <<>>
          /\ Undefined
       \/ /\ text # <<>>
          /\ mail' = Seen(LinesOf(text)) /\ Goto("sent")
          /\ UNCHANGED <<file, at, eof, header, block>>

(* EOF is replaced by the final zero and w3SendMail called with the body.   *)
(* If the file ended before the body nothing was read: the zero is written  *)
(* before the block.                                                       *)
SendMail ==
    /\ ReadingBody /\ eof
    /\ \/ /\ text = <<>>
          /\ Undefined
       \/ /\ text # <<>>
          /\ mail' = Seen(LinesOf(Front(text))) /\ Goto("sent")
          /\ UNCHANGED <<file, at, eof, header, block>>

-----------------------------------------------------------------------------
Read ==
    /\ Open \/ ReadLine \/ EndLine \/ ReadBody \/ SendMail
    /\ UNCHANGED smtp

Dialogues(A) == phase = "sent" /\ A /\ UNCHANGED reader

FileNext == Read \/ Dialogues(Next)

FileSafeSpec == FileInit /\ [][FileNext]_<<vars, reader>>

(* As in SmtpClient; reading a file waits for nothing.                      *)
FileSpec ==
    /\ FileSafeSpec
    /\ WF_<<vars, reader>>(Read)
    /\ WF_<<vars, reader>>(Dialogues(ClientStep))
    /\ WF_<<vars, reader>>(Dialogues(ServerStep))

-----------------------------------------------------------------------------
(* Reading stays in the file, and a block is never taken for smaller than   *)
(* what was written to it.                                                 *)
FileTypeOK ==
    /\ phase \in {"open", "read", "sent", "nofile", "undefined"}
    /\ file \in Files /\ at \in 0..Len(file) /\ eof \in BOOLEAN
    /\ header \in Seq(Seq(Characters)) /\ Len(header) <= 4
    /\ text \in Seq(Characters \cup {"EOF"})
    /\ size \in Nat /\ room \in Nat /\ Len(text) <= size

(* The mail that is sent is the one in the file: its first four lines, and  *)
(* all behind them as the body, to the character, wherever blocks were full *)
(* (w3smtp.h).                                                              *)
MailAsInFile ==
    phase = "sent" =>
        /\ Len(LinesOf(file)) > 4
        /\ header = SubSeq(LinesOf(file), 1, 4)
        /\ LinesOf(Front(text)) = SubSeq(LinesOf(file), 5, Len(LinesOf(file)))
        /\ mail = Body(file)

(* A file with four lines shorter than a block and a body of any length is  *)
(* read without a write outside of the blocks.                             *)
WellFormed(s) ==
    Len(LinesOf(s)) > 4 /\ \A k \in 1..4 : Len(LinesOf(s)[k]) < Block - 1
DefinedIfWellFormed == phase = "undefined" => ~WellFormed(file)

(* w3SendMailFile always comes to an end, whenever the server closes and    *)
(* however its replies arrive, unless it reads from a descriptor that is no *)
(* connection.                                                              *)
Ends == <>(pc \in {"returned", "killed", "stray"} \/ phase \in {"nofile", "undefined"})
=============================================================================
