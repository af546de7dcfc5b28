---------------------------- MODULE SmtpClientProofs ----------------------------
(***************************************************************************)
(* Proofs about SmtpClient, for any bodies and any greeting.  Everything    *)
(* that is ever written is one sequence of lines, and what waits at the     *)
(* server is the end of what was written of it so far.                      *)
(***************************************************************************)
EXTENDS SmtpClient, SequenceTheorems, TLAPS

(* The i-th line that is written, and how many are by the n-th part.        *)
LineWritten(i) ==
    IF i <= 4 THEN << "HELO", "MAIL", "RCPT", "DATA" >>[i]
    ELSE IF i <= Len(mail) + 4 THEN mail[i - 4]
    ELSE IF i = Len(mail) + 5 THEN "." ELSE "QUIT"
UpTo(n) == IF n <= 4 THEN n ELSE Len(mail) + n

(* How many lines were written, and how many of them the server has taken.  *)
Written ==
    IF pc = "connect" THEN 0
    ELSE IF pc = "write" THEN UpTo(step - 1)
    ELSE IF pc = "read" THEN UpTo(step)
    ELSE Len(mail) + 6
Taken == Written - Len(lines)

(* The lines that wait are the last ones written.                           *)
Waiting ==
    /\ Len(lines) <= Written
    /\ \A i \in 1..Len(lines) : lines[i] = LineWritten(Taken + i)

(* The message is the part of the body that was taken, and it is delivered  *)
(* behind the body only.                                                   *)
Message ==
    /\ server = "data" => /\ Taken \in 4..(Len(mail) + 4) /\ delivered = <<>>
                          /\ Len(message) = Taken - 4
                          /\ \A i \in 1..Len(message) : message[i] = Undotted(mail[i])
    /\ server # "data" => message = <<>>
    /\ delivered # <<>> => Taken >= Len(mail) + 5

(* A server that refused nothing obeyed the commands of the dialogue in      *)
(* their order, and no others.                                             *)
Stages ==
    ~refused =>
        /\ server = "greet" => Taken = 0 /\ stage = "none"
        /\ server = "command" /\ delivered = <<>> =>
               Taken \in 0..3 /\ stage = << "none", "helo", "mail", "rcpt" >>[Taken + 1]

(* Once the client returned, the lines that are left may be lost.           *)
InOrder ==
    server # "closed" =>
        /\ link = "up" /\ pc \notin {"connect", "killed"}
        /\ \/ lines = <<>> /\ pc = "returned"
           \/ Waiting /\ Message /\ Stages
Connecting ==
    pc = "connect" => lines = <<>> /\ message = <<>> /\ delivered = <<>> /\ step = 1 /\ stage = "none"

(* A reply is awaited behind each part but the last.                        *)
Parts == pc = "read" => step < Steps

(* The mails that are delivered once or not at all.                         *)
Single == Plain(mail) /\ (refused => Commandless(mail))

IInv == TypeOK /\ Parts /\ (Single => InOrder /\ Connecting /\ OnlyTheMail)

-----------------------------------------------------------------------------
(* The part that is written next is the next lines of all that is written.  *)
LEMMA NextPart ==
    ASSUME TypeOK, NEW text, text = Dialogue(mail)[step]
    PROVE  /\ text \in Seq(BodyLines) /\ Len(text) = UpTo(step) - UpTo(step - 1)
           /\ \A i \in 1..Len(text) : text[i] = LineWritten(UpTo(step - 1) + i)
<1>1. mail \in Seq(BodyLines) /\ Len(mail) \in Nat
  BY BodiesAssumption DEF TypeOK
<1>2. step \in 1..6
  BY DEF TypeOK, Steps
<1>3. CASE step \in {1, 2, 3, 4}
  <2>1. text = << << "HELO", "MAIL", "RCPT", "DATA" >>[step] >>
    BY <1>3 DEF Dialogue
  <2>2. text[1] \in BodyLines /\ text[1] = LineWritten(step)
    BY <1>3, <2>1 DEF LineWritten, BodyLines, Commands
  <2> QED
    BY <1>3, <2>1, <2>2 DEF UpTo
<1>4. CASE step = 5
  <2>1. text = mail \o <<".">>
    BY <1>1, <1>4 DEF Dialogue
  <2>2. /\ text \in Seq(BodyLines) /\ Len(text) = Len(mail) + 1
        /\ text[Len(mail) + 1] = "." /\ \A i \in 1..Len(mail) : text[i] = mail[i]
    BY <1>1, <2>1 DEF BodyLines
  <2> QED
    BY <1>1, <1>4, <2>2 DEF UpTo, LineWritten
<1>5. CASE step = 6
  BY <1>1, <1>5 DEF Dialogue, UpTo, LineWritten, BodyLines, Commands
<1> QED
  BY <1>2, <1>3, <1>4, <1>5

(* A reply leaves the rest of the lines, or none if the client is gone.     *)
LEMMA Replied ==
    ASSUME TypeOK, NEW rest \in Seq(BodyLines), NEW n \in Nat, Reply(rest, n)
    PROVE  /\ lines' \in Seq(BodyLines) /\ replies' \in Nat
           /\ lines' = rest \/ (lines' = <<>> /\ pc \in {"returned", "killed"})
<1>1. <<>> \in Seq(BodyLines) /\ replies \in Nat
  BY DEF TypeOK
<1>2. CASE pc \in {"returned", "killed"}
  BY <1>1, <1>2 DEF Reply
<1>3. CASE pc \notin {"returned", "killed"}
  BY <1>1, <1>3 DEF Reply
<1> QED
  BY <1>2, <1>3

(* Every step keeps the types.                                              *)
LEMMA TypeStep == TypeOK /\ Parts /\ [Next]_vars => TypeOK' /\ Parts'
<1> SUFFICES ASSUME TypeOK, Parts, [Next]_vars PROVE TypeOK' /\ Parts'
  OBVIOUS
<1>0. <<>> \in Seq(BodyLines)
  OBVIOUS
<1>a. ASSUME lines # <<>> PROVE Tail(lines) \in Seq(BodyLines)
  BY <1>a DEF TypeOK
<1>1. CASE Connect
  BY <1>1 DEF Connect, TypeOK, Parts
<1>2. CASE SendData
  <2>1. Dialogue(mail)[step] \in Seq(BodyLines)
    BY NextPart
  <2>2. lines \o Dialogue(mail)[step] \in Seq(BodyLines)
    BY <2>1 DEF TypeOK
  <2>3. lines' \in Seq(BodyLines) /\ link' \in {"none", "unconnected", "up", "fin", "reset", "dead"}
    BY <1>2, <2>2 DEF SendData, Write, Killed, TypeOK
  <2>4. pc' \in {"read", "disconnect", "killed"} /\ step' = step /\ (pc' = "read" => step # Steps)
    BY <1>2 DEF SendData, Write, Killed
  <2> QED
    BY <1>2, <2>3, <2>4 DEF SendData, atServer, TypeOK, Parts, Steps
<1>3. CASE ReceiveMailReply
  BY <1>3 DEF ReceiveMailReply, atServer, TypeOK, Parts, Steps
<1>4. CASE Disconnect
  BY <1>0, <1>4 DEF Disconnect, atServer, TypeOK, Parts
<1>5. CASE Greet
  <2>1. lines' \in Seq(BodyLines) /\ replies' \in Nat
    BY <1>5, Replied, GreetingAssumption DEF Greet, TypeOK
  <2> QED
    BY <1>5, <2>1 DEF Greet, TypeOK, Parts
<1>6. CASE AcceptCommand
  <2>1. lines' \in Seq(BodyLines) /\ replies' \in Nat
    BY <1>a, <1>6, Replied DEF AcceptCommand
  <2> QED
    BY <1>6, <2>1 DEF AcceptCommand, StagesFor, StageAfter, TypeOK, Parts
<1>7. CASE RefuseCommand
  <2>1. lines' \in Seq(BodyLines) /\ replies' \in Nat
    BY <1>a, <1>7, Replied DEF RefuseCommand
  <2> QED
    BY <1>7, <2>1 DEF RefuseCommand, atServer, TypeOK, Parts
<1>8. CASE TakeLine
  <2>1. Tail(lines) \in Seq(BodyLines) /\ Head(lines) \in BodyLines /\ message \in Seq(BodyLines)
    BY <1>8 DEF TakeLine, TypeOK
  <2>2. Undotted(Head(lines)) \in BodyLines
    BY <2>1 DEF Undotted, BodyLines
  <2>3. Append(message, Undotted(Head(lines))) \in Seq(BodyLines)
    BY <2>1, <2>2
  <2> QED
    BY <1>8, <2>1, <2>3 DEF TakeLine, TypeOK, Parts
<1>12. CASE TakeEnd
  <2>1. lines' \in Seq(BodyLines) /\ replies' \in Nat
    BY <1>a, <1>12, Replied DEF TakeEnd
  <2>2. delivered' \in Seq(Seq(BodyLines)) /\ refused' \in BOOLEAN
    <3>1. delivered \in Seq(Seq(BodyLines)) /\ message \in Seq(BodyLines) /\ refused \in BOOLEAN
      BY DEF TypeOK
    <3>2. \/ delivered' = Append(delivered, message) /\ refused' = refused
          \/ delivered' = delivered /\ refused' = TRUE
      BY <1>12 DEF TakeEnd
    <3>3. Append(delivered, message) \in Seq(Seq(BodyLines))
      BY <3>1
    <3> QED
      BY <3>1, <3>2, <3>3, Zenon
  <2> QED
    BY <1>0, <1>12, <2>1, <2>2 DEF TakeEnd, TypeOK, Parts
<1>9. CASE Quit
  BY <1>9 DEF Quit, Close, TypeOK, Parts
<1>10. CASE GiveUp
  BY <1>10 DEF GiveUp, Close, TypeOK, Parts
<1>11. CASE UNCHANGED vars
  BY <1>11 DEF vars, TypeOK, Parts
<1> QED
  BY <1>1, <1>2, <1>3, <1>4, <1>5, <1>6, <1>7, <1>8, <1>9, <1>10, <1>11, <1>12
     DEF Next, ClientStep, ServerStep

-----------------------------------------------------------------------------
(* What the server takes is the next line that was written.                 *)
LEMMA Next1 ==
    ASSUME TypeOK, Waiting, lines # <<>>
    PROVE  /\ Head(lines) = LineWritten(Taken + 1)
           /\ Len(Tail(lines)) = Len(lines) - 1
           /\ \A i \in 1..Len(Tail(lines)) : Tail(lines)[i] = lines[i + 1]
<1>1. Len(lines) \in Nat \ {0} /\ Head(lines) = lines[1]
  BY DEF TypeOK
<1> QED
  BY <1>1 DEF Waiting, TypeOK

(* How much was written is a number, and at most everything.                *)
LEMMA WrittenIsNumber ==
    ASSUME TypeOK PROVE Written \in 0..(Len(mail) + 6) /\ Len(mail) \in Nat /\ Len(lines) \in Nat
<1>1. Len(mail) \in Nat /\ Len(lines) \in Nat /\ step \in 1..6
  BY BodiesAssumption DEF TypeOK, Steps
<1> QED
  BY <1>1 DEF Written, UpTo

(* The text behind the lines that wait is the next part.                    *)
LEMMA SendStep ==
    ASSUME TypeOK, Waiting, pc = "write", link = "up", SendData
    PROVE  Written' = Written + Len(Dialogue(mail)[step]) /\ Taken' = Taken /\ Waiting'
<1> DEFINE d == Dialogue(mail)[step]
<1>1. /\ d \in Seq(BodyLines) /\ Len(d) = UpTo(step) - UpTo(step - 1)
      /\ \A i \in 1..Len(d) : d[i] = LineWritten(UpTo(step - 1) + i)
  BY NextPart
<1> HIDE DEF d
<1>2. lines' = lines \o d /\ mail' = mail /\ step' = step
      /\ pc' = (IF step = Steps THEN "disconnect" ELSE "read")
  BY DEF SendData, Write, Killed, d
<1>3. Written = UpTo(step - 1) /\ Written \in Nat /\ Len(lines) \in Nat /\ Len(mail) \in Nat /\ step \in 1..6
  BY WrittenIsNumber DEF Written, TypeOK, Steps
<1>4. Written' = UpTo(step)
  BY <1>2, <1>3 DEF Written, UpTo, Steps
<1>5. \A i : LineWritten(i)' = LineWritten(i)
  BY <1>2 DEF LineWritten
<1>6. /\ Len(lines') = Len(lines) + Len(d)
      /\ \A i \in 1..Len(lines) : lines'[i] = lines[i]
      /\ \A i \in 1..Len(d) : lines'[Len(lines) + i] = d[i]
  <2>1. lines \in Seq(BodyLines) /\ d \in Seq(BodyLines)
    BY <1>1 DEF TypeOK
  <2> QED
    BY <1>2, <2>1
<1>7. UpTo(step) \in Nat /\ UpTo(step - 1) \in Nat /\ Len(d) \in Nat /\ Written' = Written + Len(d)
  BY <1>1, <1>3, <1>4 DEF UpTo
<1>8. Taken' = Taken
  BY <1>3, <1>6, <1>7 DEF Taken
<1>9. ASSUME NEW i \in 1..Len(lines') PROVE lines'[i] = LineWritten(Taken + i)
  <2>1. CASE i \in 1..Len(lines)
    BY <1>6, <2>1 DEF Waiting
  <2>2. CASE i \notin 1..Len(lines)
    <3>1. i - Len(lines) \in 1..Len(d) /\ i = Len(lines) + (i - Len(lines))
      BY <1>3, <1>6, <1>7, <2>2
    <3>2. lines'[i] = LineWritten(UpTo(step - 1) + (i - Len(lines)))
      BY <1>1, <1>6, <3>1
    <3>3. UpTo(step - 1) + (i - Len(lines)) = Taken + i
      BY <1>3, <1>7 DEF Taken
    <3> QED
      BY <3>2, <3>3
  <2> QED
    BY <2>1, <2>2
<1> QED
  BY <1>3, <1>5, <1>6, <1>7, <1>8, <1>9 DEF Waiting, d

(* The client's steps keep the lines in order.                              *)
LEMMA ClientOrder ==
    ASSUME TypeOK, Parts, InOrder, Connecting, ClientStep PROVE InOrder' /\ Connecting'
<1> USE DEF atServer
<1>1. CASE Connect
  <2>1. lines = <<>> /\ message = <<>> /\ delivered = <<>> /\ step = 1 /\ pc' = "write"
        /\ stage = "none" /\ UNCHANGED <<lines, message, delivered, step, mail, stage>>
    BY <1>1 DEF Connect, Connecting
  <2>2. server' # "closed" => link' = "up" /\ server' = "greet"
    BY <1>1, <2>1 DEF Connect, InOrder
  <2>3. Written' = 0 /\ Len(lines') = 0
    BY <2>1 DEF Written, UpTo
  <2>4. Taken' = 0
    BY <2>3 DEF Taken
  <2>5. server' # "closed" => Stages'
    BY <2>1, <2>2, <2>4 DEF Stages
  <2> QED
    BY <2>1, <2>2, <2>3, <2>5 DEF InOrder, Connecting, Waiting, Message, Taken
<1>2. CASE SendData
  <2>1. CASE server = "closed"
    BY <1>2, <2>1 DEF SendData, Write, Killed, InOrder, Connecting
  <2>2. CASE server # "closed"
    <3>1. link = "up" /\ Waiting /\ Message /\ Stages /\ pc = "write"
      BY <1>2, <2>2 DEF SendData, InOrder
    <3>2. Waiting' /\ Taken' = Taken
      BY <1>2, <3>1, SendStep
    <3>3. Message' /\ Stages'
      BY <1>2, <3>1, <3>2 DEF SendData, Message, Stages
    <3> QED
      BY <1>2, <3>1, <3>2, <3>3 DEF SendData, Write, Killed, InOrder, Connecting
  <2> QED
    BY <2>1, <2>2
<1>3. CASE ReceiveMailReply
  <2>1. CASE server = "closed"
    BY <1>3, <2>1 DEF ReceiveMailReply, InOrder, Connecting
  <2>2. CASE server # "closed"
    <3>1. link = "up" /\ Waiting /\ Message /\ Stages /\ pc = "read" /\ step < Steps
      BY <1>3, <2>2 DEF ReceiveMailReply, InOrder, Parts
    <3>2. pc' = "write" /\ step' = step + 1 /\ link' = "up" /\ UNCHANGED <<mail, lines, atServer, refused>>
      BY <1>3, <3>1 DEF ReceiveMailReply
    <3>3. Written' = Written
      BY <3>1, <3>2 DEF Written, UpTo, TypeOK
    <3>4. \A i : LineWritten(i)' = LineWritten(i)
      BY <3>2 DEF LineWritten
    <3> QED
      BY <3>1, <3>2, <3>3, <3>4 DEF InOrder, Connecting, Waiting, Message, Stages, Taken
  <2> QED
    BY <2>1, <2>2
<1>4. CASE Disconnect
  <2>1. CASE server = "closed"
    BY <1>4, <2>1 DEF Disconnect, InOrder, Connecting
  <2>2. CASE server # "closed"
    <3>1. link = "up" /\ Waiting /\ Message /\ Stages /\ pc = "disconnect"
      BY <1>4, <2>2 DEF Disconnect, InOrder
    <3>2. pc' = "returned" /\ link' = "up" /\ UNCHANGED <<mail, step, atServer, refused>>
          /\ (lines' = lines \/ lines' = <<>>)
      BY <1>4, <3>1 DEF Disconnect
    <3>3. Written' = Written /\ \A i : LineWritten(i)' = LineWritten(i)
      BY <3>1, <3>2 DEF Written, LineWritten
    <3> QED
      BY <3>1, <3>2, <3>3 DEF InOrder, Connecting, Waiting, Message, Stages, Taken
  <2> QED
    BY <2>1, <2>2
<1> QED
  BY <1>1, <1>2, <1>3, <1>4 DEF ClientStep

(* Taking a line leaves the other lines in order.                           *)
LEMMA TakeStep ==
    ASSUME TypeOK, Waiting, lines # <<>>, lines' = Tail(lines), UNCHANGED <<mail, pc, step>>
    PROVE  Waiting' /\ Taken' = Taken + 1
<1>1. Written' = Written /\ \A i : LineWritten(i)' = LineWritten(i)
  BY DEF Written, UpTo, LineWritten
<1>2. Written \in Nat /\ Len(lines) \in Nat \ {0} /\ Len(lines') = Len(lines) - 1
      /\ \A i \in 1..Len(lines') : lines'[i] = lines[i + 1]
  BY Next1, WrittenIsNumber DEF TypeOK
<1>3. Taken' = Taken + 1 /\ Taken \in Nat
  BY <1>1, <1>2 DEF Taken, Waiting
<1> QED
  BY <1>1, <1>2, <1>3 DEF Waiting

(* The server's steps keep the lines in order, and deliver the mail once.   *)
LEMMA ServerOrder ==
    ASSUME TypeOK, Single, InOrder, Connecting, OnlyTheMail, server # "closed",
           Greet \/ AcceptCommand \/ RefuseCommand \/ TakeLine \/ TakeEnd
    PROVE  InOrder' /\ OnlyTheMail'
<1>1. UNCHANGED <<mail, pc, step, link>> /\ link = "up" /\ pc # "connect"
  BY DEF Greet, AcceptCommand, RefuseCommand, TakeLine, TakeEnd, InOrder
<1>2. /\ Written' = Written /\ (\A i : LineWritten(i)' = LineWritten(i))
      /\ mail \in Seq(BodyLines) /\ Len(mail) \in Nat /\ Written \in 0..(Len(mail) + 6)
      /\ Len(lines) \in Nat
  BY <1>1, WrittenIsNumber, BodiesAssumption DEF Written, UpTo, LineWritten, TypeOK
<1>b. delivered \in {<<>>, <<AsRead(mail)>>}
  BY DEF OnlyTheMail, Single
<1>3. ASSUME Waiting, lines # <<>>
      PROVE  /\ Head(lines) = LineWritten(Taken + 1)
             /\ Taken \in 0..(Len(mail) + 5)
             /\ Tail(lines) \in Seq(BodyLines)
  <2>1. Len(lines) \in 1..Written
    BY <1>2, <1>3 DEF Waiting, TypeOK
  <2> QED
    BY <1>2, <1>3, <2>1, Next1 DEF Taken, TypeOK
<1>4. CASE lines = <<>> /\ pc = "returned"
  <2>1. CASE Greet
    <3>1. lines \in Seq(BodyLines) /\ UNCHANGED delivered /\ \E n \in Nat : Reply(lines, n)
      BY <2>1, GreetingAssumption DEF Greet, TypeOK
    <3>2. lines' = <<>>
      BY <1>4, <3>1, Replied
    <3> QED
      BY <1>1, <1>4, <1>b, <3>1, <3>2 DEF InOrder, OnlyTheMail
  <2> QED
    BY <1>4, <2>1 DEF AcceptCommand, RefuseCommand, TakeLine, TakeEnd
<1>5. CASE Waiting /\ Message /\ Stages
  <2>1. ASSUME UNCHANGED delivered, lines' = <<>>, pc = "returned"
        PROVE  InOrder' /\ OnlyTheMail'
    BY <1>1, <1>b, <2>1 DEF InOrder, OnlyTheMail
  <2>2. CASE Greet
    <3>1. lines' = lines \/ (lines' = <<>> /\ pc = "returned")
      BY <1>1, <2>2, Replied, GreetingAssumption DEF Greet, InOrder, TypeOK
    <3>2. ASSUME lines' = lines PROVE Waiting' /\ Message' /\ Stages'
      <4>1. Waiting' /\ Taken' = Taken
        BY <1>1, <1>2, <1>5, <2>2, <3>2 DEF Waiting, Taken
      <4>2. Message'
        BY <1>1, <1>5, <2>2, <4>1 DEF Greet, Message
      <4>3. Stages'
        BY <1>5, <2>2, <4>1 DEF Greet, Stages
      <4> QED
        BY <4>1, <4>2, <4>3
    <3> QED
      BY <1>1, <2>1, <2>2, <1>b, <3>1, <3>2 DEF Greet, InOrder, OnlyTheMail
  <2>3. CASE RefuseCommand
    <3>1. lines' = Tail(lines) \/ (lines' = <<>> /\ pc = "returned")
      BY <1>1, <1>3, <1>5, <2>3, Replied DEF RefuseCommand, InOrder
    <3>2. ASSUME lines' = Tail(lines) PROVE Waiting' /\ Message' /\ Stages'
      <4>1. Waiting' /\ Taken' = Taken + 1
        BY <1>1, <1>5, <2>3, <3>2, TakeStep DEF RefuseCommand
      <4> QED
        BY <1>1, <1>3, <1>5, <2>3, <4>1 DEF RefuseCommand, atServer, Message, Stages
    <3> QED
      BY <1>1, <2>1, <2>3, <1>b, <3>1, <3>2 DEF RefuseCommand, atServer, InOrder, OnlyTheMail
  <2>4. CASE AcceptCommand
    <3>1. lines' = Tail(lines) \/ (lines' = <<>> /\ pc = "returned")
      BY <1>1, <1>3, <1>5, <2>4, Replied DEF AcceptCommand, InOrder
    <3>0. lines # <<>>
      BY <2>4 DEF AcceptCommand
    <3>2. Taken + 1 <= 4
      <4>1. LineWritten(Taken + 1) \in {"HELO", "MAIL", "RCPT", "DATA"}
        BY <1>3, <1>5, <2>4 DEF AcceptCommand, StagesFor
      <4>2. LineWritten(Taken + 1) \in Commands \ {"QUIT"} /\ lines # <<>> /\ server = "command"
        BY <2>4, <4>1 DEF AcceptCommand, Commands
      <4>3. CASE refused
        BY <1>2, <1>3, <1>5, <3>0, <4>2, <4>3 DEF LineWritten, Single, Commandless, Commands
      <4>4. CASE ~refused /\ delivered = <<>>
        BY <1>5, <4>2, <4>4 DEF Stages
      <4>5. CASE delivered # <<>>
        BY <1>2, <1>3, <1>5, <4>1, <4>2, <4>5 DEF Message, LineWritten
      <4> QED
        BY <4>3, <4>4, <4>5
    <3>3. delivered = <<>> /\ message = <<>> /\ UNCHANGED <<delivered, message>>
      BY <1>2, <1>3, <1>5, <2>4, <3>2 DEF AcceptCommand, Message
    <3>4. server' = "data" => Taken = 3
      <4>1. server' = "data" => LineWritten(Taken + 1) = "DATA"
        BY <1>3, <1>5, <2>4 DEF AcceptCommand
      <4> QED
        BY <1>3, <1>5, <2>4, <3>2, <4>1 DEF AcceptCommand, LineWritten
    <3>5. ASSUME lines' = Tail(lines) PROVE Waiting' /\ Message' /\ Stages'
      <4>1. Waiting' /\ Taken' = Taken + 1
        BY <1>1, <1>5, <2>4, <3>5, TakeStep DEF AcceptCommand
      <4>2. Message'
        BY <1>1, <1>2, <1>3, <1>5, <2>4, <3>3, <3>4, <4>1 DEF AcceptCommand, Message
      <4>3. Stages'
        <5>1. CASE ~refused
          <6>1. Taken \in 0..3 /\ Head(lines) = LineWritten(Taken + 1)
            BY <1>3, <1>5, <2>4, <3>0, <3>3, <5>1 DEF AcceptCommand, Stages
          <6>2. Head(lines) = << "HELO", "MAIL", "RCPT", "DATA" >>[Taken + 1]
            BY <6>1 DEF LineWritten
          <6> QED
            BY <2>4, <4>1, <6>1, <6>2 DEF AcceptCommand, Stages, StageAfter
        <5>2. CASE refused
          BY <2>4, <5>2 DEF AcceptCommand, Stages
        <5> QED
          BY <5>1, <5>2
      <4> QED
        BY <4>1, <4>2, <4>3
    <3> QED
      BY <1>1, <2>1, <2>4, <3>1, <1>b, <3>3, <3>5 DEF AcceptCommand, InOrder, OnlyTheMail
  <2>a. ASSUME server = "data", lines # <<>>
        PROVE  /\ delivered = <<>> /\ Taken \in 4..(Len(mail) + 4) /\ Len(message) = Taken - 4
               /\ \A i \in 1..Len(message) : message[i] = Undotted(mail[i])
    BY <1>5, <2>a DEF Message
  <2>5. CASE TakeLine
    <3>1. /\ Taken \in 4..(Len(mail) + 3) /\ Head(lines) = mail[Taken - 3]
      BY <1>2, <1>3, <1>5, <2>5, <2>a DEF TakeLine, LineWritten
    <3>2. message' = Append(message, Undotted(Head(lines))) /\ lines' = Tail(lines) /\ lines # <<>>
          /\ server = "data" /\ UNCHANGED <<server, delivered>>
      BY <2>5 DEF TakeLine
    <3>3. Waiting' /\ Taken' = Taken + 1
      BY <1>1, <1>5, <3>2, TakeStep
    <3>4. /\ Len(message') = Len(message) + 1 /\ Len(message) \in Nat
          /\ \A i \in 1..Len(message) : message'[i] = message[i]
          /\ message'[Len(message) + 1] = Undotted(Head(lines))
      BY <3>2 DEF TypeOK
    <3>5. Undotted(Head(lines)) = Undotted(mail[Len(message) + 1])
      BY <2>a, <3>1, <3>2
    <3> HIDE DEF Undotted
    <3>6. \A i \in 1..Len(message') : message'[i] = Undotted(mail'[i])
      BY <1>1, <2>a, <3>2, <3>4, <3>5
    <3>7. Message'
      BY <1>1, <1>2, <2>a, <3>1, <3>2, <3>3, <3>4, <3>6 DEF Message
    <3>8. Stages'
      BY <3>2 DEF Stages
    <3> QED
      BY <1>1, <1>b, <3>2, <3>3, <3>7, <3>8 DEF InOrder, OnlyTheMail
  <2>6. CASE TakeEnd
    <3>1. /\ server = "data" /\ lines # <<>> /\ Head(lines) = "." /\ message' = <<>> /\ server' = "command"
          /\ Reply(Tail(lines), 1)
          /\ \/ delivered' = Append(delivered, message) /\ UNCHANGED refused
             \/ refused' = TRUE /\ UNCHANGED delivered
      BY <2>6 DEF TakeEnd
    <3>2. Taken = Len(mail) + 4
      BY <1>2, <1>3, <1>5, <2>a, <3>1 DEF LineWritten, Single, Plain
    <3>3. message = AsRead(mail)
      <4>1. message \in Seq(BodyLines) /\ Len(message) = Len(mail)
        BY <1>2, <2>a, <3>1, <3>2 DEF TypeOK
      <4>2. message = [i \in 1..Len(mail) |-> message[i]] /\ DOMAIN mail = 1..Len(mail)
        BY <1>2, <4>1
      <4> QED
        BY <2>a, <3>1, <4>1, <4>2 DEF AsRead
    <3>4. delivered' \in {<<>>, <<AsRead(mail)>>} /\ (refused' \/ delivered' # <<>>)
      <4>1. Append(<<>>, message) = <<message>>
        OBVIOUS
      <4> QED
        BY <2>a, <3>1, <3>3, <4>1
    <3>5. lines' = Tail(lines) \/ (lines' = <<>> /\ pc = "returned")
      BY <1>1, <1>3, <1>5, <3>1, Replied DEF InOrder
    <3>6. ASSUME lines' = Tail(lines) PROVE Waiting' /\ Message' /\ Stages'
      <4>1. Waiting' /\ Taken' = Taken + 1
        BY <1>1, <1>5, <3>1, <3>6, TakeStep
      <4> QED
        BY <1>1, <1>2, <3>1, <3>2, <3>4, <4>1 DEF Message, Stages
    <3> QED
      BY <1>1, <3>1, <3>4, <3>5, <3>6 DEF InOrder, OnlyTheMail
  <2> QED
    BY <2>2, <2>3, <2>4, <2>5, <2>6
<1> QED
  BY <1>4, <1>5 DEF InOrder

(* Every step keeps the lines in order.                                     *)
LEMMA OrderStep == IInv /\ [Next]_vars => IInv'
<1> SUFFICES ASSUME IInv, [Next]_vars, Single'
             PROVE  InOrder' /\ Connecting' /\ OnlyTheMail'
  BY TypeStep DEF IInv
<1>1. mail' = mail
  BY DEF Next, vars, ClientStep, ServerStep, Connect, SendData, ReceiveMailReply, Disconnect,
         Greet, AcceptCommand, RefuseCommand, TakeLine, TakeEnd, Quit, GiveUp, Close
<1>a. refused => refused'
  BY DEF Next, vars, ClientStep, ServerStep, Connect, SendData, ReceiveMailReply, Disconnect,
         Greet, AcceptCommand, RefuseCommand, TakeLine, TakeEnd, Quit, GiveUp
<1>2. TypeOK /\ Parts /\ Single /\ InOrder /\ Connecting /\ OnlyTheMail
  BY <1>1, <1>a DEF IInv, Single, Plain, Commandless
<1>3. CASE ClientStep
  <2>1. UNCHANGED delivered
    BY <1>3 DEF ClientStep, Connect, SendData, ReceiveMailReply, Disconnect, atServer
  <2> QED
    BY <1>1, <1>2, <1>3, <2>1, ClientOrder DEF OnlyTheMail, Single
<1>4. CASE Quit \/ GiveUp
  <2>1. server' = "closed" /\ UNCHANGED <<pc, step, message, delivered, stage>> /\ lines' = <<>>
    BY <1>4 DEF Quit, GiveUp, Close
  <2>2. delivered \in {<<>>, <<AsRead(mail)>>}
    BY <1>2 DEF OnlyTheMail, Single
  <2> QED
    BY <1>1, <1>2, <2>1, <2>2 DEF InOrder, Connecting, OnlyTheMail, Single
<1>5. CASE Greet \/ AcceptCommand \/ RefuseCommand \/ TakeLine \/ TakeEnd
  <2>1. server # "closed" /\ pc # "connect" /\ pc' = pc
    BY <1>2, <1>5 DEF Greet, AcceptCommand, RefuseCommand, TakeLine, TakeEnd, InOrder
  <2> QED
    BY <1>2, <1>5, <2>1, ServerOrder DEF Connecting
<1>6. CASE UNCHANGED vars
  BY <1>2, <1>6 DEF vars, InOrder, Connecting, OnlyTheMail, Waiting, Message, Stages, Taken,
                    Written, UpTo, LineWritten
<1> QED
  BY <1>3, <1>4, <1>5, <1>6 DEF Next, ServerStep

-----------------------------------------------------------------------------
(* Nothing was written and nothing has arrived at the beginning.            *)
LEMMA InitInv == Init => IInv
<1> SUFFICES ASSUME Init PROVE IInv
  OBVIOUS
<1>1. <<>> \in Seq(BodyLines) /\ <<>> \in Seq(Seq(BodyLines))
  OBVIOUS
<1>2. TypeOK
  <2>1. lines \in Seq(BodyLines) /\ message \in Seq(BodyLines) /\ delivered \in Seq(Seq(BodyLines))
    BY <1>1 DEF Init
  <2>2. step \in 1..Steps /\ replies \in Nat
    <3>1. step = 1 /\ replies = 0
      BY Zenon DEF Init
    <3> QED
      BY <3>1 DEF Steps
  <2>3. refused \in BOOLEAN
    BY Zenon DEF Init
  <2> QED
    BY <2>1, <2>2, <2>3 DEF Init, TypeOK
<1> QED
  BY <1>2 DEF Init, IInv, Parts, InOrder, Connecting, OnlyTheMail

(* The types of SmtpClient's variables, for every body and greeting.        *)
THEOREM TypeCorrect == SafeSpec => []TypeOK
<1>1. Init => TypeOK /\ Parts
  BY InitInv DEF IInv
<1> QED
  BY <1>1, TypeStep, PTL DEF SafeSpec

(* For every mail without a line that is a dot, however the replies are     *)
(* taken: the server delivers the mail, whole and once, or none.  It may    *)
(* refuse anything of a mail that spells no commands; if one does, for as   *)
(* long as the server refuses nothing.                                      *)
THEOREM DeliveredWhole == SafeSpec => []OnlyTheMail
<1>1. IInv => OnlyTheMail
  BY DEF IInv, OnlyTheMail, Single
<1> QED
  BY <1>1, InitInv, OrderStep, PTL DEF SafeSpec
=============================================================================
