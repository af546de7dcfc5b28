--------------------------- MODULE ServeClientProofs ---------------------------
(***************************************************************************)
(* Proofs about ServeClient, for any requests and files, any size of a     *)
(* read and any window.                                                    *)
(***************************************************************************)
EXTENDS ServeClient, SequenceTheorems, TLAPS

USE ReadSizeAssumption, WindowAssumption

(* The places of what a concatenation consists of.                          *)
LEMMA ConcatParts ==
  ASSUME NEW S, NEW a \in Seq(S), NEW b \in Seq(S)
  PROVE  /\ a \o b \in Seq(S) /\ Len(a \o b) = Len(a) + Len(b)
         /\ Len(a) \in Nat /\ Len(b) \in Nat
         /\ \A i \in 1..Len(a) : (a \o b)[i] = a[i]
         /\ \A i \in 1..Len(b) : (a \o b)[Len(a) + i] = b[i]
<1>1. Len(a) \in Nat /\ Len(b) \in Nat /\ a \o b \in Seq(S) /\ Len(a \o b) = Len(a) + Len(b)
  OBVIOUS
<1>2. \A i \in 1..Len(a) : (a \o b)[i] = a[i]
  OBVIOUS
<1>3. ASSUME NEW i \in 1..Len(b) PROVE (a \o b)[Len(a) + i] = b[i]
  <2>1. Len(a) + i \in 1..(Len(a) + Len(b)) /\ ~ (Len(a) + i <= Len(a)) /\ Len(a) + i - Len(a) = i
    BY <1>1
  <2> QED
    BY <2>1, ConcatProperties
<1> QED
  BY <1>1, <1>2, <1>3

(* Where the parts of a request stand in its stream.                        *)
LEMMA LineParts ==
  ASSUME NEW cmd \in Seq(Bytes), NEW path \in Seq(Bytes), NEW tail \in Seq(Bytes),
         NEW s, s = cmd \o <<"sp">> \o path \o tail
  PROVE  /\ s \in Seq(Bytes) /\ Len(s) = Len(cmd) + 1 + Len(path) + Len(tail)
         /\ Len(cmd) \in Nat /\ Len(path) \in Nat /\ Len(tail) \in Nat
         /\ \A i \in 1..Len(cmd) : s[i] = cmd[i]
         /\ s[Len(cmd) + 1] = "sp"
         /\ \A i \in 1..Len(path) : s[Len(cmd) + 1 + i] = path[i]
         /\ \A i \in 1..Len(tail) : s[Len(cmd) + 1 + Len(path) + i] = tail[i]
<1>1. <<"sp">> \in Seq(Bytes) /\ Len(<<"sp">>) = 1 /\ <<"sp">>[1] = "sp"
  BY DEF Bytes, Delimiters
<1> DEFINE front == cmd \o <<"sp">>
           line == front \o path
<1>2. /\ front \in Seq(Bytes) /\ Len(front) = Len(cmd) + 1 /\ Len(cmd) \in Nat
      /\ \A i \in 1..Len(cmd) : front[i] = cmd[i]
      /\ front[Len(cmd) + 1] = "sp"
  BY <1>1
<1> HIDE DEF front
<1>3. /\ line \in Seq(Bytes) /\ Len(line) = Len(front) + Len(path) /\ Len(path) \in Nat
      /\ \A i \in 1..Len(front) : line[i] = front[i]
      /\ \A i \in 1..Len(path) : line[Len(front) + i] = path[i]
  <2>1. front \in Seq(Bytes) /\ path \in Seq(Bytes)
    BY <1>2
  <2> QED
    BY ONLY <2>1, ConcatParts
<1>4. s = line \o tail
  BY DEF front
<1> HIDE DEF line
<1>5. /\ s \in Seq(Bytes) /\ Len(s) = Len(line) + Len(tail) /\ Len(tail) \in Nat
      /\ \A i \in 1..Len(line) : s[i] = line[i]
      /\ \A i \in 1..Len(tail) : s[Len(line) + i] = tail[i]
  <2>1. line \in Seq(Bytes) /\ tail \in Seq(Bytes)
    BY <1>3
  <2> QED
    BY ONLY <1>4, <2>1, ConcatParts
<1> QED
  BY <1>2, <1>3, <1>5

(* A request is a finite stream.                                            *)
LEMMA StreamLength ==
  ASSUME NEW r \in Requests PROVE Stream(r) \in Seq(Bytes) /\ Len(Stream(r)) \in Nat
<1>1. r.cmd \in Seq(Bytes) /\ r.path \in Seq(Bytes) /\ r.tail \in Seq(Bytes)
  BY RequestsAssumption DEF Bytes
<1>2. \A w \in Seq(Bytes) : Len(w) \in Nat
  OBVIOUS
<1> QED
  BY <1>1, <1>2, LineParts DEF Stream

(* Every answer is a sequence of pages and blocks, whatever the request is. *)
LEMMA AnswerPieces == ASSUME NEW text PROVE Answers(text) \subseteq Seq(Pieces)
<1>1. \A code \in {"400", "404", "503"} : Page(code) \in Pieces /\ SendError(code) \in Seq(Pieces)
  BY DEF SendError, Pieces
<1>2. ASSUME NEW p PROVE Content(p) \in Seq(Pieces)
  <2>1. CASE p \notin DOMAIN Files
    BY <1>1, <2>1 DEF Content
  <2>2. CASE p \in DOMAIN Files
    <3> DEFINE blocks == [k \in 1..Files[p].good |-> Block(p, k)]
    <3>1. Files[p].good \in Nat /\ Files[p].size \in Nat /\ Files[p].good <= Files[p].size
      BY <2>2, FilesAssumption
    <3>2. \A k \in 1..Files[p].good : Block(p, k) \in Pieces
      BY <2>2, <3>1 DEF Pieces
    <3>3. blocks \in Seq(Pieces)
      BY <3>1, <3>2, IsASeq
    <3>4. blocks \o SendError("404") \in Seq(Pieces)
      BY <1>1, <3>3, ConcatProperties
    <3> QED
      BY <2>2, <3>3, <3>4 DEF Content
  <2> QED
    BY <2>1, <2>2
<1> QED
  BY <1>1, <1>2 DEF Answers

(* The variables keep their types. *)
LEMMA TypeStep == TypeOK /\ [Next]_vars => TypeOK'
<1> SUFFICES ASSUME TypeOK, [Next]_vars PROVE TypeOK'
  OBVIOUS
<1> USE DEF TypeOK, client, server, Crash
<1>1. Len(Stream(req)) \in Nat
  BY StreamLength
<1>2. CASE Arrive \/ Accepted
  BY <1>2 DEF Arrive, Accepted
<1>3. CASE ReceiveRequest
  <2>1. Got \in Nat /\ Got <= sent - size
    BY <1>1 DEF Got, Pending
  <2>2. CASE Received(Got)
    <3>1. size' \in 0..sent
      BY <1>1, <2>1, <2>2 DEF Received
    <3>2. cap' \in Nat /\ pc' \in {"respond", "read"}
      BY <1>1, <2>2, <3>1 DEF Received, Grown
    <3> QED
      BY <2>2, <3>1, <3>2 DEF Received
  <2> QED
    BY <1>3, <2>2 DEF ReceiveRequest
<1>4. CASE Respond
  <2>1. CASE Crash
    BY <2>1
  <2>2. CASE ~Crash
    <3>1. job' \in Seq(Pieces) /\ pc' = "send" /\ UNCHANGED <<client, size, cap, out>>
      BY <1>4, <2>2, AnswerPieces DEF Respond
    <3> QED
      BY <3>1
  <2> QED
    BY <2>1, <2>2
<1>5. CASE SendData
  <2>1. Head(job) \in Pieces /\ Tail(job) \in Seq(Pieces)
    BY <1>5, HeadTailProperties DEF SendData
  <2>2. Append(out, Head(job)) \in Seq(Pieces) /\ Len(Append(out, Head(job))) = Len(out) + 1
    BY <2>1, AppendProperties
  <2>3. Len(out) \in Nat
    OBVIOUS
  <2>4. CASE out' = Append(out, Head(job))
    <3>1. out' \in Seq(Pieces) /\ rcvd \in 0..Len(out')
      BY <2>2, <2>3, <2>4
    <3>2. job' \in Seq(Pieces) /\ rcvd' = rcvd
      BY <1>5, <2>1, <2>4 DEF SendData
    <3> QED
      BY <1>5, <3>1, <3>2 DEF SendData
  <2>5. CASE UNCHANGED out
    BY <1>5, <2>1, <2>5 DEF SendData
  <2> QED
    BY <1>5, <2>4, <2>5 DEF SendData
<1>6. CASE Disconnect
  BY <1>6 DEF Disconnect
<1>7. CASE ClientSend \/ ClientFin \/ ClientReset \/ ClientCut
  <2>1. CASE ClientSend
    BY <1>1, <2>1 DEF ClientSend
  <2>2. CASE ClientFin \/ ClientReset \/ ClientCut
    BY <2>2 DEF ClientFin, ClientReset, ClientCut
  <2> QED
    BY <1>7, <2>1, <2>2
<1>8. CASE ClientRead
  <2>1. Len(out) \in Nat
    OBVIOUS
  <2> QED
    BY <1>8, <2>1 DEF ClientRead
<1>9. CASE UNCHANGED vars
  BY <1>9 DEF vars
<1> QED
  BY <1>2, <1>3, <1>4, <1>5, <1>6, <1>7, <1>8, <1>9 DEF Next, ServerStep

(* Every reachable state is well typed. *)
THEOREM TypeCorrect == SafeSpec => []TypeOK
<1>1. Init => TypeOK
  <2> SUFFICES ASSUME Init PROVE TypeOK
    OBVIOUS
  <2>1. Len(Stream(req)) \in Nat
    BY StreamLength DEF Init
  <2>2. <<>> \in Seq(Pieces) /\ Len(<<>>) = 0
    BY EmptySeq
  <2>3. out \in Seq(Pieces) /\ rcvd \in 0..Len(out)
    BY <2>2 DEF Init
  <2>4. sent \in 0..Len(Stream(req)) /\ size \in 0..sent
    BY <2>1 DEF Init
  <2> QED
    BY <2>2, <2>3, <2>4 DEF Init, TypeOK
<1> QED
  BY <1>1, TypeStep, PTL DEF SafeSpec

-----------------------------------------------------------------------------
(* Nothing is received before the connection is accepted. *)
Fresh == pc \in {"idle", "queued"} => size = 0

(* The room for a read, from the allocation of calloc and realloc on. *)
LEMMA RoomStep == TypeOK /\ Fresh /\ RoomToRead /\ [Next]_vars => Fresh' /\ RoomToRead'
<1> SUFFICES ASSUME TypeOK, Fresh, RoomToRead, [Next]_vars PROVE Fresh' /\ RoomToRead'
  OBVIOUS
<1> USE DEF Fresh, RoomToRead, client, server, Crash
<1>1. size \in Nat /\ cap \in Nat
  BY StreamLength DEF TypeOK
<1>2. CASE Arrive \/ Accepted
  BY <1>1, <1>2 DEF Arrive, Accepted
<1>3. CASE ReceiveRequest
  <2>1. CASE Received(Got)
    <3>1. size' \in Nat
      BY TypeStep, StreamLength DEF TypeOK
    <3> QED
      BY <1>3, <2>1, <3>1 DEF ReceiveRequest, Received, Grown
  <2> QED
    BY <1>3, <2>1 DEF ReceiveRequest
<1>4. CASE Respond \/ SendData \/ Disconnect
  BY <1>4 DEF Respond, SendData, Disconnect
<1>5. CASE ClientSend \/ ClientFin \/ ClientReset \/ ClientRead \/ ClientCut
  BY <1>5 DEF ClientSend, ClientFin, ClientReset, ClientRead, ClientCut
<1>6. CASE UNCHANGED vars
  BY <1>6 DEF vars
<1> QED
  BY <1>2, <1>3, <1>4, <1>5, <1>6 DEF Next, ServerStep

(* No read writes behind its buffer, however many reads a request takes.    *)
THEOREM ReadsInBounds == SafeSpec => []RoomToRead
<1>1. Init => Fresh /\ RoomToRead
  BY DEF Init, Fresh, RoomToRead
<1> QED
  BY <1>1, TypeCorrect, RoomStep, PTL DEF SafeSpec

-----------------------------------------------------------------------------
(* Of what was sent before a read's worth there is a cleared byte behind    *)
(* every string, wherever it begins in the first read.                      *)
LEMMA ShortEnds ==
  ASSUME NEW from \in Nat, NEW n \in Nat, NEW ends, from <= ReadSize, n < ReadSize
  PROVE  ~ RunsOn(from, n, ends)
BY DEF RunsOn, Cleared

(* A request shorter than a read brings nothing down, unless it is reset.   *)
THEOREM ShortRequestsHarmless == SafeSpec => []ShortRequestHarmless
<1>1. Init => ShortRequestHarmless
  BY DEF Init, ShortRequestHarmless
<1>2. TypeOK /\ RoomToRead /\ ShortRequestHarmless /\ [Next]_vars => ShortRequestHarmless'
  <2> SUFFICES ASSUME TypeOK, RoomToRead, ShortRequestHarmless, [Next]_vars
               PROVE  ShortRequestHarmless'
    OBVIOUS
  <2> USE DEF ShortRequestHarmless, client, server, Crash
  <2>a. sent \in Nat /\ size \in Nat /\ size <= sent /\ cap \in Nat /\ Len(Stream(req)) \in Nat
    BY StreamLength DEF TypeOK
  <2>1. CASE Arrive \/ Accepted
    BY <2>1 DEF Arrive, Accepted
  <2>2. CASE ReceiveRequest
    <3>1. Got \in Nat /\ Got <= ReadSize /\ Got <= sent - size
      BY <2>a DEF Got, Pending
    <3>2. CASE sent < ReadSize
      <4>1. size + 1 \in Nat /\ size + 1 <= ReadSize /\ size + Got \in Nat /\ size + Got < ReadSize
        BY <2>a, <3>1, <3>2
      <4>2. ~ RunsOn(size + 1, size + Got, {"nul"})
        BY <4>1, ShortEnds
      <4>3. ~ (size + Got > cap)
        BY <2>2, <2>a, <3>1 DEF ReceiveRequest, RoomToRead
      <4> QED
        BY <2>2, <4>2, <4>3 DEF ReceiveRequest, Received, BeyondBlock
    <3>3. CASE sent >= ReadSize
      BY <2>2, <3>3 DEF ReceiveRequest, Received
    <3> QED
      BY <2>a, <3>2, <3>3
  <2>3. CASE Respond
    <3>1. CASE sent < ReadSize
      <4>1. size < ReadSize
        BY <2>a, <3>1
      <4>2. ASSUME NEW text PROVE ~ TokenRunsOn(text)
        <5>1. ~ RunsOn(1, size, Delimiters)
          BY <2>a, <4>1, ShortEnds
        <5>2. ASSUME NEW cmd, IdentifyCommand(cmd) = "GET" PROVE Len(cmd) + 2 = 3
          <6>1. Len(cmd) = 1
            BY Zenon, <5>2 DEF IdentifyCommand
          <6> QED
            BY ONLY <6>1
        <5>3. ~ RunsOn(3, size, Delimiters)
          BY <2>a, <4>1, ShortEnds
        <5> QED
          BY <5>1, <5>2, <5>3 DEF TokenRunsOn
      <4> QED
        BY <2>3, <4>2 DEF Respond
    <3>2. CASE sent >= ReadSize
      BY <2>3, <3>2 DEF Respond
    <3> QED
      BY <2>a, <3>1, <3>2
  <2>4. CASE SendData \/ Disconnect
    BY <2>4 DEF SendData, Disconnect
  <2>5. CASE ClientSend \/ ClientFin \/ ClientReset \/ ClientRead \/ ClientCut
    <3>1. sent' >= sent /\ sent' \in Nat
      BY <2>5, <2>a DEF ClientSend, ClientFin, ClientReset, ClientRead, ClientCut
    <3> QED
      BY <2>5, <2>a, <3>1 DEF ClientSend, ClientFin, ClientReset, ClientRead, ClientCut, Live
  <2>6. CASE UNCHANGED vars
    BY <2>6 DEF vars
  <2> QED
    BY <2>1, <2>2, <2>3, <2>4, <2>5, <2>6 DEF Next, ServerStep
<1> QED
  BY <1>1, <1>2, TypeCorrect, ReadsInBounds, PTL DEF SafeSpec

-----------------------------------------------------------------------------
(* Past the receive loop the client has ended a line or its stream.         *)
Heard == pc \in {"respond", "send", "closed"} => Spoke

(* What a client has done is never undone. *)
LEMMA SaidKept ==
  ASSUME TypeOK, [Next]_vars
  PROVE  Spoke => Spoke'
<1>1. Len(Stream(req)) \in Nat
  BY StreamLength DEF TypeOK
<1>2. req' = req /\ (fin => fin') /\ sent \in Nat /\ sent' \in Nat /\ sent' >= sent
  <2> USE DEF client, server, Crash
  <2>1. CASE ServerStep \/ Arrive \/ Accepted
    BY <1>1, <2>1 DEF TypeOK, ServerStep, Arrive, Accepted, ReceiveRequest, Received, Respond, SendData, Disconnect
  <2>2. CASE ClientSend
    BY <1>1, <2>2 DEF TypeOK, ClientSend
  <2>3. CASE ClientFin \/ ClientReset \/ ClientRead \/ ClientCut
    BY <1>1, <2>3 DEF TypeOK, ClientFin, ClientReset, ClientRead, ClientCut
  <2>4. CASE UNCHANGED vars
    BY <1>1, <2>4 DEF TypeOK, vars
  <2> QED
    BY <2>1, <2>2, <2>3, <2>4 DEF Next
<1> QED
  BY <1>2 DEF Spoke

(* No step leaves the receive loop before the client was heard.            *)
LEMMA HeardStep == TypeOK /\ Heard /\ [Next]_vars => Heard'
<1> SUFFICES ASSUME TypeOK, Heard, [Next]_vars PROVE Heard'
  OBVIOUS
<1> USE DEF Heard
<1>1. ASSUME pc'  \in {"respond", "send", "closed"} => pc \in {"respond", "send", "closed"} PROVE Heard'
  BY <1>1, SaidKept
<1>2. CASE ReceiveRequest
  <2>1. CASE Received(Got) /\ LineRead(size')
    <3>1. size' \in 1..sent /\ UNCHANGED <<req, sent, fin, link>>
      BY <2>1, TypeStep, StreamLength DEF TypeOK, Received, client, Got, Pending
    <3>2. Spoke'
      BY <2>1, <3>1 DEF Spoke, LineRead
    <3> QED
      BY <3>2
  <2>2. CASE Received(Got) /\ ~LineRead(size')
    BY <2>2 DEF Received
  <2>3. CASE fin /\ UNCHANGED client
    BY <2>3 DEF client, Spoke
  <2>4. CASE Crash
    BY <2>4 DEF Crash
  <2> QED
    BY <1>2, <2>1, <2>2, <2>3, <2>4 DEF ReceiveRequest
<1>3. CASE Arrive \/ Accepted \/ Respond \/ SendData \/ Disconnect
  BY <1>1, <1>3 DEF Arrive, Accepted, Respond, SendData, Disconnect, Crash, client
<1>4. CASE ClientSend \/ ClientFin \/ ClientReset \/ ClientRead \/ ClientCut
  BY <1>1, <1>4 DEF ClientSend, ClientFin, ClientReset, ClientRead, ClientCut, server
<1>5. CASE UNCHANGED vars
  BY <1>1, <1>5 DEF vars
<1> QED
  BY <1>2, <1>3, <1>4, <1>5 DEF Next, ServerStep

-----------------------------------------------------------------------------
(* The first token of a text is what stands before its first delimiter.     *)
LEMMA TokenOf ==
  ASSUME NEW S, NEW w \in Seq(S), NEW text \in Seq(S), Len(w) < Len(text),
         \A i \in 1..Len(w) : text[i] = w[i] /\ w[i] \notin Delimiters,
         text[Len(w) + 1] \in Delimiters
  PROVE  Token(text) = w
<1> DEFINE ends == {i \in DOMAIN text : text[i] \in Delimiters}
<1>1. Len(w) \in Nat /\ Len(text) \in Nat /\ DOMAIN text = 1..Len(text)
  OBVIOUS
<1>2. Len(w) + 1 \in ends
  BY <1>1
<1>3. \A i \in ends : Len(w) + 1 <= i
  BY <1>1
<1> DEFINE first == CHOOSE i \in ends : \A j \in ends : i <= j
<1>4. first = Len(w) + 1
  BY <1>1, <1>2, <1>3
<1>5. Token(text) = SubSeq(text, 1, first - 1)
  BY Zenon DEF Token
<1> HIDE DEF first, ends
<1>6. Token(text) = SubSeq(text, 1, Len(w))
  BY <1>1, <1>4, <1>5
<1> QED
  BY <1>1, <1>6

(* What the tokenizer has before it begins with what was received; behind a *)
(* first read that was not filled there is a zero.                          *)
LEMMA MemoryIs ==
  ASSUME TypeOK, NEW junk \in Junk
  PROVE  /\ Memory(junk) \in Seq(Bytes \cup {"x"}) /\ Len(Memory(junk)) = size + 3
         /\ \A i \in 1..size : Memory(junk)[i] = Stream(req)[i]
         /\ size < ReadSize => Memory(junk)[size + 1] = "nul"
<1> DEFINE S == Bytes \cup {"x"}
           behind == [i \in 1..Len(junk) |-> IF size + i <= Cleared THEN "nul" ELSE junk[i]]
           got == SubSeq(Stream(req), 1, size)
<1>1. Stream(req) \in Seq(Bytes) /\ Len(Stream(req)) \in Nat /\ size \in 0..Len(Stream(req))
  <2>1. req \in Requests /\ sent \in 0..Len(Stream(req)) /\ size \in 0..sent
    BY DEF TypeOK
  <2>2. Stream(req) \in Seq(Bytes) /\ Len(Stream(req)) \in Nat
    BY <2>1, StreamLength
  <2> QED
    BY <2>1, <2>2
<1>2. Len(junk) = 3 /\ \A i \in 1..3 : junk[i] \in S
  <2>1. junk = <<"nul", "nul", "nul">> \/ junk = <<"x", "nul", "nul">>
    BY DEF Junk
  <2> QED
    BY <2>1 DEF Bytes, Delimiters
<1>3. behind \in [1..3 -> S] /\ (size < ReadSize => behind[1] = "nul")
  BY <1>1, <1>2 DEF Bytes, Delimiters, Cleared
<1>4. behind \in Seq(S) /\ Len(behind) = 3
  <2> HIDE DEF behind, S
  <2>1. ASSUME NEW n \in Nat, NEW f \in [1..n -> S] PROVE f \in Seq(S) /\ Len(f) = n
    OBVIOUS
  <2> QED
    BY <1>3, <2>1
<1>5. got \in Seq(S) /\ Len(got) = size /\ \A i \in 1..size : got[i] = Stream(req)[i]
  BY <1>1
<1>6. Memory(junk) = got \o behind
  BY DEF Memory
<1> HIDE DEF got, behind, S
<1>7. /\ got \o behind \in Seq(S) /\ Len(got \o behind) = size + 3
      /\ \A i \in 1..(size + 3) :
            (got \o behind)[i] = IF i <= size THEN got[i] ELSE behind[i - size]
  <2>1. /\ got \o behind \in Seq(S) /\ Len(got \o behind) = Len(got) + Len(behind)
        /\ \A i \in 1..(Len(got) + Len(behind)) :
              (got \o behind)[i] = IF i <= Len(got) THEN got[i] ELSE behind[i - Len(got)]
    BY <1>4, <1>5, ConcatProperties
  <2> QED
    BY <1>4, <1>5, <2>1
<1>8. size < ReadSize => (got \o behind)[size + 1] = "nul"
  <2>1. size \in Nat /\ size + 1 \in 1..(size + 3) /\ ~ (size + 1 <= size) /\ size + 1 - size = 1
    BY <1>1
  <2> QED
    BY <1>3, <1>7, <2>1
<1> QED
  BY <1>1, <1>5, <1>6, <1>7, <1>8 DEF S

(* The first two tokens of a text.                                          *)
LEMMA TokensOf ==
  ASSUME NEW S, NEW cmd \in Seq(S), NEW w \in Seq(S), NEW text \in Seq(S),
         Len(cmd) + 1 + Len(w) < Len(text),
         \A i \in 1..Len(cmd) : text[i] = cmd[i] /\ cmd[i] \notin Delimiters,
         text[Len(cmd) + 1] \in Delimiters,
         \A i \in 1..Len(w) : text[Len(cmd) + 1 + i] = w[i] /\ w[i] \notin Delimiters,
         text[Len(cmd) + 1 + Len(w) + 1] \in Delimiters
  PROVE  Token(text) = cmd /\ Token(SubSeq(text, Len(cmd) + 2, Len(text))) = w
<1>1. Len(cmd) \in Nat /\ Len(w) \in Nat /\ Len(text) \in Nat
  OBVIOUS
<1>2. Token(text) = cmd
  BY <1>1, TokenOf
<1> DEFINE rest == SubSeq(text, Len(cmd) + 2, Len(text))
<1>3. /\ rest \in Seq(S) /\ Len(rest) = Len(text) - Len(cmd) - 1
      /\ \A i \in 1..Len(rest) : rest[i] = text[Len(cmd) + 1 + i]
  BY <1>1
<1> HIDE DEF rest
<1>4. Len(w) < Len(rest) /\ \A i \in 1..Len(w) : rest[i] = w[i] /\ w[i] \notin Delimiters
  BY <1>1, <1>3
<1>5. rest[Len(w) + 1] \in Delimiters
  <2>1. Len(w) + 1 \in 1..Len(rest) /\ Len(cmd) + 1 + (Len(w) + 1) = Len(cmd) + 1 + Len(w) + 1
    BY <1>1, <1>3
  <2>2. rest[Len(w) + 1] = text[Len(cmd) + 1 + (Len(w) + 1)]
    BY <1>3, <2>1
  <2> QED
    BY <2>1, <2>2
<1>6. Token(rest) = w
  BY <1>3, <1>4, <1>5, TokenOf
<1> QED
  BY <1>2, <1>6 DEF rest

(* The path of a request, with the line feed that may have come to it.      *)
PathToken(r) == IF r.tail # <<>> /\ Head(r.tail) = "lf" THEN Append(r.path, "lf") ELSE r.path

(* Whatever follows in memory, the tokens of what was received are those of *)
(* the request.                                                            *)
LEMMA RequestTokens ==
  ASSUME TypeOK, NEW junk \in Junk, FirstLineCame, Delimited(req) \/ size < ReadSize
  PROVE  LET text == Memory(junk) IN
         /\ Token(text) = req.cmd
         /\ Token(SubSeq(text, Len(req.cmd) + 2, Len(text))) = PathToken(req)
<1> DEFINE text == Memory(junk)
           S == Bytes \cup {"x"}
           here(cmd, path, tail, s) ==
               /\ cmd \in Seq(Symbols) /\ path \in Seq(Symbols) /\ tail \in Seq(Bytes)
               /\ tail \in {<<>>, <<"lf">>} \/ Head(tail) \in {"sp", "cr"}
               /\ s = cmd \o <<"sp">> \o path \o tail
               /\ size >= Len(cmd) + 1 + Len(path) + (IF tail = <<>> THEN 0 ELSE 1)
               /\ (tail # <<>> /\ Head(tail) \in {"sp", "cr"}) \/ size < ReadSize
           word(path, tail) == IF tail # <<>> /\ Head(tail) = "lf" THEN Append(path, "lf") ELSE path
<1>1. here(req.cmd, req.path, req.tail, Stream(req))
  BY RequestsAssumption DEF Stream, FirstLineCame, Delimited, TypeOK
<1>2. /\ text \in Seq(S) /\ Len(text) = size + 3 /\ size \in Nat
      /\ \A i \in 1..size : text[i] = Stream(req)[i]
      /\ size < ReadSize => text[size + 1] = "nul"
      /\ size <= Len(Stream(req))
  BY MemoryIs, StreamLength DEF TypeOK
<1> HIDE DEF text
<1>3. ASSUME NEW cmd, NEW path, NEW tail, NEW s, here(cmd, path, tail, s), s = Stream(req)
      PROVE  /\ Token(text) = cmd
             /\ Token(SubSeq(text, Len(cmd) + 2, Len(text))) = word(path, tail)
  <2> DEFINE w == word(path, tail)
  <2>1. cmd \in Seq(Bytes) /\ path \in Seq(Bytes) /\ tail \in Seq(Bytes)
    BY <1>3 DEF Bytes
  <2>2. /\ Len(s) = Len(cmd) + 1 + Len(path) + Len(tail)
        /\ Len(cmd) \in Nat /\ Len(path) \in Nat /\ Len(tail) \in Nat
        /\ \A i \in 1..Len(cmd) : s[i] = cmd[i]
        /\ s[Len(cmd) + 1] = "sp"
        /\ \A i \in 1..Len(path) : s[Len(cmd) + 1 + i] = path[i]
        /\ \A i \in 1..Len(tail) : s[Len(cmd) + 1 + Len(path) + i] = tail[i]
    BY <1>3, <2>1, LineParts
  <2>3. /\ \A i \in 1..Len(cmd) : cmd[i] \notin Delimiters
        /\ \A i \in 1..Len(path) : path[i] \notin Delimiters
    BY <1>3, SymbolsAssumption
  <2>4. \A i \in 1..Len(cmd) : text[i] = cmd[i] /\ cmd[i] \notin Delimiters
    BY <1>2, <1>3, <2>2, <2>3
  <2>5. text[Len(cmd) + 1] \in Delimiters
    BY <1>2, <1>3, <2>2 DEF Delimiters
  <2>a. Len(s) \in Nat /\ size \in Nat /\ size >= Len(cmd) + 1 + Len(path)
    BY <1>2, <1>3, <2>2
  <2>6. \A i \in 1..Len(path) : text[Len(cmd) + 1 + i] = path[i] /\ path[i] \notin Delimiters
    <3> TAKE i \in 1..Len(path)
    <3>1. Len(cmd) + 1 + i \in 1..size
      BY <2>2, <2>a
    <3>2. text[Len(cmd) + 1 + i] = Stream(req)[Len(cmd) + 1 + i]
      BY <1>2, <3>1
    <3> QED
      BY <1>3, <2>2, <2>3, <3>2
  <2>b. cmd \in Seq(S) /\ path \in Seq(S) /\ text \in Seq(S)
    BY <1>2, <2>1
  <2>c. ASSUME w = path, text[Len(cmd) + 1 + Len(path) + 1] \in Delimiters
        PROVE  /\ Token(text) = cmd
               /\ Token(SubSeq(text, Len(cmd) + 2, Len(text))) = word(path, tail)
    <3>1. Len(cmd) + 1 + Len(path) < Len(text)
      BY <1>2, <2>2, <2>a
    <3> HIDE DEF S, w
    <3>2. Token(text) = cmd /\ Token(SubSeq(text, Len(cmd) + 2, Len(text))) = path
      BY ONLY <2>b, <2>4, <2>5, <2>6, <2>c, <3>1, TokensOf
    <3> QED
      BY <2>c, <3>2 DEF w
  <2>7. CASE tail = <<>>
    <3>1. size = Len(cmd) + 1 + Len(path) /\ size < ReadSize /\ w = path
      BY <1>2, <1>3, <2>2, <2>7, <2>a
    <3>2. text[Len(cmd) + 1 + Len(path) + 1] \in Delimiters
      BY <1>2, <3>1 DEF Delimiters
    <3> QED
      BY <2>c, <3>1, <3>2
  <2>8. CASE tail # <<>> /\ Head(tail) \in {"sp", "cr"}
    <3>1. Len(tail) >= 1 /\ tail[1] \in Delimiters /\ w = path
      BY <1>3, <2>1, <2>8 DEF Delimiters
    <3>2. text[Len(cmd) + 1 + Len(path) + 1] \in Delimiters
      <4>1. Len(cmd) + 1 + Len(path) + 1 \in 1..size /\ 1 \in 1..Len(tail)
        BY <1>3, <2>2, <2>8, <2>a, <3>1
      <4> QED
        BY <1>2, <1>3, <2>2, <3>1, <4>1
    <3> QED
      BY <2>c, <3>1, <3>2
  <2>9. CASE tail = <<"lf">>
    <3>1. tail[1] = "lf" /\ Len(tail) = 1 /\ tail # <<>> /\ Head(tail) = "lf" /\ "lf" \notin {"sp", "cr"}
      BY <2>9
    <3>2. w = Append(path, "lf") /\ size < ReadSize
      BY <1>3, <3>1
    <3>3. size = Len(cmd) + 1 + Len(path) + 1
      <4>1. size >= Len(cmd) + 1 + Len(path) + 1
        BY <1>3, <3>1
      <4>2. size <= Len(cmd) + 1 + Len(path) + 1
        BY <1>2, <1>3, <2>2, <3>1
      <4>3. Len(cmd) + 1 + Len(path) + 1 \in Nat
        BY <2>2
      <4>4. \A m \in Nat : size >= m /\ size <= m => size = m
        BY <2>a
      <4> QED
        BY ONLY <4>1, <4>2, <4>3, <4>4
    <3>4. /\ w \in Seq(S) /\ Len(w) = Len(path) + 1
          /\ \A i \in 1..Len(path) : w[i] = path[i]
          /\ w[Len(path) + 1] = "lf"
      <4>1. "lf" \in S /\ path \in Seq(S)
        BY <2>b DEF Bytes
      <4> HIDE DEF S, w
      <4> QED
        BY <3>2, <4>1
    <3>5. text[Len(cmd) + 1 + Len(path) + 1] = "lf" /\ "lf" \notin Delimiters
      <4>1. Len(cmd) + 1 + Len(path) + 1 \in 1..size /\ 1 \in 1..Len(tail)
        BY <2>2, <2>a, <3>1, <3>3
      <4> QED
        BY <1>2, <1>3, <2>2, <3>1, <4>1 DEF Delimiters
    <3> HIDE DEF w, S
    <3>6. text[Len(cmd) + 1 + Len(w) + 1] \in Delimiters
      <4>1. Len(cmd) + 1 + Len(w) + 1 = size + 1
        BY <2>2, <3>3, <3>4
      <4> QED
        BY <1>2, <3>2, <4>1 DEF Delimiters
    <3>7. \A i \in 1..Len(w) : text[Len(cmd) + 1 + i] = w[i] /\ w[i] \notin Delimiters
      <4> TAKE i \in 1..Len(w)
      <4>1. CASE i \in 1..Len(path)
        BY <2>6, <3>4, <4>1
      <4>2. CASE i = Len(path) + 1
        <5>1. Len(cmd) + 1 + i = Len(cmd) + 1 + Len(path) + 1
          BY <2>2, <4>2
        <5> QED
          BY <3>4, <3>5, <4>2, <5>1
      <4> QED
        BY <2>2, <3>4, <4>1, <4>2
    <3>8. Len(cmd) + 1 + Len(w) < Len(text)
      BY <1>2, <2>2, <3>3, <3>4
    <3>9. Token(text) = cmd /\ Token(SubSeq(text, Len(cmd) + 2, Len(text))) = w
      BY ONLY <2>b, <2>4, <2>5, <3>4, <3>6, <3>7, <3>8, TokensOf
    <3> QED
      BY <3>9 DEF w
  <2> QED
    BY <1>3, <2>7, <2>8, <2>9
<1> QED
  BY <1>1, <1>3 DEF text, PathToken

(* What w3ServerRespond makes of any memory is what the request asks for.   *)
LEMMA AnswerOf ==
  ASSUME TypeOK, NEW junk \in Junk, FirstLineCame, req.path # <<>>,
         Delimited(req) \/ size < ReadSize
  PROVE  Answers(Memory(junk)) = {Asked(req)}
<1> DEFINE text == Memory(junk)
           rest == SubSeq(text, Len(req.cmd) + 2, Len(text))
           path == PathToken(req)
           kind == IdentifyCommand(req.cmd)
<1>1. Token(text) = req.cmd /\ Token(rest) = path
  BY RequestTokens
<1>2. Answers(text) = IF kind = "GET" THEN {Content(p) : p \in WithIndex(path)}
                      ELSE {SendError(IF kind = "unknown" THEN "400" ELSE "503")}
  BY <1>1 DEF Answers
<1> HIDE DEF text, rest
<1>3. req.cmd \in Seq(Symbols) /\ req.path \in Seq(Symbols)
  BY RequestsAssumption DEF TypeOK
<1>4. ASSUME NEW cmd \in Seq(Symbols), NEW word \in {"GET", "HEAD", "POST"}
      PROVE  IdentifyCommand(cmd) = word <=> cmd = <<word>>
  BY DEF IdentifyCommand
<1>5. path # <<>>
  <2>1. \A w \in Seq(Symbols) : w # <<>> => Append(w, "lf") # <<>>
    OBVIOUS
  <2> QED
    BY <1>3, <2>1 DEF PathToken
<1>6. WithIndex(path) = {IF Len(path) = 1 \/ Last(path) = "/" THEN Append(path, "index") ELSE path}
  BY <1>5 DEF WithIndex
<1>7. CASE req.cmd = <<"GET">>
  <2> DEFINE file == IF Len(path) = 1 \/ Last(path) = "/" THEN Append(path, "index") ELSE path
  <2>1. kind = "GET"
    BY <1>3, <1>4, <1>7
  <2>2. Asked(req) = Content(file)
    BY <1>7 DEF Asked, PathToken
  <2>3. WithIndex(path) = {file}
    BY <1>6
  <2> HIDE DEF file, kind, path
  <2> QED
    BY <1>2, <2>1, <2>2, <2>3 DEF text
<1>8. CASE req.cmd # <<"GET">>
  <2>1. kind # "GET"
    BY <1>3, <1>4, <1>8
  <2>2. kind \in {"HEAD", "POST", "unknown"} /\ (kind # "unknown" <=> req.cmd \in {<<"HEAD">>, <<"POST">>})
    BY <1>3, <1>4, <1>8, <2>1 DEF IdentifyCommand
  <2>3. Asked(req) = IF kind # "unknown" THEN <<Page("503")>> ELSE <<Page("400")>>
    BY <1>8, <2>2 DEF Asked
  <2> HIDE DEF kind, path
  <2> QED
    BY <1>2, <2>1, <2>3 DEF SendError, text
<1> QED
  BY <1>7, <1>8

-----------------------------------------------------------------------------
(* Nothing is written before the answer is known, and everything is before  *)
(* the connection is closed.                                                *)
Written ==
    /\ pc \in {"idle", "queued", "read", "respond"} => out = <<>>
    /\ pc = "closed" => job = <<>>

(* Every step keeps to that order of answering and closing.                *)
LEMMA WrittenStep == TypeOK /\ Written /\ [Next]_vars => Written'
<1> SUFFICES ASSUME TypeOK, Written, [Next]_vars PROVE Written'
  OBVIOUS
<1> USE DEF Written, client, server, Crash
<1>1. CASE Arrive \/ Accepted
  BY <1>1 DEF Arrive, Accepted
<1>2. CASE ReceiveRequest
  BY <1>2 DEF ReceiveRequest, Received
<1>3. CASE Respond \/ Disconnect
  BY <1>3 DEF Respond, Disconnect
<1>4. CASE SendData
  BY <1>4 DEF SendData
<1>5. CASE ClientSend \/ ClientFin \/ ClientReset \/ ClientRead \/ ClientCut
  BY <1>5 DEF ClientSend, ClientFin, ClientReset, ClientRead, ClientCut
<1>6. CASE UNCHANGED vars
  BY <1>6 DEF vars
<1> QED
  BY <1>1, <1>2, <1>3, <1>4, <1>5, <1>6 DEF Next, ServerStep

(* Writing a piece moves it from what is left to what was written.          *)
LEMMA MovedPiece ==
  ASSUME NEW S, NEW a \in Seq(S), NEW b \in Seq(S), b # <<>>
  PROVE  Append(a, Head(b)) \o Tail(b) = a \o b
<1> DEFINE c == Append(a, Head(b))
<1>1. /\ c \in Seq(S) /\ Len(c) = Len(a) + 1 /\ Len(a) \in Nat /\ c[Len(a) + 1] = b[1]
      /\ \A i \in 1..Len(a) : c[i] = a[i]
  OBVIOUS
<1>2. /\ Tail(b) \in Seq(S) /\ Len(b) \in Nat /\ Len(Tail(b)) = Len(b) - 1 /\ Len(b) >= 1
      /\ \A i \in 1..Len(Tail(b)) : Tail(b)[i] = b[i + 1]
  OBVIOUS
<1> HIDE DEF c
<1> DEFINE d == c \o Tail(b)
           e == a \o b
<1>3. /\ d \in Seq(S) /\ Len(d) = Len(c) + Len(Tail(b))
      /\ \A i \in 1..(Len(c) + Len(Tail(b))) : d[i] = IF i <= Len(c) THEN c[i] ELSE Tail(b)[i - Len(c)]
  BY <1>1, <1>2, ConcatProperties
<1>4. /\ e \in Seq(S) /\ Len(e) = Len(a) + Len(b)
      /\ \A i \in 1..(Len(a) + Len(b)) : e[i] = IF i <= Len(a) THEN a[i] ELSE b[i - Len(a)]
  BY ConcatProperties
<1> HIDE DEF d, e
<1>5. Len(d) = Len(e)
  BY <1>1, <1>2, <1>3, <1>4
<1>6. ASSUME NEW i \in 1..Len(e) PROVE d[i] = e[i]
  <2>1. i \in 1..(Len(c) + Len(Tail(b))) /\ i \in 1..(Len(a) + Len(b))
    BY <1>1, <1>2, <1>4
  <2>2. CASE i <= Len(a)
    <3>1. i <= Len(c) /\ i \in 1..Len(a)
      BY <1>1, <2>1, <2>2
    <3>2. d[i] = c[i] /\ e[i] = a[i]
      BY <1>3, <1>4, <2>1, <2>2, <3>1
    <3> QED
      BY <1>1, <3>1, <3>2
  <2>3. CASE i = Len(a) + 1
    BY <1>1, <1>3, <1>4, <2>1, <2>3
  <2>4. CASE i > Len(a) + 1
    <3>1. i - Len(c) \in 1..Len(Tail(b)) /\ i - Len(c) + 1 = i - Len(a)
      BY <1>1, <1>2, <2>1, <2>4
    <3>2. ~ (i <= Len(c)) /\ ~ (i <= Len(a))
      BY <1>1, <2>1, <2>4
    <3>3. d[i] = Tail(b)[i - Len(c)] /\ e[i] = b[i - Len(a)]
      BY <1>3, <1>4, <2>1, <3>2
    <3> QED
      BY <1>2, <3>1, <3>3
  <2> QED
    BY <1>1, <2>1, <2>2, <2>3, <2>4
<1> QED
  BY <1>3, <1>4, <1>5, <1>6, SeqEqual DEF c, d, e

(* Every step keeps the answer that of the request: it is chosen at the end *)
(* of the receive loop, and then only moved from what is left to write to  *)
(* what was written.                                                       *)
LEMMA AnswerStep == TypeOK /\ Written /\ AnswerAsAsked /\ [Next]_vars => AnswerAsAsked'
<1> SUFFICES ASSUME TypeOK, Written, AnswerAsAsked, [Next]_vars PROVE AnswerAsAsked'
  OBVIOUS
<1> USE DEF client, server, Crash
<1>a. ASSUME UNCHANGED <<req, size>>, link' = "up" => link = "up",
             pc' \in {"send", "closed"} => pc \in {"send", "closed"}, out' \o job' = out \o job
      PROVE  AnswerAsAsked'
  BY <1>a DEF AnswerAsAsked, FirstLineCame
<1>1. CASE Arrive \/ Accepted \/ ReceiveRequest
  BY <1>1 DEF Arrive, Accepted, ReceiveRequest, Received, AnswerAsAsked
<1>2. CASE Respond
  <2> SUFFICES ASSUME pc' = "send", FirstLineCame', req'.path # <<>>,
                      (Delimited(req) \/ size < ReadSize)'
               PROVE  out' \o job' = Asked(req')
    BY <1>2 DEF AnswerAsAsked, Respond
  <2>1. UNCHANGED <<req, size, out>> /\ out = <<>>
    BY <1>2 DEF Respond, Written
  <2>2. FirstLineCame /\ req.path # <<>> /\ (Delimited(req) \/ size < ReadSize)
    BY <2>1 DEF FirstLineCame
  <2>3. job' = Asked(req)
    BY <1>2, <2>2, AnswerOf DEF Respond
  <2>4. job' \in Seq(Pieces)
    BY TypeStep DEF TypeOK
  <2> QED
    BY <2>1, <2>3, <2>4, ConcatEmptySeq
<1>3. CASE SendData
  <2>1. CASE out' = Append(out, Head(job)) /\ job' = Tail(job) /\ UNCHANGED <<client, pc, size>>
    <3>1. out \in Seq(Pieces) /\ job \in Seq(Pieces) /\ job # <<>>
      BY <1>3 DEF SendData, TypeOK
    <3>2. out' \o job' = out \o job
      BY <2>1, <3>1, MovedPiece
    <3> QED
      BY <1>a, <2>1, <3>2
  <2>2. CASE link' = "dead" \/ Crash
    BY <2>2 DEF AnswerAsAsked
  <2> QED
    BY <1>3, <2>1, <2>2 DEF SendData
<1>4. CASE Disconnect \/ ClientSend \/ ClientFin \/ ClientReset \/ ClientRead \/ ClientCut
  BY <1>a, <1>4 DEF Disconnect, ClientSend, ClientFin, ClientReset, ClientRead, ClientCut, Live
<1>5. CASE UNCHANGED vars
  BY <1>a, <1>5 DEF vars
<1> QED
  BY <1>1, <1>2, <1>3, <1>4, <1>5 DEF Next, ServerStep

(* The order of answering and closing holds in every reachable state.      *)
LEMMA WrittenFirst == SafeSpec => []Written
<1>1. Init => Written
  BY DEF Init, Written
<1> QED
  BY <1>1, TypeCorrect, WrittenStep, PTL DEF SafeSpec

(* However a request is cut into reads and whatever lies behind it in       *)
(* memory, the answer is the one its first line asks for, once.             *)
THEOREM AnswersAsAsked == SafeSpec => []AnswerAsAsked
<1>1. Init => AnswerAsAsked
  BY DEF Init, AnswerAsAsked
<1> QED
  BY <1>1, TypeCorrect, WrittenFirst, AnswerStep, PTL DEF SafeSpec

-----------------------------------------------------------------------------
(* Past the receive loop nothing of a single line is left unread, and none  *)
(* will come.                                                               *)
AllRead ==
    OneLine(req) /\ pc \in {"respond", "send", "closed"} =>
        sent = size /\ (fin \/ sent = Len(Stream(req)))

(* No step leaves the receive loop before the whole single line was read.  *)
LEMMA AllReadStep == TypeOK /\ AllRead /\ [Next]_vars => AllRead'
<1> SUFFICES ASSUME TypeOK, AllRead, [Next]_vars PROVE AllRead'
  OBVIOUS
<1> USE DEF AllRead, client, server, Crash
<1>1. /\ Len(Stream(req)) \in Nat /\ sent \in Nat /\ size \in Nat
      /\ size <= sent /\ sent <= Len(Stream(req))
  BY StreamLength DEF TypeOK
<1>2. CASE Arrive \/ Accepted \/ Respond \/ Disconnect
  BY <1>2 DEF Arrive, Accepted, Respond, Disconnect
<1>3. CASE ReceiveRequest
  <2>1. CASE Received(Got)
    <3>1. UNCHANGED <<req, sent, fin>>
      BY <2>1 DEF Received
    <3>2. ASSUME OneLine(req), LineRead(size') PROVE sent' = size' /\ sent' = Len(Stream(req'))
      <4>1. size' \in 1..sent
        BY <1>1, <2>1 DEF Received, Got, Pending
      <4>2. Stream(req) \in Seq(Bytes) /\ size' \in DOMAIN Stream(req)
        BY <1>1, <4>1, StreamLength DEF TypeOK
      <4>3. size' = Len(Stream(req))
        BY <3>2, <4>2 DEF OneLine, LineRead
      <4> QED
        BY <1>1, <3>1, <4>1, <4>3
    <3> QED
      BY <2>1, <3>1, <3>2 DEF Received
  <2>2. CASE Got = 0 /\ fin /\ UNCHANGED <<client, size>>
    <3>1. sent = size
      BY <1>1, <2>2 DEF Got, Pending
    <3> QED
      BY <2>2, <3>1
  <2>3. CASE Crash
    BY <2>3
  <2> QED
    BY <1>3, <2>1, <2>2, <2>3 DEF ReceiveRequest
<1>4. CASE SendData
  BY <1>4 DEF SendData
<1>5. CASE ClientSend
  BY <1>1, <1>5 DEF ClientSend
<1>6. CASE ClientFin \/ ClientReset \/ ClientRead \/ ClientCut
  BY <1>6 DEF ClientFin, ClientReset, ClientRead, ClientCut
<1>7. CASE UNCHANGED vars
  BY <1>7 DEF vars
<1> QED
  BY <1>2, <1>3, <1>4, <1>5, <1>6, <1>7 DEF Next, ServerStep

(* A client that took the end of the stream for the end of the answer has   *)
(* read all that was written; one that sent a single line is never cut.     *)
Viewed ==
    /\ view = "complete" => pc = "closed" /\ link = "up" /\ rcvd = Len(out)
    /\ view = "cut" => ~ OneLine(req)

(* No step cuts a client that sent a single line.                          *)
LEMMA ViewedStep == TypeOK /\ AllRead /\ Viewed /\ [Next]_vars => Viewed'
<1> SUFFICES ASSUME TypeOK, AllRead, Viewed, [Next]_vars PROVE Viewed'
  OBVIOUS
<1> USE DEF Viewed, client, server, Crash
<1>1. CASE Arrive \/ Accepted
  BY <1>1 DEF Arrive, Accepted
<1>2. CASE ReceiveRequest \/ Respond \/ SendData \/ Disconnect
  BY <1>2 DEF ReceiveRequest, Received, Respond, SendData, Disconnect
<1>3. CASE ClientSend \/ ClientFin \/ ClientReset
  BY <1>3 DEF ClientSend, ClientFin, ClientReset, Live
<1>4. CASE ClientRead
  BY <1>4 DEF ClientRead
<1>5. CASE ClientCut
  <2>1. sent # size
    BY <1>5, StreamLength DEF ClientCut, TypeOK
  <2> QED
    BY <1>5, <2>1 DEF ClientCut, AllRead
<1>6. CASE UNCHANGED vars
  BY <1>6 DEF vars
<1> QED
  BY <1>1, <1>2, <1>3, <1>4, <1>5, <1>6 DEF Next, ServerStep

(* A client that sends one line and does not reset gets all of the answer   *)
(* it asked for before it sees the end of the stream.                       *)
THEOREM OneLinesWhole == SafeSpec => []OneLineWhole
<1>1. Init => AllRead /\ Viewed
  BY DEF Init, AllRead, Viewed
<1>2. TypeOK /\ Written /\ AnswerAsAsked /\ Viewed => OneLineWhole
  <2> SUFFICES ASSUME TypeOK, Written, AnswerAsAsked, Viewed, OneLine(req),
                      view = "complete", FirstLineCame
               PROVE  SubSeq(out, 1, rcvd) = Asked(req)
    BY DEF OneLineWhole, Viewed
  <2>1. out \in Seq(Pieces) /\ job = <<>> /\ rcvd = Len(out) /\ pc = "closed" /\ link = "up"
    BY DEF TypeOK, Written, Viewed
  <2>2. Delimited(req) /\ req.path # <<>>
    BY DEF OneLine
  <2>3. out \o job = Asked(req)
    BY <2>1, <2>2 DEF AnswerAsAsked
  <2>4. out \o job = out
    BY <2>1, ConcatEmptySeq
  <2>5. \A w \in Seq(Pieces) : SubSeq(w, 1, Len(w)) = w
    BY SubSeqFull
  <2> QED
    BY <2>1, <2>3, <2>4, <2>5
<1> QED
  BY <1>1, <1>2, TypeCorrect, WrittenFirst, AnswersAsAsked, AllReadStep, ViewedStep, PTL DEF SafeSpec

-----------------------------------------------------------------------------
(* The death of the process is the death of the service, when it may die.   *)
LEMMA Crashing ==
  ASSUME State = "accepted", link # "up" \/ sent >= ReadSize,
         UNCHANGED <<req, sent, fin, link>>, pc' = "crashed"
  PROVE  Service!Die
<1>1. Said \cap {"reset", "long"} # {} /\ UNCHANGED Said
  BY DEF Said, Spoke
<1>2. pc # "crashed" /\ State' = "lost"
  BY DEF State
<1> QED
  BY <1>1, <1>2 DEF Service!Die, Service!Abandoned, Service!Open

(* A client that has not reset speaks, sends more or resets.                *)
LEMMA Speaking ==
  ASSUME TypeOK, UNCHANGED <<pc, req>>, State # "idle", link = "up", Said \subseteq Said',
         link' # "up" => Said' = Said \cup {"reset"}
  PROVE  Service!Next \/ UNCHANGED Service!vars
<1>1. "reset" \notin Said /\ Said' \subseteq {"spoken", "long", "reset"} /\ UNCHANGED State
  BY DEF Said, State
<1>2. (pc' # "crashed") = (pc # "crashed")
  OBVIOUS
<1> DEFINE news == Said' \ Said
<1>3. Service!Does("this", news)
  BY <1>1, <1>2 DEF Service!Does
<1>4. CASE link' = "up"
  <2>1. news \in SUBSET {"spoken", "long", "reading"}
    BY <1>1, <1>4 DEF Said
  <2>2. Service!Speak("this")
    BY <1>3, <2>1 DEF Service!Speak
  <2> QED
    BY <2>2 DEF Service!Next
<1>5. CASE link' # "up"
  <2>1. news = {"reset"}
    BY <1>1, <1>5
  <2>2. Service!Reset("this")
    BY <1>3, <2>1 DEF Service!Reset
  <2> QED
    BY <2>2 DEF Service!Next
<1> QED
  BY <1>4, <1>5

(* Every step of serving is a step of the service or a stutter. *)
LEMMA StepImplements ==
  TypeOK /\ Heard /\ ShortRequestHarmless' /\ [Next]_vars => [Service!Next]_(Service!vars)
<1> SUFFICES ASSUME TypeOK, Heard, ShortRequestHarmless', [Next]_vars
             PROVE  Service!Next \/ UNCHANGED Service!vars
  OBVIOUS
<1>a. ASSUME UNCHANGED <<State, Said>>, pc # "crashed" <=> pc' # "crashed"
      PROVE  UNCHANGED Service!vars
  <2>1. (pc # "crashed") = (pc' # "crashed")
    BY <1>a
  <2> QED
    BY <1>a, <2>1 DEF Service!vars
<1>b. UNCHANGED <<req, sent, fin>> /\ (link # "up" <=> link' # "up") => UNCHANGED Said
  BY DEF Said, Spoke
<1>c. ASSUME State = "accepted", Crash PROVE Service!Next
  <2>1. link # "up" \/ sent >= ReadSize
    BY <1>c DEF Crash, ShortRequestHarmless, client
  <2>2. Service!Die
    BY <1>c, <2>1, Crashing DEF Crash, client
  <2> QED
    BY <2>2 DEF Service!Next
<1> USE DEF client, server
<1>1. CASE Arrive
  <2>1. State = "idle" /\ State' = "queued" /\ UNCHANGED Said /\ pc # "crashed" /\ pc' # "crashed"
    BY <1>1, <1>b DEF Arrive, State
  <2>2. Service!Arrive("this")
    BY <2>1 DEF Service!Arrive, Service!Move
  <2> QED
    BY <2>2 DEF Service!Next
<1>2. CASE Accepted
  <2>1. State = "queued" /\ State' = "accepted" /\ UNCHANGED Said /\ pc # "crashed" /\ pc' # "crashed"
    BY <1>2, <1>b DEF Accepted, State
  <2>2. Service!Take("this")
    BY <2>1 DEF Service!Take, Service!Move
  <2> QED
    BY <2>2 DEF Service!Next
<1>3. CASE ReceiveRequest
  <2>1. State = "accepted"
    BY <1>3 DEF ReceiveRequest, State
  <2>2. CASE Crash
    BY <1>c, <2>1, <2>2
  <2>3. CASE pc' \in {"read", "respond"} /\ UNCHANGED client
    BY <1>a, <1>b, <2>1, <2>3 DEF State
  <2> QED
    BY <1>3, <2>2, <2>3 DEF ReceiveRequest, Received
<1>4. CASE Respond
  <2>1. State = "accepted"
    BY <1>4 DEF Respond, State
  <2>2. CASE Crash
    BY <1>c, <2>1, <2>2
  <2>3. CASE pc' = "send" /\ UNCHANGED client
    BY <1>a, <1>b, <2>1, <2>3 DEF State
  <2> QED
    BY <1>4, <2>2, <2>3 DEF Respond
<1>5. CASE SendData
  <2>1. State = "accepted"
    BY <1>5 DEF SendData, State
  <2>2. CASE Crash
    BY <1>c, <2>1, <2>2
  <2>3. CASE pc' = pc /\ UNCHANGED <<req, sent, fin>> /\ (link # "up" <=> link' # "up")
    BY <1>a, <1>b, <2>3 DEF State
  <2> QED
    BY <1>5, <2>2, <2>3 DEF SendData
<1>6. CASE Disconnect
  <2>1. /\ State = "accepted" /\ State' = "closed" /\ "spoken" \in Said /\ UNCHANGED Said
        /\ pc # "crashed" /\ pc' # "crashed"
    BY <1>6, <1>b DEF Disconnect, State, Heard, Said
  <2>2. Service!Answer("this")
    BY <2>1 DEF Service!Answer, Service!Move
  <2> QED
    BY <2>2 DEF Service!Next
<1>7. CASE ClientSend \/ ClientFin \/ ClientReset
  <2>1. UNCHANGED <<pc, req>> /\ State # "idle" /\ link = "up"
    BY <1>7 DEF ClientSend, ClientFin, ClientReset, Live, State
  <2>2. sent \in Nat /\ sent' \in Nat /\ sent <= sent'
    BY <1>7, StreamLength DEF TypeOK, ClientSend, ClientFin, ClientReset
  <2>3. Said \subseteq Said'
    BY <1>7, <2>1, <2>2, SaidKept DEF Said
  <2>4. link' # "up" => Said' = Said \cup {"reset"}
    BY <1>7, <2>1 DEF ClientSend, ClientFin, ClientReset, Said, Spoke
  <2> QED
    BY <2>1, <2>3, <2>4, Speaking
<1>8. CASE ClientRead \/ ClientCut
  BY <1>8, <1>a, <1>b DEF ClientRead, ClientCut, State
<1>9. CASE UNCHANGED vars
  BY <1>9, <1>a, <1>b DEF vars, State
<1> QED
  BY <1>1, <1>2, <1>3, <1>4, <1>5, <1>6, <1>7, <1>8, <1>9 DEF Next, ServerStep

(* The connection is closed only once its client ended a line or its        *)
(* stream, and only a reset or a read's worth brings the process down.      *)
THEOREM Implementation == SafeSpec => ServesAsService
<1>1. Init => Heard
  BY DEF Init, Heard
<1>2. Init => Service!Init
  <2> SUFFICES ASSUME Init PROVE Service!Init
    OBVIOUS
  <2>1. Said = {}
    BY DEF Init, Said, Spoke
  <2> QED
    BY <2>1 DEF Init, Service!Init, State
<1> QED
  BY <1>1, <1>2, TypeCorrect, ShortRequestsHarmless, HeardStep, StepImplements, PTL
     DEF SafeSpec, ServesAsService, Service!SafeSpec
=============================================================================
