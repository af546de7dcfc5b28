----------------------------- MODULE BinExecProofs -----------------------------
(***************************************************************************)
(* Proofs about BinExec, for any set of handlers and temporary names, any  *)
(* number of writes of a program, and any bound on the failures.           *)
(***************************************************************************)
EXTENDS BinExec, SequenceTheorems, TLAPS

USE HandlersAssumption, NamesAssumption, ChunksAssumption

(* How far the child of a handler can be, given where the handler is, and   *)
(* which file the child writes.                                             *)
Children ==
    \A h \in Handlers :
        /\ pc[h] \in {"idle", "fork", "waitany"} => child[h] = "none"
        /\ pc[h] = "idle" => name[h] = NoName
        /\ pc[h] = "wait" => child[h] # "none"
        /\ pc[h] \in {"send", "sent", "closed"} => child[h] \in {"none", "reaped"}
        /\ pc[h] \in {"fork", "wait", "waitany", "send"} => name[h] \in Names
        /\ child[h] # "none" => name[h] \in Names
        /\ child[h] \in {"none", "forked"} => to[h] = NoName
        /\ child[h] \in {"none", "forked", "redirected", "failed"} => wrote[h] = 0
        /\ to[h] \in {NoName, name[h]}
        /\ to[h] # NoName => file[to[h]] # NoFile

(* Writing inside its bounds keeps a file a sequence of pieces in bounds.   *)
LEMMA WrittenType ==
  ASSUME NEW f \in Seq(Pieces), Len(f) <= Chunks, NEW i \in 1..Chunks, NEW x \in Pieces
  PROVE  Written(f, i, x) \in Seq(Pieces) /\ Len(Written(f, i, x)) <= Chunks
<1> DEFINE m == IF i > Len(f) THEN i ELSE Len(f)
<1>1. m \in Nat /\ m <= Chunks
  OBVIOUS
<1>2. Hole \in Pieces
  BY DEF Pieces
<1>3. \A k \in 1..m : (IF k = i THEN x ELSE IF k <= Len(f) THEN f[k] ELSE Hole) \in Pieces
  BY <1>1, <1>2
<1>4. Written(f, i, x) = [k \in 1..m |-> IF k = i THEN x ELSE IF k <= Len(f) THEN f[k] ELSE Hole]
  BY DEF Written
<1> HIDE DEF m
<1>5. Written(f, i, x) \in Seq(Pieces) /\ Len(Written(f, i, x)) = m
  BY <1>1, <1>3, <1>4, IsASeq
<1> QED
  BY <1>1, <1>5

(* A write of the child of h keeps the files typed, and no file is lost.    *)
LEMMA PutType ==
  ASSUME TypeOK, Children, NEW h \in Handlers, NEW i \in 1..Chunks, NEW x \in Pieces, Put(h, i, x)
  PROVE  /\ file' \in [Names -> Seq(Pieces) \cup {NoFile}]
         /\ \A n \in Names : file'[n] # NoFile => Len(file'[n]) <= Chunks
         /\ \A n \in Names : file[n] # NoFile => file'[n] # NoFile
<1>1. CASE to[h] = NoName
  BY <1>1 DEF Put, TypeOK
<1>2. CASE to[h] # NoName
  <2>1. to[h] \in Names /\ file[to[h]] \in Seq(Pieces) /\ Len(file[to[h]]) <= Chunks
    BY <1>2 DEF TypeOK, Children
  <2>2. /\ Written(file[to[h]], i, x) \in Seq(Pieces)
        /\ Len(Written(file[to[h]], i, x)) <= Chunks
    BY <2>1, WrittenType
  <2>3. file' = [file EXCEPT ![to[h]] = Written(file[to[h]], i, x)]
    BY <1>2 DEF Put
  <2>4. Written(file[to[h]], i, x) # NoFile
    BY <2>2, NoFileAssumption
  <2>5. /\ file \in [Names -> Seq(Pieces) \cup {NoFile}]
        /\ \A n \in Names : file[n] # NoFile => Len(file[n]) <= Chunks
    BY DEF TypeOK
  <2> QED
    BY <2>1, <2>2, <2>3, <2>4, <2>5
<1> QED
  BY <1>1, <1>2

(* The variables keep their types. *)
LEMMA TypeStep == TypeOK /\ Children /\ [Next]_vars => TypeOK'
<1> SUFFICES ASSUME TypeOK, Children, [Next]_vars PROVE TypeOK'
  OBVIOUS
<1> USE DEF Moves, Becomes, Fault
<1>a. /\ pc \in [Handlers -> {"idle", "fork", "wait", "waitany", "send", "sent", "closed"}]
      /\ name \in [Handlers -> Names \cup {NoName}]
      /\ child \in [Handlers -> ChildStates]
      /\ to \in [Handlers -> Names \cup {NoName}]
      /\ wrote \in [Handlers -> 0..Chunks]
      /\ copies \in [Handlers -> SUBSET Handlers]
      /\ pos \in [Handlers -> 0..Chunks]
      /\ faults \in 0..MaxFaults
  BY DEF TypeOK
<1>b. out \in [Handlers -> Seq(Pieces)]
  BY DEF TypeOK
<1>c. /\ file \in [Names -> Seq(Pieces) \cup {NoFile}]
      /\ \A n \in Names : file[n] # NoFile => Len(file[n]) <= Chunks
  BY DEF TypeOK
<1>1. ErrorPage \in Pieces /\ FilePage \in Pieces /\ LogLines \in Pieces
  BY DEF Pieces
<1>2. ASSUME NEW h \in Handlers, Accept(h) PROVE TypeOK'
  <2>1. out' \in [Handlers -> Seq(Pieces)]
    <3>1. <<FilePage>> \in Seq(Pieces)
      BY <1>1
    <3> QED
      BY <1>b, <1>2, <3>1 DEF Accept
  <2>3. name' \in [Handlers -> Names \cup {NoName}]
    BY <1>a, <1>2 DEF Accept
  <2>2. pc' \in [Handlers -> {"idle", "fork", "wait", "waitany", "send", "sent", "closed"}]
    BY <1>a, <1>2 DEF Accept
  <2> QED
    BY <1>2, <2>1, <2>2, <2>3 DEF Accept, TypeOK
<1>3. ASSUME NEW h \in Handlers, Fork(h) PROVE TypeOK'
  <2>1. OpenConnections \in SUBSET Handlers
    BY DEF OpenConnections
  <2>2. copies' \in [Handlers -> SUBSET Handlers]
    BY <1>a, <1>3, <2>1 DEF Fork
  <2>3. child' \in [Handlers -> ChildStates] /\ faults' \in 0..MaxFaults
    BY <1>a, <1>3 DEF Fork, ChildStates
  <2>4. pc' \in [Handlers -> {"idle", "fork", "wait", "waitany", "send", "sent", "closed"}]
    BY <1>a, <1>3 DEF Fork, ChildStates
  <2> QED
    BY <1>3, <2>2, <2>3, <2>4 DEF Fork, TypeOK
<1>4. ASSUME NEW h \in Handlers, Wait(h) PROVE TypeOK'
  BY <1>4 DEF Wait, TypeOK, ChildStates
<1>5. ASSUME NEW h \in Handlers, WaitAny(h) PROVE TypeOK'
  BY <1>5 DEF WaitAny, TypeOK, ChildStates
<1>6. ASSUME NEW h \in Handlers, Send(h) PROVE TypeOK'
  <2>1. name[h] \in Names
    BY <1>6 DEF Send, Children
  <2>2. file[name[h]] # NoFile => file[name[h]] \in Seq(Pieces) /\ Len(file[name[h]]) <= Chunks
    BY <1>c, <2>1
  <2>3. /\ pc' \in [Handlers -> {"idle", "fork", "wait", "waitany", "send", "sent", "closed"}]
        /\ pos' \in [Handlers -> 0..Chunks]
    <3>1. pc' \in [Handlers -> {"idle", "fork", "wait", "waitany", "send", "sent", "closed"}]
      BY <1>a, <1>6 DEF Send
    <3>2. CASE UNCHANGED pos
      BY <1>a, <3>1, <3>2
    <3>3. CASE file[name[h]] # NoFile /\ pos[h] < Len(file[name[h]]) /\ pos' = [pos EXCEPT ![h] = @ + 1]
      <4>1. Len(file[name[h]]) \in Nat
        BY <2>2, <3>3, LenProperties
      <4>2. pos[h] + 1 \in 0..Chunks
        BY <1>a, <2>2, <3>3, <4>1
      <4> QED
        BY <1>a, <3>1, <3>3, <4>2
    <3> QED
      BY <1>6, <3>2, <3>3 DEF Send
  <2>4. out' \in [Handlers -> Seq(Pieces)]
    <3>1. ASSUME file[name[h]] # NoFile, pos[h] < Len(file[name[h]])
          PROVE  file[name[h]][pos[h] + 1] \in Pieces
      BY <1>a, <2>2, <3>1, ElementOfSeq
    <3>2. \A x \in Pieces : Append(out[h], x) \in Seq(Pieces)
      BY <1>b
    <3> QED
      BY <1>1, <1>b, <1>6, <3>1, <3>2 DEF Send
  <2> QED
    BY <1>6, <2>3, <2>4 DEF Send, TypeOK
<1>7. ASSUME NEW h \in Handlers, Disconnect(h) PROVE TypeOK'
  BY <1>7 DEF Disconnect, TypeOK
<1>8. ASSUME NEW h \in Handlers, Redirect(h) PROVE TypeOK'
  <2>1. name[h] \in Names
    BY <1>8 DEF Redirect, Children
  <2>2. to' \in [Handlers -> Names \cup {NoName}] /\ faults' \in 0..MaxFaults
    BY <1>a, <1>8, <2>1 DEF Redirect
  <2>3. /\ file' \in [Names -> Seq(Pieces) \cup {NoFile}]
        /\ \A n \in Names : file'[n] # NoFile => Len(file'[n]) <= Chunks
    <3>1. <<>> \in Seq(Pieces) /\ Len(<<>>) = 0
      BY EmptySeq
    <3>2. CASE file' = [file EXCEPT ![name[h]] = <<>>]
      BY <1>c, <2>1, <3>1, <3>2
    <3>3. CASE UNCHANGED file
      BY <1>c, <3>3
    <3> QED
      BY <1>8, <3>2, <3>3 DEF Redirect
  <2>4. child' \in [Handlers -> ChildStates]
    BY <1>a, <1>8 DEF Redirect, ChildStates
  <2> QED
    BY <1>8, <2>2, <2>3, <2>4 DEF Redirect, TypeOK
<1>9. ASSUME NEW h \in Handlers, Execute(h) PROVE TypeOK'
  <2>1. child' \in [Handlers -> ChildStates] /\ faults' \in 0..MaxFaults
    BY <1>a, <1>9 DEF Execute, ChildStates
  <2> QED
    BY <1>9, <2>1 DEF Execute, TypeOK
<1>10. ASSUME NEW h \in Handlers, Run(h) PROVE TypeOK'
  <2>1. CASE wrote[h] < Chunks
    <3>1. wrote[h] + 1 \in 1..Chunks /\ Chunk(h, wrote[h] + 1) \in Pieces
      BY <1>a, <2>1 DEF Pieces
    <3>2. wrote' = [wrote EXCEPT ![h] = @ + 1] /\ Put(h, wrote[h] + 1, Chunk(h, wrote[h] + 1))
      BY <1>10, <2>1 DEF Run
    <3>3. /\ file' \in [Names -> Seq(Pieces) \cup {NoFile}]
          /\ \A n \in Names : file'[n] # NoFile => Len(file'[n]) <= Chunks
      BY <3>1, <3>2, PutType
    <3>4. wrote' \in [Handlers -> 0..Chunks]
      BY <1>a, <3>1, <3>2
    <3> QED
      BY <1>10, <2>1, <3>3, <3>4 DEF Run, TypeOK
  <2>2. CASE ~(wrote[h] < Chunks)
    BY <1>10, <2>2 DEF Run, TypeOK, ChildStates
  <2> QED
    BY <2>1, <2>2
<1>11. ASSUME NEW h \in Handlers, GoOn(h) PROVE TypeOK'
  <2>1. /\ file' \in [Names -> Seq(Pieces) \cup {NoFile}]
        /\ \A n \in Names : file'[n] # NoFile => Len(file'[n]) <= Chunks
    <3>1. CASE h = Main
      BY <1>c, <1>11, <3>1 DEF GoOn
    <3>2. CASE h # Main
      <4>1. Put(h, 1, LogLines)
        BY <1>11, <3>2 DEF GoOn
      <4>2. 1 \in 1..Chunks
        OBVIOUS
      <4> QED
        BY <1>1, <4>1, <4>2, PutType
    <3> QED
      BY <3>1, <3>2
  <2>2. out' \in [Handlers -> Seq(Pieces)]
    <3>1. Append(out[h], ErrorPage) \in Seq(Pieces)
      BY <1>1, <1>b
    <3> QED
      BY <1>b, <1>11, <3>1 DEF GoOn
  <2>3. child' \in [Handlers -> ChildStates] /\ copies' \in [Handlers -> SUBSET Handlers]
    <3>1. CASE h = Main
      <4>1. copies[h] \ {h} \in SUBSET Handlers
        BY <1>a
      <4>2. copies' = [copies EXCEPT ![h] = @ \ {h}] /\ child' = [child EXCEPT ![h] = "rogue"]
        BY <1>11, <3>1 DEF GoOn
      <4>3. copies' \in [Handlers -> SUBSET Handlers]
        BY <1>a, <4>1, <4>2
      <4> QED
        BY <1>a, <4>2, <4>3 DEF ChildStates
    <3>2. CASE h # Main
      BY <1>a, <1>11, <3>2 DEF GoOn, ChildStates
    <3> QED
      BY <3>1, <3>2
  <2> QED
    BY <1>11, <2>1, <2>2, <2>3 DEF GoOn, TypeOK
<1>12. CASE UNCHANGED vars
  BY <1>12 DEF vars, TypeOK
<1> QED
  BY <1>2, <1>3, <1>4, <1>5, <1>6, <1>7, <1>8, <1>9, <1>10, <1>11, <1>12
     DEF Next, HandlerStep, ChildStep

(* The relations between handlers, children and files are kept. *)
LEMMA ChildrenStep == TypeOK /\ Children /\ [Next]_vars => Children'
<1> SUFFICES ASSUME TypeOK, Children, [Next]_vars PROVE Children'
  OBVIOUS
<1> USE DEF TypeOK, Children, Moves, Becomes, Fault
<1>1. ASSUME NEW h \in Handlers, Accept(h) PROVE Children'
  BY <1>1 DEF Accept
<1>2. ASSUME NEW h \in Handlers, Fork(h) PROVE Children'
  BY <1>2 DEF Fork
<1>3. ASSUME NEW h \in Handlers, Wait(h) PROVE Children'
  BY <1>3 DEF Wait
<1>4. ASSUME NEW h \in Handlers, WaitAny(h) PROVE Children'
  BY <1>4 DEF WaitAny
<1>5. ASSUME NEW h \in Handlers, Send(h) PROVE Children'
  BY <1>5 DEF Send
<1>6. ASSUME NEW h \in Handlers, Disconnect(h) PROVE Children'
  BY <1>6 DEF Disconnect
<1>7. ASSUME NEW h \in Handlers, Redirect(h) PROVE Children'
  <2>1. <<>> # NoFile
    BY EmptySeq, NoFileAssumption
  <2> QED
    BY <1>7, <2>1 DEF Redirect
<1>8. ASSUME NEW h \in Handlers, Execute(h) PROVE Children'
  BY <1>8 DEF Execute
<1>9. ASSUME NEW h \in Handlers, Run(h) PROVE Children'
  <2>1. CASE wrote[h] < Chunks
    <3>1. wrote[h] + 1 \in 1..Chunks /\ Chunk(h, wrote[h] + 1) \in Pieces
      BY <2>1 DEF Pieces
    <3>2. \A n \in Names : file[n] # NoFile => file'[n] # NoFile
      BY <1>9, <2>1, <3>1, PutType DEF Run
    <3> QED
      BY <1>9, <2>1, <3>2 DEF Run
  <2>2. CASE ~(wrote[h] < Chunks)
    BY <1>9, <2>2 DEF Run
  <2> QED
    BY <2>1, <2>2
<1>10. ASSUME NEW h \in Handlers, GoOn(h) PROVE Children'
  <2>1. \A n \in Names : file[n] # NoFile => file'[n] # NoFile
    <3>1. LogLines \in Pieces
      BY DEF Pieces
    <3> QED
      BY <1>10, <3>1, PutType DEF GoOn
  <2> QED
    BY <1>10, <2>1 DEF GoOn
<1>11. CASE UNCHANGED vars
  BY <1>11 DEF vars
<1> QED
  BY <1>1, <1>2, <1>3, <1>4, <1>5, <1>6, <1>7, <1>8, <1>9, <1>10, <1>11
     DEF Next, HandlerStep, ChildStep

(* No handler has a child when the server starts.                          *)
LEMMA Start == Init => TypeOK /\ Children
BY DEF Init, TypeOK, Children, ChildStates

(* Types and the relation of handlers to their children always hold.       *)
LEMMA Basics == SafeSpec => [](TypeOK /\ Children)
BY Start, TypeStep, ChildrenStep, PTL DEF SafeSpec

(* Every reachable state is well typed. *)
THEOREM TypeCorrect == SafeSpec => []TypeOK
BY Basics, PTL

(* No handler sends a file before its program ended and was collected, even *)
(* if another handler's wait collected it.                                  *)
THEOREM NothingSentEarly == SafeSpec => []SentAfterExit
<1>1. Children => SentAfterExit
  BY DEF Children, SentAfterExit
<1> QED
  BY <1>1, Basics, PTL

-----------------------------------------------------------------------------
(* What the program of h has written after n writes. *)
Output(h, n) == [k \in 1..n |-> Chunk(h, k)]

(* The output of h has a file of its own. *)
Apart(h) == to[h] # NoName /\ NameOfItsOwn(h)

(* The program of h may still write, or has written everything. *)
Running(h) == child[h] \in {"redirected", "running"} \/ wrote[h] = Chunks

(* Such a file holds what the program wrote. *)
Filled == \A h \in Handlers : Apart(h) /\ Running(h) => file[to[h]] = Output(h, wrote[h])

(* Nothing is sent before the program ended, and then what is sent is the   *)
(* part of the file read so far.                                            *)
Copied ==
    \A h \in Handlers :
        /\ pc[h] \notin {"send", "sent", "closed"} => pos[h] = 0
        /\ /\ pc[h] \in {"idle", "fork", "wait", "waitany"}
           /\ child[h] \in {"none", "forked", "redirected", "running", "failed"} \/ wrote[h] = Chunks
           => out[h] = <<>>
        /\ pc[h] = "send" /\ Apart(h) /\ wrote[h] = Chunks => out[h] = Output(h, pos[h])
        /\ pc[h] \in {"sent", "closed"} /\ Apart(h) /\ wrote[h] = Chunks
               => out[h] = Output(h, Chunks)

(* The outputs are sequences of pieces; a write behind one extends it.      *)
LEMMA OutputExtended ==
  ASSUME NEW h \in Handlers, NEW n \in Nat
  PROVE  /\ Len(Output(h, n)) = n
         /\ \A k \in 1..n : Output(h, n)[k] = Chunk(h, k)
         /\ Output(h, n) \in Seq({Chunk(h, k) : k \in 1..n})
         /\ Written(Output(h, n), n + 1, Chunk(h, n + 1)) = Output(h, n + 1)
         /\ Append(Output(h, n), Chunk(h, n + 1)) = Output(h, n + 1)
<1>1. Output(h, n) \in Seq({Chunk(h, k) : k \in 1..n}) /\ Len(Output(h, n)) = n
  BY IsASeq DEF Output
<1>2. \A k \in 1..n : Output(h, n)[k] = Chunk(h, k)
  BY DEF Output
<1>3. Written(Output(h, n), n + 1, Chunk(h, n + 1)) = Output(h, n + 1)
  <2>1. (IF n + 1 > Len(Output(h, n)) THEN n + 1 ELSE Len(Output(h, n))) = n + 1
    BY <1>1
  <2>2. \A k \in 1..(n + 1) :
           (IF k = n + 1 THEN Chunk(h, n + 1)
            ELSE IF k <= Len(Output(h, n)) THEN Output(h, n)[k] ELSE Hole) = Chunk(h, k)
    BY <1>1, <1>2
  <2> QED
    BY <2>1, <2>2 DEF Written, Output
<1>4. Append(Output(h, n), Chunk(h, n + 1)) = Output(h, n + 1)
  <2>1. /\ Output(h, n + 1) \in Seq({Chunk(h, k) : k \in 1..(n + 1)})
        /\ Len(Output(h, n + 1)) = n + 1
        /\ \A k \in 1..(n + 1) : Output(h, n + 1)[k] = Chunk(h, k)
    BY IsASeq DEF Output
  <2>2. Output(h, n) \in Seq({Chunk(h, k) : k \in 1..(n + 1)})
    BY IsASeq DEF Output
  <2>3. Chunk(h, n + 1) \in {Chunk(h, k) : k \in 1..(n + 1)}
    OBVIOUS
  <2>4. /\ Append(Output(h, n), Chunk(h, n + 1)) \in Seq({Chunk(h, k) : k \in 1..(n + 1)})
        /\ Len(Append(Output(h, n), Chunk(h, n + 1))) = n + 1
        /\ \A k \in 1..(n + 1) : Append(Output(h, n), Chunk(h, n + 1))[k] = Chunk(h, k)
    <3>1. \A k \in 1..(n + 1) :
             Append(Output(h, n), Chunk(h, n + 1))[k] = IF k <= n THEN Output(h, n)[k] ELSE Chunk(h, n + 1)
      BY <1>1, <2>2, <2>3, AppendProperties
    <3> QED
      BY <1>1, <1>2, <2>2, <2>3, <3>1, AppendProperties
  <2> QED
    BY <2>1, <2>4, SeqEqual
<1> QED
  BY <1>1, <1>2, <1>3, <1>4

(* Names never change once they are given, so a name that is its own was so *)
(* before, and only the child of its handler writes to the file.            *)
LEMMA NamesKept ==
  ASSUME TypeOK, Children, [Next]_vars, NEW h \in Handlers, name[h] # NoName
  PROVE  name'[h] = name[h] /\ (NameOfItsOwn(h)' => NameOfItsOwn(h))
<1>1. CASE UNCHANGED name
  BY <1>1 DEF NameOfItsOwn
<1>2. ASSUME NEW g \in Handlers, Accept(g) PROVE name'[h] = name[h] /\ (NameOfItsOwn(h)' => NameOfItsOwn(h))
  <2>1. name[g] = NoName /\ g # h
    BY <1>2 DEF Accept, Moves, Children
  <2> QED
    BY <1>2, <2>1 DEF Accept, NameOfItsOwn, TypeOK
<1> QED
  BY <1>1, <1>2 DEF Next, HandlerStep, ChildStep, Fork, Wait, WaitAny, Send, Disconnect,
     Redirect, Execute, Run, GoOn, vars

(* What is put into the file of another handler leaves that of a handler    *)
(* with a name of its own as it is.                                        *)
LEMMA OtherFile ==
  ASSUME TypeOK, Children, NEW h \in Handlers, NEW g \in Handlers \ {h},
         NameOfItsOwn(h), to[h] # NoName, NEW i, NEW x, Put(g, i, x)
  PROVE  file'[to[h]] = file[to[h]]
BY DEF Children, NameOfItsOwn, TypeOK, Put

(* Files of their own hold the output of their programs. *)
LEMMA FilledStep == TypeOK /\ Children /\ Filled /\ [Next]_vars => Filled'
<1> SUFFICES ASSUME TypeOK, Children, Filled, [Next]_vars,
                    NEW h \in Handlers, Apart(h)', Running(h)'
             PROVE  file'[to'[h]] = Output(h, wrote'[h])
  BY DEF Filled
<1> USE DEF Moves, Becomes, Fault, Apart, Running
<1>a. /\ child \in [Handlers -> ChildStates] /\ wrote \in [Handlers -> 0..Chunks]
      /\ to \in [Handlers -> Names \cup {NoName}]
  BY DEF TypeOK
<1>b. /\ child[h] \in {"none", "forked"} => to[h] = NoName
      /\ child[h] \in {"none", "forked", "redirected", "failed"} => wrote[h] = 0
      /\ to[h] # NoName => to[h] = name[h]
      /\ child[h] # "none" => name[h] \in Names
  BY DEF Children
<1>c. name[h] # NoName => NameOfItsOwn(h)
  BY NamesKept
<1>1. CASE UNCHANGED <<to, wrote, file>> /\ (child'[h] \in {"redirected", "running"} => child[h] \in {"redirected", "running"})
  BY <1>1, <1>b, <1>c DEF Filled
<1>2. ASSUME NEW g \in Handlers, Accept(g) \/ Fork(g) \/ Wait(g) \/ WaitAny(g) \/ Send(g) \/ Disconnect(g) \/ Execute(g)
      PROVE  file'[to'[h]] = Output(h, wrote'[h])
  <2>1. UNCHANGED <<to, wrote, file>>
    BY <1>2 DEF Accept, Fork, Wait, WaitAny, Send, Disconnect, Execute
  <2>2. child'[h] \in {"redirected", "running"} => child[h] \in {"redirected", "running"}
    BY <1>2, <1>a DEF Accept, Fork, Wait, WaitAny, Send, Disconnect, Execute
  <2> QED
    BY <1>1, <2>1, <2>2
<1>3. ASSUME NEW g \in Handlers, Redirect(g) PROVE file'[to'[h]] = Output(h, wrote'[h])
  <2>1. CASE g = h
    <3>1. wrote'[h] = 0 /\ name[h] \in Names
      BY <1>3, <2>1, <1>b DEF Redirect
    <3>2. to'[h] = name[h] /\ file' = [file EXCEPT ![name[h]] = <<>>]
      BY <1>3, <2>1, <1>a, <1>b DEF Redirect
    <3>3. Output(h, 0) = <<>>
      BY DEF Output
    <3> QED
      BY <3>1, <3>2, <3>3 DEF TypeOK
  <2>2. CASE g # h
    <3>1. to'[h] = to[h] /\ wrote'[h] = wrote[h] /\ child'[h] = child[h]
      BY <1>3, <2>2, <1>a DEF Redirect
    <3>2. to[h] = name[h] /\ name[h] \in Names /\ name[g] # name[h]
      BY <3>1, <2>2, <1>b, <1>c DEF NameOfItsOwn
    <3>3. file'[to[h]] = file[to[h]]
      BY <1>3, <3>2 DEF Redirect, TypeOK
    <3> QED
      BY <3>1, <3>2, <3>3, <1>c DEF Filled
  <2> QED
    BY <2>1, <2>2
<1>4. ASSUME NEW g \in Handlers, Run(g) PROVE file'[to'[h]] = Output(h, wrote'[h])
  <2>0. to' = to
    BY <1>4 DEF Run
  <2>1. CASE wrote[g] < Chunks /\ g = h
    <3>1. to[h] = name[h] /\ name[h] \in Names /\ NameOfItsOwn(h)
      BY <1>b, <1>c, <2>0
    <3>2. file[to[h]] = Output(h, wrote[h])
      BY <1>4, <2>0, <2>1, <3>1 DEF Run, Filled
    <3>3. file' = [file EXCEPT ![to[h]] = Written(Output(h, wrote[h]), wrote[h] + 1, Chunk(h, wrote[h] + 1))]
      BY <1>4, <2>0, <2>1, <3>2 DEF Run, Put
    <3>4. wrote[h] \in Nat /\ wrote'[h] = wrote[h] + 1
      BY <1>4, <1>a, <2>1 DEF Run
    <3>5. Written(Output(h, wrote[h]), wrote[h] + 1, Chunk(h, wrote[h] + 1)) = Output(h, wrote'[h])
      BY <3>4, OutputExtended
    <3> QED
      BY <2>0, <3>1, <3>3, <3>5 DEF TypeOK
  <2>2. CASE wrote[g] < Chunks /\ g # h
    <3>1. to[h] = name[h] /\ name[h] \in Names /\ NameOfItsOwn(h)
      BY <1>b, <1>c, <2>0
    <3>2. Put(g, wrote[g] + 1, Chunk(g, wrote[g] + 1)) /\ wrote'[h] = wrote[h] /\ child' = child
      BY <1>4, <1>a, <2>2 DEF Run
    <3>3. file'[to[h]] = file[to[h]]
      BY <2>0, <2>2, <3>1, <3>2, OtherFile
    <3> QED
      BY <2>0, <3>1, <3>2, <3>3 DEF Filled
  <2>3. CASE ~(wrote[g] < Chunks)
    BY <1>1, <1>4, <1>a, <2>3 DEF Run
  <2> QED
    BY <2>1, <2>2, <2>3
<1>5. ASSUME NEW g \in Handlers, GoOn(g) PROVE file'[to'[h]] = Output(h, wrote'[h])
  <2>0. to' = to /\ wrote' = wrote
    BY <1>5 DEF GoOn
  <2>1. g # h
    BY <1>5, <1>a, <1>b, <2>0 DEF GoOn
  <2>2. child'[h] = child[h]
    BY <1>5, <2>1, <1>a DEF GoOn
  <2>3. to[h] = name[h] /\ name[h] \in Names /\ NameOfItsOwn(h)
    BY <1>b, <1>c, <2>0
  <2>4. file'[to[h]] = file[to[h]]
    BY <1>5, <2>1, <2>0, <2>3, OtherFile DEF GoOn
  <2> QED
    BY <2>0, <2>2, <2>3, <2>4 DEF Filled
<1>6. CASE UNCHANGED vars
  BY <1>1, <1>6 DEF vars
<1> QED
  BY <1>2, <1>3, <1>4, <1>5, <1>6 DEF Next, HandlerStep, ChildStep

(* What Copied says of one handler. *)
CopiedBy(h) ==
    /\ pc[h] \notin {"send", "sent", "closed"} => pos[h] = 0
    /\ /\ pc[h] \in {"idle", "fork", "wait", "waitany"}
       /\ child[h] \in {"none", "forked", "redirected", "running", "failed"} \/ wrote[h] = Chunks
       => out[h] = <<>>
    /\ pc[h] = "send" /\ Apart(h) /\ wrote[h] = Chunks => out[h] = Output(h, pos[h])
    /\ pc[h] \in {"sent", "closed"} /\ Apart(h) /\ wrote[h] = Chunks
           => out[h] = Output(h, Chunks)

(* What is sent is the part of the own output that was read. *)
LEMMA CopiedStep == TypeOK /\ Children /\ Filled /\ Copied /\ [Next]_vars => Copied'
<1> SUFFICES ASSUME TypeOK, Children, Filled, Copied, [Next]_vars, NEW h \in Handlers
             PROVE  CopiedBy(h)'
  BY DEF Copied, CopiedBy
<1> USE DEF Moves, Becomes, Fault, Apart
<1>a. /\ pc \in [Handlers -> {"idle", "fork", "wait", "waitany", "send", "sent", "closed"}]
      /\ child \in [Handlers -> ChildStates]
      /\ wrote \in [Handlers -> 0..Chunks] /\ pos \in [Handlers -> 0..Chunks]
      /\ to \in [Handlers -> Names \cup {NoName}]
  BY DEF TypeOK
<1>b. DOMAIN out = Handlers /\ out = [g \in Handlers |-> out[g]]
  BY DEF TypeOK
<1>c. /\ pc[h] \in {"idle", "fork", "waitany"} => child[h] = "none"
      /\ pc[h] \in {"send", "sent", "closed"} => child[h] \in {"none", "reaped"}
      /\ child[h] \in {"none", "forked"} => to[h] = NoName
      /\ child[h] \in {"none", "forked", "redirected", "failed"} => wrote[h] = 0
      /\ to[h] # NoName => to[h] = name[h]
      /\ child[h] # "none" => name[h] \in Names
  BY DEF Children
<1>d. CopiedBy(h)
  BY DEF Copied, CopiedBy
<1>e. to'[h] = to[h] /\ Apart(h)' => Apart(h)
  BY <1>c, NamesKept
<1>1. CASE /\ pc'[h] = pc[h] /\ pos'[h] = pos[h] /\ out'[h] = out[h] /\ to'[h] = to[h] /\ wrote'[h] = wrote[h]
           /\ child'[h] = child[h] \/ child'[h] = "reaped"
  BY <1>1, <1>d, <1>e DEF CopiedBy
<1>2. ASSUME NEW g \in Handlers \ {h}, Accept(g) \/ HandlerStep(g) \/ ChildStep(g) PROVE CopiedBy(h)'
  <2>1. /\ pc'[h] = pc[h] /\ pos'[h] = pos[h] /\ out'[h] = out[h] /\ to'[h] = to[h] /\ wrote'[h] = wrote[h]
    BY <1>2, <1>a, <1>b DEF HandlerStep, ChildStep, Accept, Fork, Wait, WaitAny, Send, Disconnect,
       Redirect, Execute, Run, GoOn
  <2>2. child'[h] = child[h] \/ child'[h] = "reaped"
    BY <1>2, <1>a DEF HandlerStep, ChildStep, Accept, Fork, Wait, WaitAny, Send, Disconnect,
       Redirect, Execute, Run, GoOn
  <2> QED
    BY <1>1, <2>1, <2>2
<1>3. CASE Accept(h)
  <2>1. pc[h] = "idle" /\ child'[h] = "none" /\ to'[h] = NoName /\ pos'[h] = 0
    BY <1>3, <1>c, <1>d DEF Accept, CopiedBy
  <2>2. pc'[h] = "sent" \/ (pc'[h] = "fork" /\ out'[h] = out[h])
    BY <1>3, <1>a DEF Accept
  <2> QED
    BY <2>1, <2>2, <1>c, <1>d DEF CopiedBy
<1>4. CASE Fork(h)
  <2>1. /\ pc[h] = "fork" /\ child[h] = "none" /\ pc'[h] \in {"wait", "waitany"}
        /\ out'[h] = out[h] /\ pos'[h] = pos[h]
    BY <1>4, <1>a, <1>c DEF Fork
  <2> QED
    BY <2>1, <1>d DEF CopiedBy
<1>5. CASE Wait(h)
  <2>1. /\ pc[h] = "wait" /\ pc'[h] = "send"
        /\ out'[h] = out[h] /\ pos'[h] = pos[h] /\ to'[h] = to[h] /\ wrote'[h] = wrote[h]
    BY <1>5, <1>a DEF Wait
  <2>2. wrote[h] = Chunks => out[h] = Output(h, pos[h])
    BY <2>1, <1>d DEF CopiedBy, Output
  <2> QED
    BY <2>1, <2>2 DEF CopiedBy
<1>6. CASE WaitAny(h)
  <2>1. pc[h] = "waitany" /\ pc'[h] = "send" /\ to'[h] = to[h] /\ pos'[h] = pos[h]
    BY <1>6, <1>a DEF WaitAny
  <2> QED
    BY <2>1, <1>c DEF CopiedBy
<1>7. CASE Send(h)
  <2>1. /\ pc[h] = "send" /\ to'[h] = to[h] /\ wrote'[h] = wrote[h] /\ pc'[h] \in {"send", "sent"}
    BY <1>7, <1>a DEF Send
  <2>2. ASSUME Apart(h)', wrote[h] = Chunks
        PROVE  /\ pc'[h] = "send" => out'[h] = Output(h, pos'[h])
               /\ pc'[h] = "sent" => out'[h] = Output(h, Chunks)
    <3>1. Apart(h) /\ out[h] = Output(h, pos[h]) /\ pos[h] \in 0..Chunks
      BY <1>a, <1>d, <1>e, <2>1, <2>2 DEF CopiedBy
    <3>2. to[h] = name[h] /\ name[h] \in Names /\ file[name[h]] = Output(h, Chunks)
      BY <1>a, <1>c, <2>2, <3>1 DEF Filled, Running
    <3>3. file[name[h]] # NoFile
      BY <3>1, <3>2 DEF Children
    <3>0. Chunks \in Nat /\ Len(Output(h, Chunks)) = Chunks
      BY OutputExtended
    <3>4. CASE pos[h] < Len(file[name[h]])
      <4>1. pos[h] + 1 \in 1..Chunks /\ pos[h] \in Nat
        BY <3>0, <3>1, <3>2, <3>4
      <4>2. file[name[h]][pos[h] + 1] = Chunk(h, pos[h] + 1)
        BY <3>2, <4>1, OutputExtended
      <4>3. /\ pc'[h] = "send" /\ pos'[h] = pos[h] + 1
            /\ out'[h] = Append(out[h], file[name[h]][pos[h] + 1])
        BY <1>7, <1>a, <1>b, <3>3, <3>4 DEF Send
      <4> QED
        BY <3>1, <4>1, <4>2, <4>3, OutputExtended
    <3>5. CASE ~(pos[h] < Len(file[name[h]]))
      <4>1. pos[h] = Chunks
        BY <3>0, <3>1, <3>2, <3>5
      <4>2. pc'[h] = "sent" /\ out'[h] = out[h]
        BY <1>7, <1>a, <1>b, <3>3, <3>5 DEF Send
      <4> QED
        BY <3>1, <4>1, <4>2
    <3> QED
      BY <3>4, <3>5
  <2> QED
    BY <2>1, <2>2 DEF CopiedBy
<1>8. CASE Disconnect(h)
  <2>1. /\ pc[h] = "sent" /\ pc'[h] = "closed"
        /\ out'[h] = out[h] /\ to'[h] = to[h] /\ wrote'[h] = wrote[h]
    BY <1>8, <1>a DEF Disconnect
  <2> QED
    BY <2>1, <1>d, <1>e DEF CopiedBy
<1>9. CASE ChildStep(h)
  <2>1. /\ child[h] \in {"forked", "redirected", "running", "failed"}
        /\ pc' = pc /\ pos' = pos
    BY <1>9 DEF ChildStep, Redirect, Execute, Run, GoOn
  <2>2. pc[h] = "wait"
    BY <2>1, <1>a, <1>c
  <2>3. CASE GoOn(h)
    BY <2>1, <2>2, <2>3, <1>a, <1>c, <1>d DEF GoOn, CopiedBy
  <2>4. CASE Redirect(h) \/ Execute(h) \/ Run(h)
    <3>1. out' = out
      BY <2>4 DEF Redirect, Execute, Run
    <3> QED
      BY <2>1, <2>2, <3>1, <1>d DEF CopiedBy
  <2> QED
    BY <1>9, <2>3, <2>4 DEF ChildStep
<1>10. CASE UNCHANGED vars
  BY <1>1, <1>10 DEF vars
<1> QED
  BY <1>2, <1>3, <1>4, <1>5, <1>6, <1>7, <1>8, <1>9, <1>10 DEF Next, HandlerStep

(* A client whose program ran, with a temporary name of its own, is sent    *)
(* exactly what the program wrote: no byte of another handler's program, no *)
(* log line, no error page, whatever fails elsewhere.                       *)
THEOREM OutputsApart == SafeSpec => []OwnOutput
<1>1. Init => Filled /\ Copied
  BY DEF Init, Filled, Copied, Apart
<1>2. Copied => OwnOutput
  BY DEF Copied, Apart, Output, OwnOutput
<1> QED
  BY <1>1, <1>2, Basics, FilledStep, CopiedStep, PTL DEF SafeSpec

=============================================================================
