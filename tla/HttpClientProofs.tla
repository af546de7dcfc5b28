---------------------------- MODULE HttpClientProofs ----------------------------
(***************************************************************************)
(* Proofs about HttpClient, for any documents, any set of tasks and any     *)
(* number of faults.                                                       *)
(***************************************************************************)
EXTENDS HttpClient, SequenceTheorems, TLAPS

(* A task that did not overlap is the only one that runs.                   *)
Alone == \A t \in Tasks \ overlapped : t \in Busy => Busy = {t}

(* What such a task finds in clientGlobal is its own.                       *)
Named ==
    \A t \in Busy \ overlapped :
        /\ pc[t] # "begin" => port = t
        /\ pc[t] \notin {"begin", "parse"} => hostname = t
        /\ pc[t] \in {"open", "bytes", "lex", "write"} => lastpath = t

(* Blocks are freed once, by the task they belong to or the one after it.   *)
Early == {"new", "refused", "begin", "parse", "fetch", "free", "path"}
Memory ==
    overlapped = {} =>
        /\ \A t \in Tasks :
              /\ Host(t) \in freed => pc[t] \in {"forget", "done", "ended"}
              /\ Path(t) \in freed => pc[t] \in {"done", "ended"}
              /\ lastpath = t => pc[t] \notin Early
        /\ (\A t \in Tasks : pc[t] # "path") /\ lastpath # None => Path(lastpath) \notin freed

(* Data that is not there although its length is not zero was lost.         *)
Lost == \A t \in Tasks : NoBytes(answer[t]) => "reset" \in faults

(* What a read returns is the beginning of what was sent, and all of it if   *)
(* nothing failed; only a reset leaves no data and a length.                *)
LEMMA ReceivedParts ==
    ASSUME NEW S, NEW whole \in Seq(S), NEW a \in Received(whole)
    PROVE  /\ a.null \in BOOLEAN /\ a.parts \in Seq(S) /\ a.faults \in SUBSET {"cut", "reset"}
           /\ Len(a.parts) <= Len(whole) /\ \A n \in 1..Len(a.parts) : a.parts[n] = whole[n]
           /\ NoBytes(a) => "reset" \in a.faults
           /\ a.faults = {} => a.parts = whole
<1>1. CASE a = [null |-> FALSE, parts |-> whole, faults |-> {}]
  BY <1>1 DEF NoBytes
<1>2. ASSUME NEW n \in 0..Len(whole), a.parts = SubSeq(whole, 1, n)
      PROVE  /\ a.parts \in Seq(S) /\ Len(a.parts) <= Len(whole)
             /\ \A k \in 1..Len(a.parts) : a.parts[k] = whole[k]
  BY <1>2
<1>3. ASSUME NEW n \in 0..(Len(whole) - 1),
             a = [null |-> FALSE, parts |-> SubSeq(whole, 1, n), faults |-> {"cut"}]
      PROVE  n \in 0..Len(whole) /\ a.parts = SubSeq(whole, 1, n)
             /\ a.null = FALSE /\ a.faults = {"cut"}
  BY <1>3
<1>4. ASSUME NEW n \in {0, Len(whole)},
             a = [null |-> TRUE, parts |-> SubSeq(whole, 1, n), faults |-> {"reset"}]
      PROVE  n \in 0..Len(whole) /\ a.parts = SubSeq(whole, 1, n)
             /\ a.null = TRUE /\ a.faults = {"reset"}
  BY <1>4
<1> QED
  BY <1>1, <1>2, <1>3, <1>4 DEF Received, NoBytes

(* What the rules do and which conditions they leave.                       *)
LEMMA ActType ==
    ASSUME NEW c \in Conditions, NEW p \in Parts
    PROVE  Act(c, p) \in Acts /\ Following(c, p) \in Conditions
<1>1. Act(c, p) \in Acts
  BY DEF Act, Acts
<1>2. Following(c, p) \in Conditions
  BY DEF Following, Conditions
<1> QED
  BY <1>1, <1>2

(* The part that comes next and what is done with it.                       *)
LEMMA PartType ==
    ASSUME TypeOK, NEW t \in Tasks, MoreParts(t)
    PROVE  /\ Part(t) \in Parts /\ Place(t) \in Nat \ {0}
           /\ ActAt(t) \in Acts /\ Following(start, Part(t)) \in Conditions
<1>1. Place(t) \in 1..Len(answer[t].parts) /\ start \in Conditions
  BY DEF MoreParts, Place, TypeOK
<1>2. Part(t) \in Parts
  BY <1>1 DEF Part, TypeOK
<1> QED
  BY <1>1, <1>2, ActType DEF ActAt

(* What is written is added to the file of its task.                        *)
LEMMA WriteType ==
    ASSUME TypeOK, NEW t \in Tasks, MoreParts(t), NEW h \in TaskOrNone, NEW l \in TaskOrNone,
           Write(t, h, l)
    PROVE  /\ files' \in [Tasks -> Seq([in : Conditions, act : Acts, host : TaskOrNone, path : TaskOrNone])]
           /\ start' \in Conditions
<1> DEFINE R == [in : Conditions, act : Acts, host : TaskOrNone, path : TaskOrNone]
           w == Written(start, ActAt(t), h, l)
<1>1. w \in R
  BY PartType DEF Written, TypeOK
<1>2. files \in [Tasks -> Seq(R)]
  BY DEF TypeOK
<1>3. files' = [files EXCEPT ![t] = Append(files[t], w)]
  BY <1>2 DEF Write
<1> HIDE DEF R, w
<1>4. Append(files[t], w) \in Seq(R)
  BY <1>1, <1>2
<1>5. files' \in [Tasks -> Seq(R)]
  BY <1>2, <1>3, <1>4
<1> QED
  BY <1>5, PartType DEF R, Write

(* Every step keeps the types.                                            *)
LEMMA TypeStep == TypeOK /\ [Next]_vars => TypeOK'
<1> SUFFICES ASSUME TypeOK, [Next]_vars PROVE TypeOK'
  OBVIOUS
<1>1. ASSUME NEW t \in Tasks, Get(t) PROVE TypeOK'
  BY <1>1 DEF Get, Enter, Goto, Busy, global, scanner, results, TypeOK, Places
<1>2. ASSUME NEW t \in Tasks, GetReturns(t) PROVE TypeOK'
  BY <1>2 DEF GetReturns, global, scanner, results, Goto, TypeOK, Places
<1>3. ASSUME NEW t \in Tasks, DocToFileMT(t) PROVE TypeOK'
  <2>1. threads' \in Seq(Tasks)
    <3>1. Append(threads, t) \in Seq(Tasks)
      BY DEF TypeOK
    <3> QED
      BY <1>3, <3>1 DEF DocToFileMT, TypeOK
  <2>2. pc' \in [Tasks -> Places] /\ overlapped' \subseteq Tasks /\ faults' \subseteq Faults
    BY <1>3 DEF DocToFileMT, Enter, Goto, Happen, Busy, TypeOK, Places, Faults
  <2> QED
    BY <1>3, <2>1, <2>2 DEF DocToFileMT, global, scanner, results, TypeOK
<1>4. ASSUME NEW t \in Tasks, Begin(t) PROVE TypeOK'
  BY <1>4 DEF Begin, scanner, results, Goto, TypeOK, Places, TaskOrNone
<1>5. ASSUME NEW t \in Tasks, ParseURI(t) PROVE TypeOK'
  BY <1>5
  DEF ParseURI, scanner, Goto, Undefined, Happen, results, TypeOK, Places, TaskOrNone,
      Faults
<1>6. ASSUME NEW t \in Tasks, GetDocument(t) PROVE TypeOK'
  <2>1. CASE Happen({"connect"}) /\ Goto(t, "close") /\ UNCHANGED answer
    BY <1>6, <2>1 DEF GetDocument, Goto, Happen, global, scanner, results, TypeOK, Places, Faults
  <2>2. ASSUME NEW a \in Received(Page[t]), Happen(a.faults), Goto(t, "free"),
               answer' = [answer EXCEPT ![t] = [null |-> a.null, parts |-> a.parts]]
        PROVE  TypeOK'
    <3>1. a.null \in BOOLEAN /\ a.parts \in Seq(Parts) /\ a.faults \in SUBSET {"cut", "reset"}
      BY ReceivedParts, PageAssumption
    <3>2. answer' \in [Tasks -> [null : BOOLEAN, parts : Seq(Parts)]]
      BY <2>2, <3>1 DEF TypeOK
    <3>3. pc' \in [Tasks -> Places] /\ faults' \subseteq Faults
      BY <2>2, <3>1 DEF Goto, Happen, TypeOK, Places, Faults
    <3> QED
      BY <1>6, <3>2, <3>3 DEF GetDocument, global, scanner, results, TypeOK
  <2> QED
    BY <1>6, <2>1, <2>2 DEF GetDocument
<1>7. ASSUME NEW t \in Tasks, FreePath(t) PROVE TypeOK'
  <2>1. Path(lastpath) \in {"hostname", "lastpath"} \X TaskOrNone
    BY DEF Path, TypeOK
  <2>2. freed' \subseteq {"hostname", "lastpath"} \X TaskOrNone
    BY <1>7, <2>1 DEF FreePath, scanner, TypeOK
  <2> QED
    BY <1>7, <2>2 DEF FreePath, scanner, Goto, Undefined, results, TypeOK, Places
<1>8. ASSUME NEW t \in Tasks, SetPath(t) PROVE TypeOK'
  BY <1>8 DEF SetPath, scanner, results, Goto, TypeOK, Places, TaskOrNone
<1>9. ASSUME NEW t \in Tasks, OpenFile(t) PROVE TypeOK'
  BY <1>9 DEF OpenFile, Goto, Happen, global, scanner, results, TypeOK, Places, Faults
<1>10. ASSUME NEW t \in Tasks, ScanBytes(t) PROVE TypeOK'
  BY <1>10 DEF ScanBytes, Goto, Undefined, global, scanner, results, TypeOK, Places
<1>11. ASSUME NEW t \in Tasks, ScanText(t) PROVE TypeOK'
  <2>1. files' \in [Tasks -> Seq([in : Conditions, act : Acts, host : TaskOrNone, path : TaskOrNone])]
        /\ start' \in Conditions
    BY <1>11, WriteType DEF ScanText, TaskOrNone
  <2> QED
    BY <1>11, <2>1 DEF ScanText, global, TypeOK
<1>12. ASSUME NEW t \in Tasks, GetImagePath(t) PROVE TypeOK'
  <2>1. Stored(t) \in [task : Tasks, place : Nat \ {0}, port : TaskOrNone,
                     host : TaskOrNone, path : TaskOrNone]
    <3>1. Place(t) \in Nat \ {0}
      BY DEF Place, TypeOK
    <3> QED
      BY <3>1 DEF Stored, TypeOK, TaskOrNone
  <2>2. \A a \in Received(<<"bytes">>) : a.faults \in SUBSET {"cut", "reset"}
    <3>1. <<"bytes">> \in Seq({"bytes"})
      OBVIOUS
    <3> QED
      BY <3>1, ReceivedParts
  <2>3. faults' \subseteq Faults
    BY <1>12, <2>2 DEF GetImagePath, Happen, TypeOK, Faults
  <2>4. cache' \subseteq [task : Tasks, place : Nat \ {0}, port : TaskOrNone,
                        host : TaskOrNone, path : TaskOrNone]
    BY <1>12, <2>1 DEF GetImagePath, TypeOK
  <2>5. pc' \in [Tasks -> Places] /\ process' \in {"running", "killed", "undefined"}
    BY <1>12 DEF GetImagePath, Goto, Undefined, TypeOK, Places
  <2> QED
    BY <1>12, <2>3, <2>4, <2>5 DEF GetImagePath, global, scanner, TypeOK
<1>13. ASSUME NEW t \in Tasks, WriteLink(t) PROVE TypeOK'
  <2>1. CASE UNCHANGED <<files, start>>
    BY <1>13, <2>1 DEF WriteLink, Goto, Undefined, global, TypeOK, Places
  <2>2. ASSUME NEW h \in TaskOrNone, NEW l \in TaskOrNone, Write(t, h, l)
        PROVE  /\ files' \in [Tasks -> Seq([in : Conditions, act : Acts, host : TaskOrNone, path : TaskOrNone])]
               /\ start' \in Conditions
    BY <1>13, <2>2, WriteType DEF WriteLink
  <2>3. None \in TaskOrNone /\ hostname \in TaskOrNone /\ lastpath \in TaskOrNone
    BY DEF TypeOK, TaskOrNone
  <2>4. UNCHANGED <<files, start>> \/ \E h \in TaskOrNone, l \in TaskOrNone : Write(t, h, l)
    BY <1>13, <2>3 DEF WriteLink
  <2> QED
    BY <1>13, <2>1, <2>2, <2>4 DEF WriteLink, Goto, global, TypeOK, Places
<1>14. ASSUME NEW t \in Tasks, ScanEnds(t) PROVE TypeOK'
  BY <1>14 DEF ScanEnds, Goto, global, results, TypeOK, Places, TaskOrNone
<1>15. ASSUME NEW t \in Tasks, Reopen(t) PROVE TypeOK'
  BY <1>15 DEF Reopen, Goto, Undefined, Happen, global, results, scanner, TypeOK, Places, Faults
<1>16. ASSUME NEW t \in Tasks, FreeHost(t) PROVE TypeOK'
  <2>1. Host(hostname) \in {"hostname", "lastpath"} \X TaskOrNone
    BY DEF Host, TypeOK
  <2>2. freed' \subseteq {"hostname", "lastpath"} \X TaskOrNone
    BY <1>16, <2>1 DEF FreeHost, scanner, TypeOK
  <2> QED
    BY <1>16, <2>2 DEF FreeHost, scanner, Goto, Undefined, results, TypeOK, Places
<1>17. ASSUME NEW t \in Tasks, ForgetHost(t) PROVE TypeOK'
  BY <1>17 DEF ForgetHost, scanner, Goto, results, TypeOK, Places, TaskOrNone
<1>18. ASSUME NEW t \in Tasks, Flag(t) PROVE TypeOK'
  BY <1>18 DEF Flag, Goto, Undefined, Happen, global, scanner, TypeOK, Places, Faults
<1>19. CASE JoinAll
  BY <1>19 DEF JoinAll, global, scanner, results, TypeOK
<1>20. CASE JoinReturns
  <2>1. <<>> \in Seq(Tasks)
    OBVIOUS
  <2> QED
    BY <1>20, <2>1 DEF JoinReturns, global, scanner, results, TypeOK
<1>21. CASE DestroyAll
  <2>1. <<>> \in Seq(Tasks)
    OBVIOUS
  <2> QED
    BY <1>21, <2>1 DEF DestroyAll, global, scanner, results, TypeOK
<1>22. CASE UNCHANGED vars
  BY <1>22 DEF vars, global, scanner, results, TypeOK
<1> QED
  BY <1>1, <1>2, <1>3, <1>4, <1>5, <1>6, <1>7, <1>8, <1>9, <1>10, <1>11, <1>12,
     <1>13, <1>14, <1>15, <1>16, <1>17, <1>18, <1>19, <1>20, <1>21, <1>22
  DEF Next, Retrieve

(* A task that did not overlap stays the only one.                        *)
LEMMA AloneStep == TypeOK /\ Alone /\ [Next]_vars => Alone'
<1> SUFFICES ASSUME TypeOK, Alone, [Next]_vars PROVE Alone'
  OBVIOUS
<1>1. ASSUME NEW t \in Tasks, Get(t) PROVE Alone'
  BY <1>1 DEF Get, Enter, Goto, Busy, TypeOK, Alone
<1>2. ASSUME NEW t \in Tasks, GetReturns(t) PROVE Alone'
  BY <1>2 DEF GetReturns, Goto, TypeOK, Alone, Busy, Outside
<1>3. ASSUME NEW t \in Tasks, DocToFileMT(t) PROVE Alone'
  BY <1>3 DEF DocToFileMT, Enter, Goto, Busy, Outside, TypeOK, Alone
<1>4. ASSUME NEW t \in Tasks, Begin(t) PROVE Alone'
  BY <1>4 DEF Begin, At, Goto, TypeOK, Alone, Busy, Outside
<1>5. ASSUME NEW t \in Tasks, ParseURI(t) PROVE Alone'
  BY <1>5 DEF ParseURI, At, Goto, Undefined, TypeOK, Alone, Busy, Outside
<1>6. ASSUME NEW t \in Tasks, GetDocument(t) PROVE Alone'
  BY <1>6 DEF GetDocument, At, Goto, TypeOK, Alone, Busy, Outside
<1>7. ASSUME NEW t \in Tasks, FreePath(t) PROVE Alone'
  BY <1>7 DEF FreePath, At, Goto, Undefined, TypeOK, Alone, Busy, Outside
<1>8. ASSUME NEW t \in Tasks, SetPath(t) PROVE Alone'
  BY <1>8 DEF SetPath, At, Goto, TypeOK, Alone, Busy, Outside
<1>9. ASSUME NEW t \in Tasks, OpenFile(t) PROVE Alone'
  BY <1>9 DEF OpenFile, At, Goto, TypeOK, Alone, Busy, Outside
<1>10. ASSUME NEW t \in Tasks, ScanBytes(t) PROVE Alone'
  BY <1>10 DEF ScanBytes, At, Goto, Undefined, TypeOK, Alone, Busy, Outside
<1>11. ASSUME NEW t \in Tasks, ScanText(t) PROVE Alone'
  BY <1>11 DEF ScanText, TypeOK, Alone, Busy
<1>12. ASSUME NEW t \in Tasks, GetImagePath(t) PROVE Alone'
  BY <1>12 DEF GetImagePath, At, Goto, Undefined, TypeOK, Alone, Busy, Outside
<1>13. ASSUME NEW t \in Tasks, WriteLink(t) PROVE Alone'
  BY <1>13 DEF WriteLink, At, Goto, Undefined, TypeOK, Alone, Busy, Outside
<1>14. ASSUME NEW t \in Tasks, ScanEnds(t) PROVE Alone'
  BY <1>14 DEF ScanEnds, At, Goto, TypeOK, Alone, Busy, Outside
<1>15. ASSUME NEW t \in Tasks, Reopen(t) PROVE Alone'
  BY <1>15 DEF Reopen, At, Goto, Undefined, TypeOK, Alone, Busy, Outside
<1>16. ASSUME NEW t \in Tasks, FreeHost(t) PROVE Alone'
  BY <1>16 DEF FreeHost, At, Goto, Undefined, TypeOK, Alone, Busy, Outside
<1>17. ASSUME NEW t \in Tasks, ForgetHost(t) PROVE Alone'
  BY <1>17 DEF ForgetHost, Goto, TypeOK, Alone, Busy, Outside
<1>18. ASSUME NEW t \in Tasks, Flag(t) PROVE Alone'
  BY <1>18 DEF Flag, Goto, Undefined, TypeOK, Alone, Busy, Outside
<1>19. CASE JoinAll
  BY <1>19 DEF JoinAll, TypeOK, Alone, Busy
<1>20. CASE JoinReturns
  BY <1>20 DEF JoinReturns, TypeOK, Alone, Busy
<1>21. CASE DestroyAll
  BY <1>21 DEF DestroyAll, TypeOK, Alone, Busy
<1>22. CASE UNCHANGED vars
  BY <1>22 DEF vars, TypeOK, Alone, Busy
<1> QED
  BY <1>1, <1>2, <1>3, <1>4, <1>5, <1>6, <1>7, <1>8, <1>9, <1>10, <1>11, <1>12,
     <1>13, <1>14, <1>15, <1>16, <1>17, <1>18, <1>19, <1>20, <1>21, <1>22
  DEF Next, Retrieve

(* While a task is busy, no other task is without overlap.                  *)
LEMMA OnlyOne ==
    ASSUME Alone, NEW t \in Busy, NEW u \in Busy \ overlapped PROVE u = t
  BY DEF Alone, Busy

(* A task that did not overlap keeps what it put into clientGlobal.       *)
LEMMA NamedStep == TypeOK /\ Alone /\ Named /\ [Next]_vars => Named'
<1> SUFFICES ASSUME TypeOK, Alone, Named, [Next]_vars PROVE Named'
  OBVIOUS
<1>1. ASSUME NEW t \in Tasks, Get(t) PROVE Named'
  BY <1>1 DEF Get, Enter, Goto, Busy, TypeOK, Named
<1>2. ASSUME NEW t \in Tasks, GetReturns(t) PROVE Named'
  BY <1>2 DEF GetReturns, global, Goto, TypeOK, Named, Busy, Outside
<1>3. ASSUME NEW t \in Tasks, DocToFileMT(t) PROVE Named'
  <2>1. CASE Enter(t)
    BY <1>3, <2>1 DEF DocToFileMT, Enter, Goto, TypeOK, Named, Busy
  <2>2. CASE Goto(t, "refused") /\ pc[t] = "new" /\ UNCHANGED overlapped
    BY <1>3, <2>2 DEF DocToFileMT, Goto, global, TypeOK, Named, Busy, Outside
  <2> QED
    BY <1>3, <2>1, <2>2 DEF DocToFileMT
<1>4. ASSUME NEW t \in Tasks, Begin(t) PROVE Named'
  <2>1. t \in Busy
    BY <1>4 DEF Begin, At, Busy, Outside
  <2>2. \A u \in Busy \ overlapped : u = t
    BY <2>1, OnlyOne
  <2>3. (Busy \ overlapped)' \subseteq Busy \ overlapped
    BY <1>4 DEF Begin, At, Goto, TypeOK, Busy, Outside
  <2> QED
    BY <1>4, <2>2, <2>3 DEF Begin, Goto, TypeOK, Named
<1>5. ASSUME NEW t \in Tasks, ParseURI(t) PROVE Named'
  <2>1. t \in Busy
    BY <1>5 DEF ParseURI, At, Busy, Outside
  <2>2. \A u \in Busy \ overlapped : u = t
    BY <2>1, OnlyOne
  <2>3. (Busy \ overlapped)' \subseteq Busy \ overlapped
    BY <1>5 DEF ParseURI, At, Goto, Undefined, TypeOK, Busy, Outside
  <2> QED
    BY <1>5, <2>2, <2>3 DEF ParseURI, At, Goto, Undefined, TypeOK, Named
<1>6. ASSUME NEW t \in Tasks, GetDocument(t) PROVE Named'
  BY <1>6 DEF GetDocument, At, Goto, global, TypeOK, Named, Busy, Outside
<1>7. ASSUME NEW t \in Tasks, FreePath(t) PROVE Named'
  BY <1>7 DEF FreePath, At, Goto, Undefined, TypeOK, Named, Busy, Outside
<1>8. ASSUME NEW t \in Tasks, SetPath(t) PROVE Named'
  BY <1>8 DEF SetPath, At, Goto, TypeOK, Alone, Named, Busy, Outside
<1>9. ASSUME NEW t \in Tasks, OpenFile(t) PROVE Named'
  BY <1>9 DEF OpenFile, At, Goto, global, TypeOK, Named, Busy, Outside
<1>10. ASSUME NEW t \in Tasks, ScanBytes(t) PROVE Named'
  BY <1>10 DEF ScanBytes, At, Goto, Undefined, global, TypeOK, Named, Busy, Outside
<1>11. ASSUME NEW t \in Tasks, ScanText(t) PROVE Named'
  BY <1>11 DEF ScanText, global, TypeOK, Named, Busy
<1>12. ASSUME NEW t \in Tasks, GetImagePath(t) PROVE Named'
  BY <1>12 DEF GetImagePath, At, Goto, Undefined, global, TypeOK, Named, Busy, Outside
<1>13. ASSUME NEW t \in Tasks, WriteLink(t) PROVE Named'
  BY <1>13 DEF WriteLink, At, Goto, Undefined, global, TypeOK, Named, Busy, Outside
<1>14. ASSUME NEW t \in Tasks, ScanEnds(t) PROVE Named'
  BY <1>14 DEF ScanEnds, At, Goto, global, TypeOK, Named, Busy, Outside
<1>15. ASSUME NEW t \in Tasks, Reopen(t) PROVE Named'
  BY <1>15 DEF Reopen, At, Goto, Undefined, global, TypeOK, Named, Busy, Outside
<1>16. ASSUME NEW t \in Tasks, FreeHost(t) PROVE Named'
  BY <1>16 DEF FreeHost, At, Goto, Undefined, TypeOK, Named, Busy, Outside
<1>17. ASSUME NEW t \in Tasks, ForgetHost(t) PROVE Named'
  <2>1. t \in Busy
    BY <1>17 DEF ForgetHost, At, Busy, Outside
  <2>2. \A u \in Busy \ overlapped : u = t
    BY <2>1, OnlyOne
  <2>3. (Busy \ overlapped)' \subseteq Busy \ overlapped
    BY <1>17 DEF ForgetHost, Goto, TypeOK, Busy, Outside
  <2> QED
    BY <1>17, <2>2, <2>3 DEF ForgetHost, Goto, TypeOK, Named, Busy, Outside
<1>18. ASSUME NEW t \in Tasks, Flag(t) PROVE Named'
  BY <1>18 DEF Flag, Goto, Undefined, global, TypeOK, Named, Busy, Outside
<1>19. CASE JoinAll
  BY <1>19 DEF JoinAll, global, TypeOK, Named, Busy
<1>20. CASE JoinReturns
  BY <1>20 DEF JoinReturns, global, TypeOK, Named, Busy
<1>21. CASE DestroyAll
  BY <1>21 DEF DestroyAll, global, TypeOK, Named, Busy
<1>22. CASE UNCHANGED vars
  BY <1>22 DEF vars, global, TypeOK, Named, Busy
<1> QED
  BY <1>1, <1>2, <1>3, <1>4, <1>5, <1>6, <1>7, <1>8, <1>9, <1>10, <1>11, <1>12,
     <1>13, <1>14, <1>15, <1>16, <1>17, <1>18, <1>19, <1>20, <1>21, <1>22
  DEF Next, Retrieve

(* No block is freed too early or twice.                                  *)
LEMMA MemoryStep == TypeOK /\ Alone /\ Named /\ Memory /\ [Next]_vars => Memory'
<1> SUFFICES ASSUME TypeOK, Alone, Named, Memory, [Next]_vars PROVE Memory'
  OBVIOUS
<1>1. ASSUME NEW t \in Tasks, Get(t) PROVE Memory'
  BY <1>1 DEF Get, Enter, Goto, global, TypeOK, Memory, Early
<1>2. ASSUME NEW t \in Tasks, GetReturns(t) PROVE Memory'
  BY <1>2 DEF GetReturns, global, At, Goto, TypeOK, Memory, Early
<1>3. ASSUME NEW t \in Tasks, DocToFileMT(t) PROVE Memory'
  BY <1>3 DEF DocToFileMT, Enter, Goto, global, TypeOK, Memory, Early
<1>4. ASSUME NEW t \in Tasks, Begin(t) PROVE Memory'
  BY <1>4 DEF Begin, At, Goto, TypeOK, Memory, Early
<1>5. ASSUME NEW t \in Tasks, ParseURI(t) PROVE Memory'
  BY <1>5 DEF ParseURI, At, Goto, Undefined, TypeOK, Memory, Early
<1>6. ASSUME NEW t \in Tasks, GetDocument(t) PROVE Memory'
  BY <1>6 DEF GetDocument, At, Goto, global, TypeOK, Memory, Early
<1>7. ASSUME NEW t \in Tasks, FreePath(t) PROVE Memory'
  <2> SUFFICES ASSUME overlapped = {} PROVE Memory'
    BY <1>7 DEF FreePath, Memory
  <2>1. t \in Busy
    BY <1>7 DEF FreePath, At, Busy, Outside
  <2>2. \A u \in Tasks \ {t} : pc[u] \in Outside
    BY <2>1, OnlyOne DEF Busy
  <2>3. lastpath \in Tasks => pc[lastpath] \in {"done", "ended"}
    BY <1>7, <2>2 DEF FreePath, At, Memory, Early, Outside
  <2>4. CASE UNCHANGED freed
    BY <1>7, <2>4 DEF FreePath, At, Goto, Undefined, TypeOK, Memory, Early
  <2>5. CASE freed' = freed \cup {Path(lastpath)} /\ Goto(t, "path")
    <3>1. \A u \in Tasks : Host(u) \in freed' => Host(u) \in freed
      BY <2>5 DEF Host, Path
    <3>2. \A u \in Tasks : Path(u) \in freed' => Path(u) \in freed \/ u = lastpath
      BY <2>5 DEF Path
    <3>3. pc[t] = "free" /\ lastpath' = lastpath /\ overlapped' = overlapped
      BY <1>7 DEF FreePath, At
    <3>4. \A u \in Tasks : Host(u)' = Host(u) /\ Path(u)' = Path(u)
      OBVIOUS
    <3>5. pc' = [pc EXCEPT ![t] = "path"] /\ pc \in [Tasks -> Places]
      BY <2>5 DEF Goto, TypeOK
    <3>6. \A u \in Tasks :
              /\ Host(u) \in freed' => pc'[u] \in {"forget", "done", "ended"}
              /\ Path(u) \in freed' => pc'[u] \in {"done", "ended"}
              /\ lastpath' = u => pc'[u] \notin Early
      BY <2>3, <3>1, <3>2, <3>3, <3>5 DEF Memory, Early
    <3>7. pc'[t] = "path"
      BY <3>5
    <3> QED
      BY <3>4, <3>6, <3>7 DEF Memory, Early
  <2> QED
    BY <1>7, <2>4, <2>5 DEF FreePath
<1>8. ASSUME NEW t \in Tasks, SetPath(t) PROVE Memory'
  BY <1>8 DEF SetPath, At, Goto, TypeOK, Memory, Early
<1>9. ASSUME NEW t \in Tasks, OpenFile(t) PROVE Memory'
  BY <1>9 DEF OpenFile, At, Goto, global, TypeOK, Memory, Early
<1>10. ASSUME NEW t \in Tasks, ScanBytes(t) PROVE Memory'
  BY <1>10 DEF ScanBytes, At, Goto, Undefined, global, TypeOK, Memory, Early
<1>11. ASSUME NEW t \in Tasks, ScanText(t) PROVE Memory'
  BY <1>11 DEF ScanText, global, TypeOK, Memory, Early
<1>12. ASSUME NEW t \in Tasks, GetImagePath(t) PROVE Memory'
  BY <1>12 DEF GetImagePath, At, Goto, Undefined, global, TypeOK, Memory, Early
<1>13. ASSUME NEW t \in Tasks, WriteLink(t) PROVE Memory'
  BY <1>13 DEF WriteLink, At, Goto, Undefined, global, TypeOK, Memory, Early
<1>14. ASSUME NEW t \in Tasks, ScanEnds(t) PROVE Memory'
  BY <1>14 DEF ScanEnds, At, Goto, global, TypeOK, Memory, Early
<1>15. ASSUME NEW t \in Tasks, Reopen(t) PROVE Memory'
  BY <1>15 DEF Reopen, At, Goto, Undefined, global, TypeOK, Memory, Early
<1>16. ASSUME NEW t \in Tasks, FreeHost(t) PROVE Memory'
  <2> SUFFICES ASSUME overlapped = {} PROVE Memory'
    BY <1>16 DEF FreeHost, Memory
  <2>1. t \in Busy
    BY <1>16 DEF FreeHost, At, Busy, Outside
  <2>2. \A u \in Tasks \ {t} : pc[u] \in Outside
    BY <2>1, OnlyOne DEF Busy
  <2>3. CASE UNCHANGED freed
    BY <1>16, <2>3 DEF FreeHost, At, Goto, Undefined, TypeOK, Memory, Early
  <2>4. CASE freed' = freed \cup {Host(hostname)} /\ Goto(t, "forget")
    <3>1. hostname = t /\ pc[t] = "close" /\ lastpath' = lastpath /\ overlapped' = overlapped
      BY <1>16, <2>1 DEF FreeHost, At, Named
    <3>2. \A u \in Tasks : Host(u) \in freed' => Host(u) \in freed \/ u = t
      BY <2>4, <3>1 DEF Host
    <3>3. \A u : Path(u) \in freed' => Path(u) \in freed
      BY <2>4 DEF Host, Path
    <3>4. \A u : Host(u)' = Host(u) /\ Path(u)' = Path(u)
      OBVIOUS
    <3>5. pc' = [pc EXCEPT ![t] = "forget"] /\ pc \in [Tasks -> Places]
      BY <2>4 DEF Goto, TypeOK
    <3>6. \A u \in Tasks :
              /\ Host(u) \in freed' => pc'[u] \in {"forget", "done", "ended"}
              /\ Path(u) \in freed' => pc'[u] \in {"done", "ended"}
              /\ lastpath' = u => pc'[u] \notin Early
      BY <3>1, <3>2, <3>3, <3>5 DEF Memory, Early
    <3>7. \A u \in Tasks : pc[u] # "path"
      BY <2>2, <3>1 DEF Outside
    <3>8. lastpath # None => Path(lastpath) \notin freed'
      BY <3>3, <3>7 DEF Memory
    <3> QED
      BY <3>1, <3>4, <3>6, <3>8 DEF Memory, Early
  <2> QED
    BY <1>16, <2>3, <2>4 DEF FreeHost
<1>17. ASSUME NEW t \in Tasks, ForgetHost(t) PROVE Memory'
  BY <1>17 DEF ForgetHost, At, Goto, TypeOK, Memory, Early
<1>18. ASSUME NEW t \in Tasks, Flag(t) PROVE Memory'
  BY <1>18 DEF Flag, At, Goto, Undefined, global, TypeOK, Memory, Early
<1>19. CASE JoinAll
  BY <1>19 DEF JoinAll, global, TypeOK, Memory, Early
<1>20. CASE JoinReturns
  BY <1>20 DEF JoinReturns, global, TypeOK, Memory, Early
<1>21. CASE DestroyAll
  BY <1>21 DEF DestroyAll, global, TypeOK, Memory, Early
<1>22. CASE UNCHANGED vars
  BY <1>22 DEF vars, global, TypeOK, Memory, Early
<1> QED
  BY <1>1, <1>2, <1>3, <1>4, <1>5, <1>6, <1>7, <1>8, <1>9, <1>10, <1>11, <1>12,
     <1>13, <1>14, <1>15, <1>16, <1>17, <1>18, <1>19, <1>20, <1>21, <1>22
  DEF Next, Retrieve

(* Only a reset loses data that was received.                             *)
LEMMA LostStep == TypeOK /\ Lost /\ [Next]_vars => Lost'
<1> SUFFICES ASSUME TypeOK, Lost, [Next]_vars PROVE Lost'
  OBVIOUS
<1>1. ASSUME NEW t \in Tasks, Get(t) PROVE Lost'
  BY <1>1 DEF Get, Enter, Goto, TypeOK, Lost, NoBytes
<1>2. ASSUME NEW t \in Tasks, GetReturns(t) PROVE Lost'
  BY <1>2 DEF GetReturns, Goto, TypeOK, Lost, NoBytes
<1>3. ASSUME NEW t \in Tasks, DocToFileMT(t) PROVE Lost'
  BY <1>3 DEF DocToFileMT, Enter, Goto, Happen, TypeOK, Lost, NoBytes
<1>4. ASSUME NEW t \in Tasks, Begin(t) PROVE Lost'
  BY <1>4 DEF Begin, Goto, TypeOK, Lost, NoBytes
<1>5. ASSUME NEW t \in Tasks, ParseURI(t) PROVE Lost'
  BY <1>5 DEF ParseURI, Goto, Happen, TypeOK, Lost, NoBytes
<1>6. ASSUME NEW t \in Tasks, GetDocument(t) PROVE Lost'
  <2>1. CASE UNCHANGED answer
    BY <1>6, <2>1 DEF GetDocument, Happen, Lost, NoBytes
  <2>2. ASSUME NEW a \in Received(Page[t]), Happen(a.faults),
               answer' = [answer EXCEPT ![t] = [null |-> a.null, parts |-> a.parts]]
        PROVE  Lost'
    <3>1. NoBytes(a) => "reset" \in a.faults
      BY ReceivedParts, PageAssumption
    <3>2. \A u \in Tasks \ {t} : answer'[u] = answer[u]
      BY <2>2 DEF TypeOK
    <3>3. answer'[t].null = a.null /\ answer'[t].parts = a.parts
      BY <2>2 DEF TypeOK
    <3> QED
      BY <2>2, <3>1, <3>2, <3>3 DEF Happen, Lost, NoBytes
  <2> QED
    BY <1>6, <2>1, <2>2 DEF GetDocument
<1>7. ASSUME NEW t \in Tasks, FreePath(t) PROVE Lost'
  BY <1>7 DEF FreePath, Goto, TypeOK, Lost, NoBytes
<1>8. ASSUME NEW t \in Tasks, SetPath(t) PROVE Lost'
  BY <1>8 DEF SetPath, Goto, TypeOK, Lost, NoBytes
<1>9. ASSUME NEW t \in Tasks, OpenFile(t) PROVE Lost'
  BY <1>9 DEF OpenFile, Goto, Happen, TypeOK, Lost, NoBytes
<1>10. ASSUME NEW t \in Tasks, ScanBytes(t) PROVE Lost'
  BY <1>10 DEF ScanBytes, Goto, TypeOK, Lost, NoBytes
<1>11. ASSUME NEW t \in Tasks, ScanText(t) PROVE Lost'
  BY <1>11 DEF ScanText, TypeOK, Lost, NoBytes
<1>12. ASSUME NEW t \in Tasks, GetImagePath(t) PROVE Lost'
  BY <1>12 DEF GetImagePath, Goto, Happen, TypeOK, Lost, NoBytes
<1>13. ASSUME NEW t \in Tasks, WriteLink(t) PROVE Lost'
  BY <1>13 DEF WriteLink, Goto, TypeOK, Lost, NoBytes
<1>14. ASSUME NEW t \in Tasks, ScanEnds(t) PROVE Lost'
  BY <1>14 DEF ScanEnds, Goto, TypeOK, Lost, NoBytes
<1>15. ASSUME NEW t \in Tasks, Reopen(t) PROVE Lost'
  BY <1>15 DEF Reopen, Goto, Undefined, Happen, TypeOK, Lost, NoBytes
<1>16. ASSUME NEW t \in Tasks, FreeHost(t) PROVE Lost'
  BY <1>16 DEF FreeHost, Goto, TypeOK, Lost, NoBytes
<1>17. ASSUME NEW t \in Tasks, ForgetHost(t) PROVE Lost'
  BY <1>17 DEF ForgetHost, Goto, TypeOK, Lost, NoBytes
<1>18. ASSUME NEW t \in Tasks, Flag(t) PROVE Lost'
  BY <1>18 DEF Flag, Goto, Happen, TypeOK, Lost, NoBytes
<1>19. CASE JoinAll
  BY <1>19 DEF JoinAll, TypeOK, Lost, NoBytes
<1>20. CASE JoinReturns
  BY <1>20 DEF JoinReturns, TypeOK, Lost, NoBytes
<1>21. CASE DestroyAll
  BY <1>21 DEF DestroyAll, TypeOK, Lost, NoBytes
<1>22. CASE UNCHANGED vars
  BY <1>22 DEF vars, TypeOK, Lost, NoBytes
<1> QED
  BY <1>1, <1>2, <1>3, <1>4, <1>5, <1>6, <1>7, <1>8, <1>9, <1>10, <1>11, <1>12,
     <1>13, <1>14, <1>15, <1>16, <1>17, <1>18, <1>19, <1>20, <1>21, <1>22
  DEF Next, Retrieve

(* A task that runs alone uses no pointer that is null or was freed.      *)
LEMMA DefinedStep == TypeOK /\ Alone /\ Named /\ Memory /\ Lost /\ DefinedAlone /\ [Next]_vars => DefinedAlone'
<1> SUFFICES ASSUME TypeOK, Alone, Named, Memory, Lost, DefinedAlone, [Next]_vars PROVE DefinedAlone'
  OBVIOUS
<1>1. ASSUME NEW t \in Tasks, Get(t) PROVE DefinedAlone'
  BY <1>1 DEF Get, Enter, DefinedAlone
<1>2. ASSUME NEW t \in Tasks, GetReturns(t) PROVE DefinedAlone'
  BY <1>2 DEF GetReturns, At, DefinedAlone
<1>3. ASSUME NEW t \in Tasks, DocToFileMT(t) PROVE DefinedAlone'
  BY <1>3 DEF DocToFileMT, DefinedAlone
<1>4. ASSUME NEW t \in Tasks, Begin(t) PROVE DefinedAlone'
  BY <1>4 DEF Begin, At, DefinedAlone
<1>5. ASSUME NEW t \in Tasks, ParseURI(t) PROVE DefinedAlone'
  BY <1>5 DEF ParseURI, At, Undefined, Happen, DefinedAlone, Bites
<1>6. ASSUME NEW t \in Tasks, GetDocument(t) PROVE DefinedAlone'
  BY <1>6 DEF GetDocument, At, DefinedAlone
<1>7. ASSUME NEW t \in Tasks, FreePath(t) PROVE DefinedAlone'
  <2> SUFFICES ASSUME overlapped = {}, process' = "undefined" PROVE DefinedAlone'
    BY <1>7 DEF FreePath, DefinedAlone
  <2>1. t \in Busy
    BY <1>7 DEF FreePath, At, Busy, Outside
  <2>2. \A u \in Tasks \ {t} : pc[u] \in Outside
    BY <2>1, OnlyOne DEF Busy
  <2>3. lastpath # None => PathReadable
    BY <1>7, <2>2 DEF FreePath, At, PathReadable, Memory, Outside
  <2> QED
    BY <1>7, <2>3 DEF FreePath, At
<1>8. ASSUME NEW t \in Tasks, SetPath(t) PROVE DefinedAlone'
  BY <1>8 DEF SetPath, At, DefinedAlone
<1>9. ASSUME NEW t \in Tasks, OpenFile(t) PROVE DefinedAlone'
  BY <1>9 DEF OpenFile, At, DefinedAlone
<1>10. ASSUME NEW t \in Tasks, ScanBytes(t) PROVE DefinedAlone'
  <2> SUFFICES ASSUME overlapped = {}, process' = "undefined" PROVE DefinedAlone'
    BY <1>10 DEF ScanBytes, DefinedAlone
  <2>1. t \in Busy
    BY <1>10 DEF ScanBytes, At, Busy, Outside
  <2>2. \A u \in Tasks \ {t} : pc[u] \in Outside
    BY <2>1, OnlyOne DEF Busy
  <2>3. Scanning = {}
    BY <1>10, <2>2 DEF ScanBytes, At, Scanning, Outside
  <2> QED
    BY <1>10, <2>3 DEF ScanBytes, At, Undefined, Lost, DefinedAlone, Bites
<1>11. ASSUME NEW t \in Tasks, ScanText(t) PROVE DefinedAlone'
  BY <1>11 DEF ScanText, At, DefinedAlone
<1>12. ASSUME NEW t \in Tasks, GetImagePath(t) PROVE DefinedAlone'
  <2> SUFFICES ASSUME overlapped = {}, process' = "undefined" PROVE DefinedAlone'
    BY <1>12 DEF GetImagePath, DefinedAlone
  <2>1. t \in Busy
    BY <1>12 DEF GetImagePath, At, Busy, Outside
  <2>2. \A u \in Tasks \ {t} : pc[u] \in Outside
    BY <2>1, OnlyOne DEF Busy
  <2>3. hostname = t /\ lastpath = t /\ pc[t] \in {"lex", "write"}
    BY <1>12, <2>1 DEF GetImagePath, At, Named
  <2>4. HostReadable /\ PathReadable
    BY <2>2, <2>3, TasksAssumption DEF HostReadable, PathReadable, Memory
  <2>5. \A a \in Received(<<"bytes">>) : NoBytes(a) => "reset" \in a.faults
    <3>1. <<"bytes">> \in Seq({"bytes"})
      OBVIOUS
    <3> QED
      BY <3>1, ReceivedParts
  <2>6. pc[t] = "lex" /\ UNCHANGED pc /\ ("long" \in faults' \/ "reset" \in faults')
    BY <1>12, <2>4, <2>5 DEF GetImagePath, At, Undefined, ImageReadable, Happen
  <2> QED
    BY <2>6 DEF DefinedAlone, Bites
<1>13. ASSUME NEW t \in Tasks, WriteLink(t) PROVE DefinedAlone'
  <2> SUFFICES ASSUME overlapped = {}, process' = "undefined" PROVE DefinedAlone'
    BY <1>13 DEF WriteLink, DefinedAlone
  <2>1. t \in Busy
    BY <1>13 DEF WriteLink, At, Busy, Outside
  <2>2. \A u \in Tasks \ {t} : pc[u] \in Outside
    BY <2>1, OnlyOne DEF Busy
  <2>3. hostname = t /\ lastpath = t /\ pc[t] \in {"lex", "write"}
    BY <1>13, <2>1 DEF WriteLink, At, Named
  <2>4. HostReadable /\ PathReadable
    BY <2>2, <2>3, TasksAssumption DEF HostReadable, PathReadable, Memory
  <2> QED
    BY <1>13, <2>4 DEF WriteLink, At
<1>14. ASSUME NEW t \in Tasks, ScanEnds(t) PROVE DefinedAlone'
  BY <1>14 DEF ScanEnds, At, DefinedAlone
<1>15. ASSUME NEW t \in Tasks, Reopen(t) PROVE DefinedAlone'
  BY <1>15 DEF Reopen, At, Goto, Undefined, Happen, DefinedAlone, Bites
<1>16. ASSUME NEW t \in Tasks, FreeHost(t) PROVE DefinedAlone'
  <2> SUFFICES ASSUME overlapped = {}, process' = "undefined" PROVE DefinedAlone'
    BY <1>16 DEF FreeHost, DefinedAlone
  <2>1. t \in Busy
    BY <1>16 DEF FreeHost, At, Busy, Outside
  <2>2. \A u \in Tasks \ {t} : pc[u] \in Outside
    BY <2>1, OnlyOne DEF Busy
  <2>3. hostname = t /\ pc[t] = "close"
    BY <1>16, <2>1 DEF FreeHost, At, Named
  <2>4. HostReadable
    BY <2>3, TasksAssumption DEF HostReadable, Memory
  <2> QED
    BY <1>16, <2>4 DEF FreeHost, At
<1>17. ASSUME NEW t \in Tasks, ForgetHost(t) PROVE DefinedAlone'
  BY <1>17 DEF ForgetHost, At, DefinedAlone
<1>18. ASSUME NEW t \in Tasks, Flag(t) PROVE DefinedAlone'
  BY <1>18 DEF Flag, At, Undefined, Happen, DefinedAlone, Bites
<1>19. CASE JoinAll
  BY <1>19 DEF JoinAll, DefinedAlone
<1>20. CASE JoinReturns
  BY <1>20 DEF JoinReturns, DefinedAlone
<1>21. CASE DestroyAll
  BY <1>21 DEF DestroyAll, DefinedAlone
<1>22. CASE UNCHANGED vars
  BY <1>22 DEF vars, DefinedAlone, Bites
<1> QED
  BY <1>1, <1>2, <1>3, <1>4, <1>5, <1>6, <1>7, <1>8, <1>9, <1>10, <1>11, <1>12,
     <1>13, <1>14, <1>15, <1>16, <1>17, <1>18, <1>19, <1>20, <1>21, <1>22
  DEF Next, Retrieve

(* What a task received is the beginning of its page, and all of it unless  *)
(* something failed.                                                       *)
Answers ==
    \A t \in Tasks :
        /\ Len(answer[t].parts) <= Len(Page[t])
        /\ \A n \in 1..Len(answer[t].parts) : answer[t].parts[n] = Page[t][n]
        /\ pc[t] \in {"free", "path", "open", "bytes", "lex", "write"} /\ Clean
           => Len(answer[t].parts) = Len(Page[t])

(* One task at a time is in the scanner, which is in the condition that the  *)
(* last part of it left, and in the first one if nothing else was left.     *)
Unwritten == {"new", "refused", "begin", "parse", "fetch", "free", "path", "open", "bytes"}
LastLeft(t) == Following(files[t][Len(files[t])].in, Page[t][Len(files[t])])
Scanned ==
    /\ \A t, u \in Scanning : t = u
    /\ \A t \in Tasks : pc[t] \in Unwritten => files[t] = <<>>
    /\ \A t \in Tasks : pc[t] \in Unwritten \cup {"lex", "write"} => t \notin unclosed
    /\ \A t \in Scanning : files[t] # <<>> => start = LastLeft(t)
    /\ unclosed = {} /\ (\A t \in Scanning : files[t] = <<>>) => start = "INITIAL"
    /\ \A t \in Tasks : files[t] # <<>> /\ unclosed \subseteq {t} => files[t][1].in = "INITIAL"

(* The file of a task that did not overlap is what it received, completed.  *)
Filled ==
    \A t \in Tasks \ overlapped :
        /\ Len(files[t]) <= Len(answer[t].parts)
        /\ \A n \in 1..Len(files[t]) : files[t][n] = Completed(t, n)
        /\ pc[t] = "write" => MoreParts(t) /\ ActAt(t) \in Images
        /\ pc[t] \in {"reopen", "close", "forget", "done", "ended"} /\ Clean
           => Len(files[t]) = Len(Page[t])
        /\ t \in flagged => pc[t] = "ended"

(* The images of its file were stored as its own.                           *)
Has(t, n) == \E i \in cache : i.task = t /\ i.place = n
Kept ==
    \A t \in Tasks \ overlapped :
        /\ \A i \in cache : i.task = t => i.port = t /\ i.host \in {None, t} /\ i.path \in {None, t}
        /\ Clean => /\ pc[t] = "write" => Has(t, Place(t))
                    /\ \A n \in 1..Len(files[t]) : files[t][n].act \in Images => Has(t, n)

(* The part a task is at is its page's.                                     *)
LEMMA PartOfPage ==
    ASSUME TypeOK, Answers, NEW t \in Tasks, MoreParts(t)
    PROVE  Part(t) = Page[t][Place(t)]
<1>1. Place(t) \in 1..Len(answer[t].parts)
  BY DEF MoreParts, Place, TypeOK
<1> QED
  BY <1>1 DEF Part, Answers, TypeOK

(* A part that is written is added to its task's file.                      *)
LEMMA WriteAdds ==
    ASSUME TypeOK, NEW t \in Tasks, NEW h, NEW l, Write(t, h, l)
    PROVE  /\ Len(files[t]) \in Nat /\ Len(files'[t]) = Len(files[t]) + 1
           /\ \A n \in 1..Len(files[t]) : files'[t][n] = files[t][n]
           /\ files'[t][Len(files[t]) + 1] = Written(start, ActAt(t), h, l)
           /\ \A u \in Tasks \ {t} : files'[u] = files[u]
<1> DEFINE w == Written(start, ActAt(t), h, l)
<1>1. files' = [files EXCEPT ![t] = Append(files[t], w)]
  BY DEF Write
<1> HIDE DEF w
<1>2. files'[t] = Append(files[t], w) /\ \A u \in Tasks \ {t} : files'[u] = files[u]
  BY <1>1 DEF TypeOK
<1> QED
  BY <1>2 DEF TypeOK, w

(* What a task writes next keeps the conditions along its file.             *)
LEMMA WriteScans ==
    ASSUME TypeOK, Answers, Scanned, NEW t \in Tasks, MoreParts(t), NEW h, NEW l, Write(t, h, l),
           UNCHANGED unclosed, pc[t] \in {"lex", "write"}, pc'[t] = "lex",
           \A u \in Tasks \ {t} : pc'[u] = pc[u]
    PROVE  Scanned'
<1>1. t \in Scanning /\ Scanning' = Scanning /\ Scanning = {t}
  BY DEF Scanning, Scanned
<1>2. /\ Len(files[t]) \in Nat /\ Len(files'[t]) = Len(files[t]) + 1
      /\ \A n \in 1..Len(files[t]) : files'[t][n] = files[t][n]
      /\ files'[t][Len(files[t]) + 1].in = start
      /\ \A u \in Tasks \ {t} : files'[u] = files[u]
  <2>1. Written(start, ActAt(t), h, l).in = start
    BY DEF Written
  <2>2. /\ Len(files[t]) \in Nat /\ Len(files'[t]) = Len(files[t]) + 1
        /\ \A n \in 1..Len(files[t]) : files'[t][n] = files[t][n]
        /\ files'[t][Len(files[t]) + 1] = Written(start, ActAt(t), h, l)
        /\ \A u \in Tasks \ {t} : files'[u] = files[u]
    BY WriteAdds
  <2> QED
    BY <2>1, <2>2
<1>3. start' = Following(start, Page[t][Len(files[t]) + 1])
  BY PartOfPage DEF Write, Place
<1>4. start' = LastLeft(t)'
  BY <1>2, <1>3 DEF LastLeft
<1>5. files'[t] # <<>>
  BY <1>2
<1>6. unclosed \subseteq {t} => files'[t][1].in = "INITIAL"
  <2>1. t \notin unclosed
    BY DEF Scanned
  <2>2. CASE files[t] = <<>>
    BY <1>1, <1>2, <2>1, <2>2 DEF Scanned
  <2>3. CASE files[t] # <<>>
    <3>1. Len(files[t]) # 0
      BY <2>3 DEF TypeOK
    <3>2. 1 \in 1..Len(files[t])
      BY <1>2, <3>1
    <3> QED
      BY <1>2, <2>3, <3>2 DEF Scanned
  <2> QED
    BY <2>2, <2>3
<1>7. \A u \in Tasks : pc'[u] \in Unwritten => pc[u] \in Unwritten /\ u # t
  BY DEF Unwritten
<1>8. \A u \in Tasks : pc'[u] \in Unwritten \cup {"lex", "write"} => pc[u] \in Unwritten \cup {"lex", "write"}
  OBVIOUS
<1> QED
  BY <1>1, <1>2, <1>4, <1>5, <1>6, <1>7, <1>8 DEF Scanned

(* A part that is written as the next one of the page keeps files filled.   *)
LEMMA WriteFills ==
    ASSUME TypeOK, Answers, Scanned, Filled, NEW t \in Tasks, MoreParts(t), NEW h, NEW l, Write(t, h, l),
           UNCHANGED <<answer, flagged, overlapped, faults>>,
           \A u \in Tasks \ {t} : pc'[u] = pc[u],
           pc[t] \in {"lex", "write"}, pc'[t] = "lex",
           t \notin overlapped => Written(start, ActAt(t), h, l) = Own(t, start, ActAt(t))
    PROVE  Filled'
<1>1. /\ Len(files[t]) \in Nat /\ Len(files'[t]) = Len(files[t]) + 1
      /\ \A n \in 1..Len(files[t]) : files'[t][n] = files[t][n]
      /\ files'[t][Len(files[t]) + 1] = Written(start, ActAt(t), h, l)
      /\ \A u \in Tasks \ {t} : files'[u] = files[u]
  BY WriteAdds
<1>2. \A u, c, a : Own(u, c, a)' = Own(u, c, a)
  BY DEF Own
<1>3. ASSUME NEW u \in Tasks \ {t}, pc[u] = "write" PROVE FALSE
  BY <1>3 DEF Scanned, Scanning
<1>4. ASSUME NEW u \in Tasks \ {t}, NEW n \in 1..Len(files[u]) PROVE Completed(u, n)' = Completed(u, n)
  BY <1>1, <1>2 DEF Completed, ConditionAt
<1>5. ASSUME NEW n \in 1..Len(files[t]) PROVE Completed(t, n)' = Completed(t, n)
  <2>1. n = 1 \/ n - 1 \in 1..Len(files[t])
    BY <1>1
  <2>2. ConditionAt(t, n)' = ConditionAt(t, n)
    BY <1>1, <2>1 DEF ConditionAt
  <2> QED
    BY <1>2, <2>2 DEF Completed
<1>6. ASSUME NEW n, n = Len(files[t]) + 1, t \notin overlapped
      PROVE  files'[t][n] = Completed(t, n)'
  <2>1. Place(t) = n /\ Part(t) = Page[t][n]
    BY <1>6, PartOfPage DEF Place
  <2>2. ConditionAt(t, n)' = start
    <3>1. CASE files[t] = <<>>
      <4>1. Len(files[t]) = 0
        BY <3>1
      <4>2. n = 1 /\ files'[t][n] = Written(start, ActAt(t), h, l)
        BY <1>1, <1>6, <4>1
      <4>3. Written(start, ActAt(t), h, l).in = start
        BY DEF Written
      <4> QED
        BY <4>2, <4>3 DEF ConditionAt
    <3>2. CASE files[t] # <<>>
      <4>1. Len(files[t]) # 0
        BY <3>2 DEF TypeOK
      <4>2. n # 1 /\ n - 1 = Len(files[t]) /\ n - 1 \in 1..Len(files[t])
        BY <1>1, <1>6, <4>1
      <4>3. start = Following(files[t][n - 1].in, Page[t][n - 1])
        BY <3>2, <4>2 DEF Scanned, Scanning, LastLeft
      <4>4. files'[t][n - 1] = files[t][n - 1]
        BY <1>1, <4>2
      <4> QED
        BY <4>2, <4>3, <4>4 DEF ConditionAt
    <3> QED
      BY <3>1, <3>2
  <2>3. Act(start, Page[t][n]) = ActAt(t)
    BY <2>1 DEF ActAt
  <2>4. Completed(t, n)' = Own(t, start, ActAt(t))
    BY <1>2, <2>2, <2>3 DEF Completed
  <2> QED
    BY <1>1, <1>6, <2>4
<1>7. ASSUME t \notin overlapped
      PROVE  /\ Len(files'[t]) <= Len(answer[t].parts) /\ t \notin flagged
             /\ \A n \in 1..Len(files'[t]) : files'[t][n] = Completed(t, n)'
  <2>1. ASSUME NEW n \in 1..Len(files'[t]) PROVE files'[t][n] = Completed(t, n)'
    <3>1. CASE n = Len(files[t]) + 1
      BY <1>6, <1>7, <3>1
    <3>2. CASE n \in 1..Len(files[t])
      <4>1. files[t][n] = Completed(t, n)
        BY <1>7, <3>2 DEF Filled
      <4> QED
        BY <1>1, <1>5, <3>2, <4>1
    <3> QED
      BY <1>1, <3>1, <3>2
  <2>2. Len(files'[t]) <= Len(answer[t].parts)
    BY <1>1 DEF MoreParts, Place
  <2>3. t \notin flagged
    BY <1>7 DEF Filled
  <2> QED
    BY <2>1, <2>2, <2>3
<1>8. Clean' = Clean
  BY DEF Clean
<1> QED
  BY <1>1, <1>3, <1>4, <1>7, <1>8 DEF Filled

(* Steps that write no file and leave the scanner alone.                    *)
LEMMA ScannedUntouched ==
    ASSUME Scanned, UNCHANGED <<files, scanner>>,
           \A t \in Tasks : /\ pc'[t] \in Unwritten => pc[t] \in Unwritten
                            /\ pc'[t] \in {"lex", "write"} <=> pc[t] \in {"lex", "write"}
    PROVE  Scanned'
<1>1. Scanning' = Scanning
  <2>1. \A t : t \in Scanning' <=> t \in Scanning
    BY DEF Scanning
  <2> QED
    BY <2>1
<1>2. \A t : LastLeft(t)' = LastLeft(t)
  BY DEF LastLeft
<1>3. files' = files /\ start' = start /\ unclosed' = unclosed
  BY DEF scanner
<1>4. \A t \in Tasks : pc'[t] \in Unwritten \cup {"lex", "write"} => pc[t] \in Unwritten \cup {"lex", "write"}
  OBVIOUS
<1> QED
  BY <1>1, <1>2, <1>3, <1>4 DEF Scanned

(* Steps that store no image and write no file leave the images kept.       *)
LEMMA KeptUntouched ==
    ASSUME Kept, UNCHANGED <<cache, files>>, overlapped \subseteq overlapped', Clean' => Clean,
           \A t \in Tasks : pc'[t] = "write" => pc[t] = "write"
    PROVE  Kept'
<1>1. \A t, n : (Has(t, n) <=> Has(t, n)') /\ Place(t) = Place(t)'
  BY DEF Has, Place
<1> QED
  BY <1>1 DEF Kept

(* Every step keeps what was received.                                    *)
LEMMA AnswersStep == TypeOK /\ Answers /\ [Next]_vars => Answers'
<1> SUFFICES ASSUME TypeOK, Answers, [Next]_vars PROVE Answers'
  OBVIOUS
<1>1. ASSUME NEW t \in Tasks, Get(t) PROVE Answers'
  BY <1>1 DEF Get, Enter, Goto, TypeOK, Answers, Clean
<1>2. ASSUME NEW t \in Tasks, GetReturns(t) PROVE Answers'
  BY <1>2 DEF GetReturns, Goto, TypeOK, Answers, Clean
<1>3. ASSUME NEW t \in Tasks, DocToFileMT(t) PROVE Answers'
  <2>1. UNCHANGED answer /\ (Clean' => Clean)
    BY <1>3 DEF DocToFileMT, Happen, Clean
  <2>2. \A u \in Tasks : pc'[u] = pc[u] \/ pc'[u] \in {"begin", "refused"}
    BY <1>3 DEF DocToFileMT, Enter, Goto, TypeOK
  <2> QED
    BY <2>1, <2>2 DEF Answers
<1>4. ASSUME NEW t \in Tasks, Begin(t) PROVE Answers'
  BY <1>4 DEF Begin, Goto, TypeOK, Answers, Clean
<1>5. ASSUME NEW t \in Tasks, ParseURI(t) PROVE Answers'
  BY <1>5 DEF ParseURI, Goto, Undefined, Happen, TypeOK, Answers, Clean
<1>6. ASSUME NEW t \in Tasks, GetDocument(t) PROVE Answers'
  <2>1. CASE Happen({"connect"}) /\ Goto(t, "close") /\ UNCHANGED answer
    BY <1>6, <2>1 DEF Goto, Happen, TypeOK, Answers, Clean
  <2>2. ASSUME NEW a \in Received(Page[t]), Happen(a.faults), Goto(t, "free"),
               answer' = [answer EXCEPT ![t] = [null |-> a.null, parts |-> a.parts]]
        PROVE  Answers'
    <3>1. /\ Len(a.parts) <= Len(Page[t]) /\ \A n \in 1..Len(a.parts) : a.parts[n] = Page[t][n]
          /\ a.faults \in SUBSET {"cut", "reset"} /\ (a.faults = {} => a.parts = Page[t])
      BY ReceivedParts, PageAssumption
    <3>2. \A u \in Tasks \ {t} : answer'[u] = answer[u] /\ pc'[u] = pc[u]
      BY <2>2 DEF Goto, TypeOK
    <3>3. answer'[t].parts = a.parts
      BY <2>2 DEF TypeOK
    <3>4. Clean' => Clean /\ a.faults = {}
      <4>1. faults' = faults \cup a.faults
        BY <2>2 DEF Happen
      <4>2. ASSUME Clean', NEW f \in a.faults PROVE FALSE
        <5>1. f \in {"cut", "reset"}
          BY <3>1, <4>2
        <5>2. f \in faults'
          BY <4>1, <4>2
        <5> QED
          BY <4>2, <5>1, <5>2 DEF Clean
      <4> QED
        BY <4>1, <4>2 DEF Clean
    <3> QED
      BY <3>1, <3>2, <3>3, <3>4 DEF Answers
  <2> QED
    BY <1>6, <2>1, <2>2 DEF GetDocument
<1>7. ASSUME NEW t \in Tasks, FreePath(t) PROVE Answers'
  BY <1>7 DEF FreePath, At, Goto, Undefined, TypeOK, Answers, Clean
<1>8. ASSUME NEW t \in Tasks, SetPath(t) PROVE Answers'
  BY <1>8 DEF SetPath, At, Goto, TypeOK, Answers, Clean
<1>9. ASSUME NEW t \in Tasks, OpenFile(t) PROVE Answers'
  BY <1>9 DEF OpenFile, At, Goto, Happen, TypeOK, Answers, Clean
<1>10. ASSUME NEW t \in Tasks, ScanBytes(t) PROVE Answers'
  BY <1>10 DEF ScanBytes, At, Goto, Undefined, TypeOK, Answers, Clean
<1>11. ASSUME NEW t \in Tasks, ScanText(t) PROVE Answers'
  BY <1>11 DEF ScanText, TypeOK, Answers, Clean
<1>12. ASSUME NEW t \in Tasks, GetImagePath(t) PROVE Answers'
  BY <1>12 DEF GetImagePath, At, Goto, Undefined, Happen, TypeOK, Answers, Clean
<1>13. ASSUME NEW t \in Tasks, WriteLink(t) PROVE Answers'
  BY <1>13 DEF WriteLink, At, Goto, Undefined, TypeOK, Answers, Clean
<1>14. ASSUME NEW t \in Tasks, ScanEnds(t) PROVE Answers'
  BY <1>14 DEF ScanEnds, Goto, TypeOK, Answers, Clean
<1>15. ASSUME NEW t \in Tasks, Reopen(t) PROVE Answers'
  BY <1>15 DEF Reopen, Goto, Undefined, Happen, TypeOK, Answers, Clean
<1>16. ASSUME NEW t \in Tasks, FreeHost(t) PROVE Answers'
  BY <1>16 DEF FreeHost, Goto, Undefined, TypeOK, Answers, Clean
<1>17. ASSUME NEW t \in Tasks, ForgetHost(t) PROVE Answers'
  BY <1>17 DEF ForgetHost, Goto, TypeOK, Answers, Clean
<1>18. ASSUME NEW t \in Tasks, Flag(t) PROVE Answers'
  BY <1>18 DEF Flag, Goto, Undefined, Happen, TypeOK, Answers, Clean
<1>19. CASE JoinAll
  BY <1>19 DEF JoinAll, TypeOK, Answers, Clean
<1>20. CASE JoinReturns
  BY <1>20 DEF JoinReturns, TypeOK, Answers, Clean
<1>21. CASE DestroyAll
  BY <1>21 DEF DestroyAll, TypeOK, Answers, Clean
<1>22. CASE UNCHANGED vars
  BY <1>22 DEF vars, TypeOK, Answers, Clean
<1> QED
  BY <1>1, <1>2, <1>3, <1>4, <1>5, <1>6, <1>7, <1>8, <1>9, <1>10, <1>11, <1>12,
     <1>13, <1>14, <1>15, <1>16, <1>17, <1>18, <1>19, <1>20, <1>21, <1>22
  DEF Next, Retrieve

(* Every step keeps the scanner one task's.                                *)
LEMMA ScannedStep == TypeOK /\ Answers /\ Scanned /\ [Next]_vars => Scanned'
<1> SUFFICES ASSUME TypeOK, Answers, Scanned, [Next]_vars PROVE Scanned'
  OBVIOUS
<1>1. ASSUME NEW t \in Tasks, Get(t) PROVE Scanned'
  BY <1>1, ScannedUntouched DEF Get, Enter, Goto, results, TypeOK, Unwritten
<1>2. ASSUME NEW t \in Tasks, GetReturns(t) PROVE Scanned'
  BY <1>2, ScannedUntouched DEF GetReturns, At, Goto, results, TypeOK, Unwritten
<1>3. ASSUME NEW t \in Tasks, DocToFileMT(t) PROVE Scanned'
  BY <1>3, ScannedUntouched DEF DocToFileMT, Enter, Goto, results, TypeOK, Unwritten
<1>4. ASSUME NEW t \in Tasks, Begin(t) PROVE Scanned'
  BY <1>4, ScannedUntouched DEF Begin, At, Goto, results, TypeOK, Unwritten
<1>5. ASSUME NEW t \in Tasks, ParseURI(t) PROVE Scanned'
  BY <1>5, ScannedUntouched DEF ParseURI, At, Undefined, Goto, results, TypeOK, Unwritten
<1>6. ASSUME NEW t \in Tasks, GetDocument(t) PROVE Scanned'
  BY <1>6, ScannedUntouched DEF GetDocument, At, Goto, results, TypeOK, Unwritten
<1>7. ASSUME NEW t \in Tasks, FreePath(t) PROVE Scanned'
  BY <1>7, ScannedUntouched DEF FreePath, At, Undefined, Goto, results, TypeOK, Unwritten
<1>8. ASSUME NEW t \in Tasks, SetPath(t) PROVE Scanned'
  BY <1>8, ScannedUntouched DEF SetPath, At, Goto, results, TypeOK, Unwritten
<1>9. ASSUME NEW t \in Tasks, OpenFile(t) PROVE Scanned'
  BY <1>9, ScannedUntouched DEF OpenFile, At, Goto, results, TypeOK, Unwritten
<1>10. ASSUME NEW t \in Tasks, ScanBytes(t) PROVE Scanned'
  <2>1. CASE Undefined
    BY <1>10, <2>1, ScannedUntouched DEF ScanBytes, Undefined, results
  <2>2. CASE Scanning = {} /\ Goto(t, "lex")
    <3>1. pc[t] = "bytes" /\ UNCHANGED <<files, start, unclosed>>
      BY <1>10 DEF ScanBytes, At, results, scanner
    <3>2. pc'[t] = "lex" /\ \A u \in Tasks \ {t} : pc'[u] = pc[u]
      BY <2>2 DEF Goto, TypeOK
    <3>3. Scanning' = {t}
      BY <2>2, <3>2 DEF Scanning
    <3>4. files[t] = <<>> /\ t \notin unclosed
      BY <3>1 DEF Scanned, Unwritten
    <3>5. unclosed = {} => start = "INITIAL"
      BY <2>2 DEF Scanned
    <3> QED
      BY <3>1, <3>2, <3>3, <3>4, <3>5 DEF Scanned, Unwritten
  <2> QED
    BY <1>10, <2>1, <2>2 DEF ScanBytes
<1>11. ASSUME NEW t \in Tasks, ScanText(t) PROVE Scanned'
  BY <1>11, WriteScans DEF ScanText, At
<1>12. ASSUME NEW t \in Tasks, GetImagePath(t) PROVE Scanned'
  BY <1>12, ScannedUntouched DEF GetImagePath, At, Undefined, Goto, results, TypeOK, Unwritten
<1>13. ASSUME NEW t \in Tasks, WriteLink(t) PROVE Scanned'
  <2>1. CASE UNCHANGED <<files, start, pc>>
    BY <1>13, <2>1, ScannedUntouched DEF WriteLink, scanner
  <2>2. ASSUME NEW h, NEW l, Write(t, h, l), Goto(t, "lex") PROVE Scanned'
    <3>1. pc'[t] = "lex" /\ \A u \in Tasks \ {t} : pc'[u] = pc[u]
      BY <2>2 DEF Goto, TypeOK
    <3> QED
      BY <1>13, <2>2, <3>1, WriteScans DEF WriteLink, At
  <2> QED
    BY <1>13, <2>1, <2>2 DEF WriteLink, Undefined
<1>14. ASSUME NEW t \in Tasks, ScanEnds(t) PROVE Scanned'
  <2>1. pc[t] = "lex" /\ UNCHANGED <<files, start>>
        /\ unclosed' = IF start = "INITIAL" THEN unclosed ELSE unclosed \cup {t}
    BY <1>14 DEF ScanEnds, At, results
  <2>2. pc'[t] = "reopen" /\ \A u \in Tasks \ {t} : pc'[u] = pc[u]
    BY <1>14 DEF ScanEnds, Goto, TypeOK
  <2>3. Scanning' = {}
    BY <2>1, <2>2 DEF Scanning, Scanned
  <2>4. \A u \in Tasks : unclosed' \subseteq {u} => unclosed \subseteq {u}
    BY <2>1
  <2>5. unclosed' = {} => start' = "INITIAL"
    BY <2>1
  <2>6. \A u \in Tasks : pc'[u] \in Unwritten \cup {"lex", "write"} => u # t /\ u \notin unclosed /\ pc[u] = pc'[u]
    BY <2>2 DEF Scanned, Unwritten
  <2> QED
    BY <2>1, <2>3, <2>4, <2>5, <2>6 DEF Scanned
<1>15. ASSUME NEW t \in Tasks, Reopen(t) PROVE Scanned'
  BY <1>15, ScannedUntouched DEF Reopen, At, Undefined, Goto, results, TypeOK, Unwritten
<1>16. ASSUME NEW t \in Tasks, FreeHost(t) PROVE Scanned'
  BY <1>16, ScannedUntouched DEF FreeHost, At, Undefined, Goto, results, TypeOK, Unwritten
<1>17. ASSUME NEW t \in Tasks, ForgetHost(t) PROVE Scanned'
  BY <1>17, ScannedUntouched DEF ForgetHost, At, Goto, results, TypeOK, Unwritten
<1>18. ASSUME NEW t \in Tasks, Flag(t) PROVE Scanned'
  BY <1>18, ScannedUntouched DEF Flag, At, Undefined, Goto, results, TypeOK, Unwritten
<1>19. CASE JoinAll
  BY <1>19, ScannedUntouched DEF JoinAll, results
<1>20. CASE JoinReturns
  BY <1>20, ScannedUntouched DEF JoinReturns, results
<1>21. CASE DestroyAll
  BY <1>21, ScannedUntouched DEF DestroyAll, results
<1>22. CASE UNCHANGED vars
  BY <1>22, ScannedUntouched DEF vars, results
<1> QED
  BY <1>1, <1>2, <1>3, <1>4, <1>5, <1>6, <1>7, <1>8, <1>9, <1>10, <1>11, <1>12,
     <1>13, <1>14, <1>15, <1>16, <1>17, <1>18, <1>19, <1>20, <1>21, <1>22
  DEF Next, Retrieve

Finished == {"reopen", "close", "forget", "done", "ended"}

(* Steps that leave what was received and written as it is.                 *)
LEMMA FilledUntouched ==
    ASSUME Filled, UNCHANGED <<answer, files, start>>, overlapped \subseteq overlapped', Clean' => Clean,
           \A t \in flagged' : t \in flagged \/ pc'[t] = "ended",
           \A t \in Tasks :
               /\ pc'[t] = "write" => pc[t] = "write"
               /\ pc'[t] \in Finished /\ Clean' => pc[t] \in Finished
               /\ pc[t] = "ended" => pc'[t] = "ended"
    PROVE  Filled'
<1>1. \A t : MoreParts(t)' = MoreParts(t) /\ ActAt(t)' = ActAt(t)
  BY DEF MoreParts, ActAt, Part, Place
<1>2. \A t, n : Completed(t, n)' = Completed(t, n)
  BY DEF Completed, ConditionAt, Own
<1> QED
  BY <1>1, <1>2 DEF Filled, Finished

(* Every step keeps files that are what was received.                     *)
LEMMA FilledStep == TypeOK /\ Alone /\ Named /\ Answers /\ Scanned /\ Filled /\ [Next]_vars => Filled'
<1> SUFFICES ASSUME TypeOK, Alone, Named, Answers, Scanned, Filled, [Next]_vars PROVE Filled'
  OBVIOUS
<1>1. ASSUME NEW t \in Tasks, Get(t) PROVE Filled'
  BY <1>1, FilledUntouched
  DEF Get, Enter, Busy, Goto, Clean, Finished, results, scanner, TypeOK
<1>2. ASSUME NEW t \in Tasks, GetReturns(t) PROVE Filled'
  BY <1>2, FilledUntouched
  DEF GetReturns, At, Goto, Clean, Finished, results, scanner, TypeOK
<1>3. ASSUME NEW t \in Tasks, DocToFileMT(t) PROVE Filled'
  BY <1>3, FilledUntouched
  DEF DocToFileMT, Enter, Busy, Happen, Goto, Clean, Finished, results, scanner, TypeOK
<1>4. ASSUME NEW t \in Tasks, Begin(t) PROVE Filled'
  BY <1>4, FilledUntouched
  DEF Begin, At, Goto, Clean, Finished, results, scanner, TypeOK
<1>5. ASSUME NEW t \in Tasks, ParseURI(t) PROVE Filled'
  BY <1>5, FilledUntouched
  DEF ParseURI, At, Undefined, Happen, Goto, Clean, Finished, results, scanner, TypeOK
<1>6. ASSUME NEW t \in Tasks, GetDocument(t) PROVE Filled'
  <2>1. pc[t] = "fetch" /\ UNCHANGED <<files, start, flagged, overlapped>> /\ (Clean' => Clean)
    BY <1>6 DEF GetDocument, At, Happen, Clean, results, scanner
  <2>2. \A u \in Tasks \ {t} : answer'[u] = answer[u] /\ pc'[u] = pc[u]
    BY <1>6 DEF GetDocument, Goto, TypeOK
  <2>3. pc'[t] = "free" \/ (pc'[t] = "close" /\ ~Clean')
    BY <1>6 DEF GetDocument, Goto, Happen, TypeOK, Clean
  <2>4. files[t] = <<>> /\ (t \notin overlapped => t \notin flagged)
    BY <2>1 DEF Scanned, Filled, Unwritten
  <2>5. Len(answer'[t].parts) \in Nat
    BY <1>6, TypeStep DEF Next, Retrieve, TypeOK
  <2>6. \A u \in Tasks \ {t} : MoreParts(u)' = MoreParts(u) /\ ActAt(u)' = ActAt(u)
    BY <2>1, <2>2 DEF MoreParts, ActAt, Part, Place
  <2>7. \A u, n : Completed(u, n)' = Completed(u, n)
    BY <2>1 DEF Completed, ConditionAt, Own
  <2>8. \A u \in Tasks : u # t => u \in Tasks \ {t}
    OBVIOUS
  <2> QED
    BY <2>1, <2>2, <2>3, <2>4, <2>5, <2>6, <2>7, <2>8 DEF Filled
<1>7. ASSUME NEW t \in Tasks, FreePath(t) PROVE Filled'
  BY <1>7, FilledUntouched
  DEF FreePath, At, Undefined, Goto, Clean, Finished, results, scanner, TypeOK
<1>8. ASSUME NEW t \in Tasks, SetPath(t) PROVE Filled'
  BY <1>8, FilledUntouched
  DEF SetPath, At, Goto, Clean, Finished, results, scanner, TypeOK
<1>9. ASSUME NEW t \in Tasks, OpenFile(t) PROVE Filled'
  BY <1>9, FilledUntouched
  DEF OpenFile, At, Happen, Goto, Clean, Finished, results, scanner, TypeOK
<1>10. ASSUME NEW t \in Tasks, ScanBytes(t) PROVE Filled'
  BY <1>10, FilledUntouched
  DEF ScanBytes, At, Undefined, Goto, Clean, Finished, results, scanner, TypeOK
<1>11. ASSUME NEW t \in Tasks, ScanText(t) PROVE Filled'
  <2>1. Written(start, ActAt(t), None, None) = Own(t, start, ActAt(t))
    BY <1>11 DEF ScanText, Own
  <2> QED
    BY <1>11, <2>1, WriteFills DEF ScanText, At
<1>12. ASSUME NEW t \in Tasks, GetImagePath(t) PROVE Filled'
  <2>1. UNCHANGED <<answer, files, start, flagged, overlapped>> /\ (Clean' => Clean)
    BY <1>12 DEF GetImagePath, Happen, Clean, scanner
  <2>2. pc[t] = "lex" /\ MoreParts(t) /\ ActAt(t) \in Images /\ (UNCHANGED pc \/ Goto(t, "write"))
    BY <1>12 DEF GetImagePath, At, Undefined
  <2>3. CASE UNCHANGED pc
    BY <2>1, <2>3, FilledUntouched
  <2>4. CASE Goto(t, "write")
    <3>1. \A u : MoreParts(u)' = MoreParts(u) /\ ActAt(u)' = ActAt(u)
      BY <2>1 DEF MoreParts, ActAt, Part, Place
    <3>2. \A u, n : Completed(u, n)' = Completed(u, n)
      BY <2>1 DEF Completed, ConditionAt, Own
    <3>3. pc'[t] = "write" /\ \A u \in Tasks : u # t => pc'[u] = pc[u]
      BY <2>4 DEF Goto, TypeOK
    <3> QED
      BY <2>1, <2>2, <3>1, <3>2, <3>3 DEF Filled
  <2> QED
    BY <2>2, <2>3, <2>4
<1>13. ASSUME NEW t \in Tasks, WriteLink(t) PROVE Filled'
  <2>1. CASE UNCHANGED <<files, start, pc>>
    BY <1>13, <2>1, FilledUntouched DEF WriteLink, Clean
  <2>2. ASSUME NEW h, NEW l, Write(t, h, l), Goto(t, "lex"),
               t \notin overlapped => Written(start, ActAt(t), h, l) = Own(t, start, ActAt(t))
        PROVE  Filled'
    <3>1. pc'[t] = "lex" /\ \A u \in Tasks \ {t} : pc'[u] = pc[u]
      BY <2>2 DEF Goto, TypeOK
    <3> QED
      BY <1>13, <2>2, <3>1, WriteFills DEF WriteLink, At
  <2>3. ActAt(t) \in Images \cup Anchors \/ t \in overlapped
    BY <1>13 DEF WriteLink, At, Filled
  <2>4. t \notin overlapped => hostname = t /\ lastpath = t
    BY <1>13 DEF WriteLink, At, Named, Busy, Outside
  <2>5. CASE ActAt(t) = "remote" /\ Write(t, None, None) /\ Goto(t, "lex")
    <3>1. Written(start, ActAt(t), None, None) = Own(t, start, ActAt(t))
      BY <2>5 DEF Own
    <3> QED
      BY <2>2, <2>5, <3>1
  <2>6. CASE /\ ActAt(t) # "remote" /\ Goto(t, "lex")
             /\ Write(t, hostname, IF ActAt(t) \in {"image", "anchor"} THEN lastpath ELSE None)
    <3>1. t \notin overlapped =>
              Written(start, ActAt(t), hostname, IF ActAt(t) \in {"image", "anchor"} THEN lastpath ELSE None)
              = Own(t, start, ActAt(t))
      BY <2>3, <2>4, <2>6 DEF Own, Images, Anchors
    <3> QED
      BY <2>2, <2>6, <3>1
  <2> QED
    BY <1>13, <2>1, <2>5, <2>6 DEF WriteLink, Undefined
<1>14. ASSUME NEW t \in Tasks, ScanEnds(t) PROVE Filled'
  <2>1. pc[t] = "lex" /\ ~MoreParts(t) /\ UNCHANGED <<answer, files, start, flagged, overlapped, faults>>
    BY <1>14 DEF ScanEnds, At, results
  <2>2. t \notin overlapped /\ Clean => Len(files[t]) = Len(Page[t])
    <3>1. Len(files[t]) \in Nat /\ Len(answer[t].parts) \in Nat
      BY DEF TypeOK
    <3> QED
      BY <2>1, <3>1 DEF Filled, Answers, MoreParts, Place
  <2>3. \A u : MoreParts(u)' = MoreParts(u) /\ ActAt(u)' = ActAt(u)
    BY <2>1 DEF MoreParts, ActAt, Part, Place
  <2>4. Clean' = Clean /\ \A u, n : Completed(u, n)' = Completed(u, n)
    BY <2>1 DEF Clean, Completed, ConditionAt, Own
  <2>5. pc'[t] = "reopen" /\ \A u \in Tasks : u # t => pc'[u] = pc[u]
    BY <1>14 DEF ScanEnds, Goto, TypeOK
  <2> QED
    BY <2>1, <2>2, <2>3, <2>4, <2>5 DEF Filled
<1>15. ASSUME NEW t \in Tasks, Reopen(t) PROVE Filled'
  BY <1>15, FilledUntouched
  DEF Reopen, At, Undefined, Happen, Goto, Clean, Finished, results, scanner, TypeOK
<1>16. ASSUME NEW t \in Tasks, FreeHost(t) PROVE Filled'
  BY <1>16, FilledUntouched
  DEF FreeHost, At, Undefined, Goto, Clean, Finished, results, scanner, TypeOK
<1>17. ASSUME NEW t \in Tasks, ForgetHost(t) PROVE Filled'
  BY <1>17, FilledUntouched
  DEF ForgetHost, At, Goto, Clean, Finished, results, scanner, TypeOK
<1>18. ASSUME NEW t \in Tasks, Flag(t) PROVE Filled'
  BY <1>18, FilledUntouched
  DEF Flag, At, Undefined, Happen, Goto, Clean, Finished, results, scanner, TypeOK
<1>19. CASE JoinAll
  BY <1>19, FilledUntouched DEF JoinAll, Clean, results, scanner
<1>20. CASE JoinReturns
  BY <1>20, FilledUntouched DEF JoinReturns, Clean, results, scanner
<1>21. CASE DestroyAll
  BY <1>21, FilledUntouched DEF DestroyAll, Clean, results, scanner
<1>22. CASE UNCHANGED vars
  BY <1>22, FilledUntouched DEF vars, Clean, results, scanner
<1> QED
  BY <1>1, <1>2, <1>3, <1>4, <1>5, <1>6, <1>7, <1>8, <1>9, <1>10, <1>11, <1>12,
     <1>13, <1>14, <1>15, <1>16, <1>17, <1>18, <1>19, <1>20, <1>21, <1>22
  DEF Next, Retrieve

(* A part that is written, an image only once it was retrieved, keeps them.  *)
LEMMA WriteKeeps ==
    ASSUME TypeOK, Kept, NEW t \in Tasks, NEW h, NEW l, Write(t, h, l),
           UNCHANGED <<cache, overlapped, faults>>, pc'[t] = "lex",
           \A u \in Tasks \ {t} : pc'[u] = pc[u],
           ActAt(t) \in Images => pc[t] = "write"
    PROVE  Kept'
<1>1. /\ Len(files[t]) \in Nat /\ Len(files'[t]) = Len(files[t]) + 1
      /\ \A n \in 1..Len(files[t]) : files'[t][n] = files[t][n]
      /\ files'[t][Len(files[t]) + 1] = Written(start, ActAt(t), h, l)
      /\ \A u \in Tasks \ {t} : files'[u] = files[u]
  BY WriteAdds
<1>2. Written(start, ActAt(t), h, l).act = ActAt(t)
  BY DEF Written
<1>3. Clean' = Clean /\ \A u, n : Has(u, n)' = Has(u, n)
  BY DEF Clean, Has
<1>4. Place(t) = Len(files[t]) + 1 /\ \A u \in Tasks \ {t} : Place(u)' = Place(u)
  BY <1>1 DEF Place
<1>5. ASSUME t \notin overlapped, Clean, NEW n \in 1..Len(files'[t]), files'[t][n].act \in Images
      PROVE  Has(t, n)
  <2>1. CASE n = Len(files[t]) + 1
    BY <1>1, <1>2, <1>4, <1>5, <2>1 DEF Kept
  <2>2. CASE n \in 1..Len(files[t])
    BY <1>1, <1>5, <2>2 DEF Kept
  <2> QED
    BY <1>1, <2>1, <2>2
<1> QED
  BY <1>1, <1>3, <1>4, <1>5 DEF Kept

(* Every step keeps the images.                                           *)
LEMMA KeptStep == TypeOK /\ Alone /\ Named /\ Filled /\ Kept /\ [Next]_vars => Kept'
<1> SUFFICES ASSUME TypeOK, Alone, Named, Filled, Kept, [Next]_vars PROVE Kept'
  OBVIOUS
<1>1. ASSUME NEW t \in Tasks, Get(t) PROVE Kept'
  BY <1>1, KeptUntouched DEF Get, Enter, Goto, results, Clean, TypeOK
<1>2. ASSUME NEW t \in Tasks, GetReturns(t) PROVE Kept'
  BY <1>2, KeptUntouched DEF GetReturns, results, Goto, Clean, TypeOK
<1>3. ASSUME NEW t \in Tasks, DocToFileMT(t) PROVE Kept'
  BY <1>3, KeptUntouched DEF DocToFileMT, Enter, Goto, Happen, results, Clean, TypeOK
<1>4. ASSUME NEW t \in Tasks, Begin(t) PROVE Kept'
  BY <1>4, KeptUntouched DEF Begin, results, Goto, Clean, TypeOK
<1>5. ASSUME NEW t \in Tasks, ParseURI(t) PROVE Kept'
  BY <1>5, KeptUntouched DEF ParseURI, Goto, Undefined, Happen, results, Clean, TypeOK
<1>6. ASSUME NEW t \in Tasks, GetDocument(t) PROVE Kept'
  BY <1>6, KeptUntouched DEF GetDocument, Goto, Happen, results, Clean, TypeOK
<1>7. ASSUME NEW t \in Tasks, FreePath(t) PROVE Kept'
  BY <1>7, KeptUntouched DEF FreePath, Goto, Undefined, results, Clean, TypeOK
<1>8. ASSUME NEW t \in Tasks, SetPath(t) PROVE Kept'
  BY <1>8, KeptUntouched DEF SetPath, results, Goto, Clean, TypeOK
<1>9. ASSUME NEW t \in Tasks, OpenFile(t) PROVE Kept'
  BY <1>9, KeptUntouched DEF OpenFile, Goto, Happen, results, Clean, TypeOK
<1>10. ASSUME NEW t \in Tasks, ScanBytes(t) PROVE Kept'
  BY <1>10, KeptUntouched DEF ScanBytes, Goto, Undefined, results, Clean, TypeOK
<1>11. ASSUME NEW t \in Tasks, ScanText(t) PROVE Kept'
  <2>1. ActAt(t) \notin Images
    BY <1>11 DEF ScanText, Images
  <2> QED
    BY <1>11, <2>1, WriteKeeps DEF ScanText, At
<1>12. ASSUME NEW t \in Tasks, GetImagePath(t) PROVE Kept'
  <2>1. UNCHANGED <<files, overlapped>> /\ pc[t] = "lex" /\ (Clean' => Clean)
    BY <1>12 DEF GetImagePath, At, Happen, Clean
  <2>2. CASE UNCHANGED cache /\ (Clean' => UNCHANGED pc)
    <3>1. \A u \in Tasks : pc'[u] = "write" /\ Clean' => pc[u] = "write"
      BY <2>2
    <3>2. \A u, n : (Has(u, n) <=> Has(u, n)') /\ Place(u) = Place(u)'
      BY <2>1, <2>2 DEF Has, Place
    <3> QED
      BY <2>1, <2>2, <3>1, <3>2 DEF Kept
  <2>3. CASE cache' = cache \cup {Stored(t)} /\ Goto(t, "write")
    <3>1. /\ Stored(t).task = t /\ Stored(t).place = Place(t)
          /\ t \notin overlapped => /\ Stored(t).port = t /\ Stored(t).host \in {None, t}
                                   /\ Stored(t).path \in {None, t}
      BY <2>1 DEF Stored, Named, Busy, Outside
    <3>2. \A u, n : Has(u, n) => Has(u, n)'
      BY <2>3 DEF Has
    <3>3. Has(t, Place(t))'
      BY <2>1, <2>3, <3>1 DEF Has, Place
    <3>4. \A u \in Tasks : pc'[u] = pc[u] \/ u = t
      BY <2>3 DEF Goto, TypeOK
    <3>5. \A u : Place(u)' = Place(u)
      BY <2>1 DEF Place
    <3> QED
      BY <2>1, <2>3, <3>1, <3>2, <3>3, <3>4, <3>5 DEF Kept
  <2>4. \A a \in Received(<<"bytes">>) : a.faults \in SUBSET {"cut", "reset"} /\ (a.faults = {} => a.parts = <<"bytes">>)
    <3>1. <<"bytes">> \in Seq({"bytes"})
      OBVIOUS
    <3> QED
      BY <3>1, ReceivedParts
  <2>5. <<"bytes">> # <<>>
    OBVIOUS
  <2>6. CASE Undefined /\ UNCHANGED cache
    BY <2>2, <2>6 DEF Undefined
  <2>7. ASSUME NEW f \in {"connect", "fopen"}, Happen({f}), UNCHANGED cache PROVE Kept'
    BY <2>2, <2>7 DEF Happen, Clean
  <2>8. ASSUME NEW a \in Received(<<"bytes">>), Happen(a.faults), Goto(t, "write"),
               cache' = IF a.parts = <<>> THEN cache ELSE cache \cup {Stored(t)}
        PROVE  Kept'
    <3>1. CASE a.parts # <<>>
      BY <2>3, <2>8, <3>1
    <3>2. CASE a.parts = <<>>
      <4>1. \E f \in {"cut", "reset"} : f \in a.faults
        BY <2>4, <2>5, <3>2
      <4>2. ~Clean'
        BY <2>8, <4>1 DEF Clean, Happen
      <4> QED
        BY <2>2, <2>8, <3>2, <4>2
    <3> QED
      BY <3>1, <3>2
  <2> QED
    BY <1>12, <2>6, <2>7, <2>8 DEF GetImagePath
<1>13. ASSUME NEW t \in Tasks, WriteLink(t) PROVE Kept'
  <2>1. CASE UNCHANGED <<files, pc>>
    BY <1>13, <2>1, KeptUntouched DEF WriteLink, Clean
  <2>2. ASSUME NEW h, NEW l, Write(t, h, l), Goto(t, "lex") PROVE Kept'
    <3>1. pc'[t] = "lex" /\ \A u \in Tasks \ {t} : pc'[u] = pc[u]
      BY <2>2 DEF Goto, TypeOK
    <3>2. ActAt(t) \in Images => pc[t] = "write"
      BY <1>13 DEF WriteLink, At, Images, Anchors
    <3> QED
      BY <1>13, <2>2, <3>1, <3>2, WriteKeeps DEF WriteLink
  <2> QED
    BY <1>13, <2>1, <2>2 DEF WriteLink, Undefined
<1>14. ASSUME NEW t \in Tasks, ScanEnds(t) PROVE Kept'
  BY <1>14, KeptUntouched DEF ScanEnds, Goto, results, Clean, TypeOK
<1>15. ASSUME NEW t \in Tasks, Reopen(t) PROVE Kept'
  BY <1>15, KeptUntouched DEF Reopen, Goto, Undefined, Happen, results, Clean, TypeOK
<1>16. ASSUME NEW t \in Tasks, FreeHost(t) PROVE Kept'
  BY <1>16, KeptUntouched DEF FreeHost, Goto, Undefined, results, Clean, TypeOK
<1>17. ASSUME NEW t \in Tasks, ForgetHost(t) PROVE Kept'
  BY <1>17, KeptUntouched DEF ForgetHost, Goto, results, Clean, TypeOK
<1>18. ASSUME NEW t \in Tasks, Flag(t) PROVE Kept'
  BY <1>18, KeptUntouched DEF Flag, Goto, Undefined, Happen, Clean, TypeOK
<1>19. CASE JoinAll
  BY <1>19, KeptUntouched DEF JoinAll, results, Clean, TypeOK
<1>20. CASE JoinReturns
  BY <1>20, KeptUntouched DEF JoinReturns, results, Clean, TypeOK
<1>21. CASE DestroyAll
  BY <1>21, KeptUntouched DEF DestroyAll, results, Clean, TypeOK
<1>22. CASE UNCHANGED vars
  BY <1>22, KeptUntouched DEF vars, results, Clean
<1> QED
  BY <1>1, <1>2, <1>3, <1>4, <1>5, <1>6, <1>7, <1>8, <1>9, <1>10, <1>11, <1>12,
     <1>13, <1>14, <1>15, <1>16, <1>17, <1>18, <1>19, <1>20, <1>21, <1>22
  DEF Next, Retrieve

(* The types of HttpClient's variables, for every behaviour of it.          *)
THEOREM TypeCorrect == Spec => []TypeOK
<1>1. Init => TypeOK
  BY DEF Init, TypeOK, NoAnswer, Places, TaskOrNone, Conditions
<1> QED
  BY <1>1, TypeStep, PTL DEF Spec

(* Retrieving one document at a time uses no pointer that is null or was    *)
(* freed but at the four places of DefinedAlone, each after its own fault,  *)
(* whatever pages and servers there are and however many documents.        *)
THEOREM MemoryDefinedAlone == Spec => []DefinedAlone
<1> DEFINE IInv == TypeOK /\ Alone /\ Named /\ Memory /\ Lost /\ DefinedAlone
<1>1. Init => IInv
  <2> SUFFICES ASSUME Init PROVE IInv
    OBVIOUS
  <2>1. TypeOK
    BY DEF Init, TypeOK, NoAnswer, Places, TaskOrNone, Conditions
  <2>2. Busy = {}
    BY DEF Init, Busy, Outside
  <2>3. Memory /\ Lost /\ DefinedAlone
    BY TasksAssumption DEF Init, Memory, Lost, DefinedAlone, NoAnswer, NoBytes, Early
  <2> QED
    BY <2>1, <2>2, <2>3 DEF Alone, Named
<1>2. IInv /\ [Next]_vars => IInv'
  BY TypeStep, AloneStep, NamedStep, MemoryStep, LostStep, DefinedStep
<1> QED
  BY <1>1, <1>2, PTL DEF Spec

(* Nothing is received, written or scanned at first.                        *)
LEMMA FilesBegin == Init => TypeOK /\ Alone /\ Named /\ Answers /\ Scanned /\ Filled
<1> SUFFICES ASSUME Init PROVE TypeOK /\ Alone /\ Named /\ Answers /\ Scanned /\ Filled
  OBVIOUS
<1>1. TypeOK
  BY DEF Init, TypeOK, NoAnswer, Places, TaskOrNone, Conditions
<1>2. Busy = {} /\ Scanning = {}
  BY DEF Init, Busy, Scanning, Outside
<1>3. Answers
  BY PageAssumption DEF Init, Answers, NoAnswer
<1>4. Filled
  BY DEF Init, Filled, NoAnswer
<1>5. Scanned
  <2>1. \A t \in Tasks : t \notin unclosed
    BY TasksAssumption DEF Init
  <2>2. \A t \in Tasks : files[t] = <<>>
    BY DEF Init
  <2>3. unclosed = {} => start = "INITIAL"
    BY DEF Init
  <2> QED
    BY <1>2, <2>1, <2>2, <2>3 DEF Scanned
<1> QED
  BY <1>1, <1>2, <1>3, <1>4, <1>5 DEF Alone, Named

(* The file of a task that ran alone is its own page as far as it was       *)
(* received, cut from the condition the scanner was left in, with its own   *)
(* host name and path, and whole if nothing failed.                        *)
THEOREM FilesTheirOwn == Spec => []OwnFile
<1> DEFINE IInv == TypeOK /\ Alone /\ Named /\ Answers /\ Scanned /\ Filled
<1>1. Init => IInv
  BY FilesBegin
<1>2. IInv /\ [Next]_vars => IInv'
  BY TypeStep, AloneStep, NamedStep, AnswersStep, ScannedStep, FilledStep
<1>3. IInv => OwnFile
  BY DEF Scanned, Filled, OwnFile
<1> QED
  BY <1>1, <1>2, <1>3, PTL DEF Spec

(* The images of a page that was retrieved alone were asked of its own      *)
(* server, and of those that the rules find from where the scanner was left *)
(* none is missing if nothing failed.                                      *)
THEOREM ImagesTheirOwn == Spec => []OwnImages
<1> DEFINE IInv == TypeOK /\ Alone /\ Named /\ Answers /\ Scanned /\ Filled /\ Kept
<1>1. Init => IInv
  <2>1. Init => Kept
    BY DEF Init, Kept
  <2> QED
    BY <2>1, FilesBegin
<1>2. IInv /\ [Next]_vars => IInv'
  BY TypeStep, AloneStep, NamedStep, AnswersStep, ScannedStep, FilledStep, KeptStep
<1>3. IInv => OwnImages
  <2> SUFFICES ASSUME TypeOK, Filled, Kept PROVE OwnImages
    OBVIOUS
  <2>1. \A t \in Tasks : DOMAIN files[t] = 1..Len(files[t])
    BY DEF TypeOK
  <2>2. \A t, n : Completed(t, n).act = Act(ConditionAt(t, n), Page[t][n])
    BY DEF Completed, Own, Written
  <2>3. ASSUME NEW t \in Tasks \ overlapped, Clean, NEW n \in 1..Len(files[t]),
               Act(ConditionAt(t, n), Page[t][n]) \in Images
        PROVE  Has(t, n)
    <3>1. files[t][n] = Completed(t, n)
      BY DEF Filled
    <3> QED
      BY <2>2, <2>3, <3>1 DEF Kept
  <2> QED
    BY <2>1, <2>3 DEF Kept, OwnImages, Has
<1> QED
  BY <1>1, <1>2, <1>3, PTL DEF Spec
=============================================================================
