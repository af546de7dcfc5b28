------------------------------- MODULE HttpClient -------------------------------
(***************************************************************************)
(* Documents retrieved: w3ClientDocToFile of client/src/w3client.c with     *)
(* w3ClientGetDocument, w3ClientGetImagePath, w3ParseURI and w3ReceiveData, *)
(* called directly or in threads of its own (w3ClientDocToFileMT, w3thread) *)
(* that share clientGlobal and the scanner without a lock.                  *)
(*                                                                         *)
(* A page is a sequence of the pieces of text that the rules of img.lex tell *)
(* apart; what a rule does with one depends on the start condition, which   *)
(* is static, is not set back between documents and so is left to the next. *)
(* A string that a task put into clientGlobal goes by the name of the task; *)
(* every task puts there at most one host name and one path, each a block   *)
(* of memory of its own.  What the build does after a null or freed pointer *)
(* was used, or two threads were in the scanner, is left open: the process  *)
(* is "undefined" and the model stops.                                     *)
(***************************************************************************)
EXTENDS Naturals, Sequences, FiniteSets, SequencesExt

CONSTANTS Tasks,        \* documents to retrieve, each once
          Page,         \* the parts of each document
          None,
          Earlier,      \* a document that was retrieved before
          MaxFaults     \* kinds of faults that happen in one run

\* <img , src=", http://, x", /x", <a , href=" and text with no meaning to the scanner
Parts == {"img", "src", "http", "name", "root", "a", "href", "other"}
Conditions == {"INITIAL", "SOURCEFRONT", "IMAGENAME", "IMAGEREMOTE", "ATAGFOUND", "HREFTAGFOUND"}
Acts == {"text", "drop", "image", "rootimage", "remote", "anchor", "rootanchor"}
Images == {"image", "rootimage", "remote"}
Anchors == {"anchor", "rootanchor"}
Faults == {"thread", "long", "connect", "cut", "reset", "fopen", "reopen", "flag"}

ASSUME TasksAssumption == {None, Earlier} \cap Tasks = {} /\ None # Earlier /\ IsFiniteSet(Tasks)
ASSUME PageAssumption == Page \in [Tasks -> Seq(Parts)]
ASSUME FaultsAssumption == MaxFaults \in Nat

VARIABLES process,      \* "running", "killed" or "undefined"
          app,          \* "idle", "join" or the task it retrieves itself
          threads,      \* clientGlobal.threads
          pc,           \* where each task is
          port,         \* clientGlobal.port
          hostname,     \* clientGlobal.hostname
          lastpath,     \* clientGlobal.lastpath
          freed,        \* blocks that were freed
          answer,       \* doc.data and doc.dataLength of each task
          files,        \* the file of each task
          cache,        \* images stored
          flagged,      \* tasks with a .done file
          start,        \* yy_start, the scanner's start condition
          unclosed,     \* documents that left another start condition than the first
          overlapped,   \* tasks that ran at the same time as another
          faults        \* faults there were

global == <<port, hostname, lastpath, freed>>
results == <<files, cache, flagged>>
scanner == <<start, unclosed>>
vars == <<process, app, threads, pc, global, answer, results, scanner, overlapped, faults>>

NoAnswer == [null |-> TRUE, parts |-> <<>>]

(* If a document was retrieved before, the scanner is as that one left it.   *)
Init ==
    /\ process = "running" /\ app = "idle" /\ threads = <<>>
    /\ pc = [t \in Tasks |-> "new"]
    /\ port = None /\ hostname = None /\ lastpath \in {None, Earlier} /\ freed = {}
    /\ answer = [t \in Tasks |-> NoAnswer]
    /\ files = [t \in Tasks |-> <<>>] /\ cache = {} /\ flagged = {}
    /\ start \in Conditions /\ (lastpath = None => start = "INITIAL")
    /\ unclosed = IF start = "INITIAL" THEN {} ELSE {Earlier}
    /\ overlapped = {} /\ faults = {}

-----------------------------------------------------------------------------
(* Faults F happen, each kind once in a run.                                *)
Happen(F) ==
    /\ F \cap faults = {} /\ Cardinality(faults \cup F) <= MaxFaults
    /\ faults' = faults \cup F

At(t, place) == process = "running" /\ pc[t] = place
Goto(t, place) == pc' = [pc EXCEPT ![t] = place]
Undefined == process' = "undefined" /\ UNCHANGED pc

Outside == {"new", "refused", "done", "ended"}
Busy == {t \in Tasks : pc[t] \notin Outside}
Scanning == {t \in Tasks : pc[t] \in {"lex", "write"}}

Host(t) == <<"hostname", t>>
Path(t) == <<"lastpath", t>>
HostReadable == hostname # None /\ Host(hostname) \notin freed
PathReadable == lastpath # None /\ Path(lastpath) \notin freed

-----------------------------------------------------------------------------
(* The application.  A task enters w3ClientDocToFile.                       *)
Enter(t) ==
    /\ pc[t] = "new" /\ Goto(t, "begin")
    /\ overlapped' = IF Busy = {} THEN overlapped ELSE overlapped \cup Busy \cup {t}

Get(t) ==
    /\ process = "running" /\ app = "idle"
    /\ Enter(t) /\ app' = t
    /\ UNCHANGED <<process, threads, global, answer, results, faults, scanner>>

GetReturns(t) ==
    /\ At(t, "done") /\ app = t
    /\ app' = "idle" /\ Goto(t, "ended")
    /\ UNCHANGED <<process, threads, global, answer, results, overlapped, faults, scanner>>

(* Mutant: a thread that could not be created is listed. *)
DocToFileMTUnchecked(t) ==
    /\ process = "running" /\ app = "idle"
    /\ \/ /\ Enter(t) /\ threads' = Append(threads, t)
          /\ UNCHANGED faults
       \/ /\ pc[t] = "new" /\ Happen({"thread"})
          /\ Goto(t, "refused") /\ threads' = Append(threads, None)
          /\ UNCHANGED overlapped
    /\ UNCHANGED <<process, app, global, answer, results, scanner>>

(* w3ClientDocToFileMT and w3ThreadRun.                                     *)
DocToFileMT(t) ==
    /\ process = "running" /\ app = "idle"
    /\ \/ /\ Enter(t) /\ threads' = Append(threads, t)
          /\ UNCHANGED faults
       \/ /\ pc[t] = "new" /\ Happen({"thread"})
          /\ Goto(t, "refused")
          /\ UNCHANGED <<threads, overlapped>>
    /\ UNCHANGED <<process, app, global, answer, results, scanner>>

(* w3ClientJoinAllThreads.                                                  *)
JoinAll ==
    /\ process = "running" /\ app = "idle" /\ threads # <<>>
    /\ app' = "join"
    /\ UNCHANGED <<process, threads, pc, global, answer, results, overlapped, faults, scanner>>

JoinReturns ==
    /\ process = "running" /\ app = "join"
    /\ \A t \in ToSet(threads) : pc[t] = "ended"
    /\ app' = "idle" /\ threads' = <<>>
    /\ UNCHANGED <<process, pc, global, answer, results, overlapped, faults, scanner>>

(* w3ClientDestroyAllThreads: pthread_kill sends SIGTERM, which ends the    *)
(* process and not the thread; a thread that ended gets nothing.            *)
DestroyAll ==
    /\ process = "running" /\ app = "idle" /\ threads # <<>>
    /\ \/ /\ \A t \in ToSet(threads) : pc[t] = "ended"
          /\ threads' = <<>> /\ UNCHANGED process
       \/ /\ \E t \in ToSet(threads) : pc[t] # "ended"
          /\ process' = "killed" /\ UNCHANGED threads
    /\ UNCHANGED <<app, pc, global, answer, results, overlapped, faults, scanner>>

-----------------------------------------------------------------------------
(* Mutant: the port of the first document is kept. *)
BeginOnce(t) ==
    /\ At(t, "begin")
    /\ port' = (IF port = None THEN t ELSE port) /\ hostname' = None
    /\ Goto(t, "parse")
    /\ UNCHANGED <<process, app, threads, lastpath, freed, answer, results, overlapped, faults, scanner>>

(* w3ClientDocToFile, from one access to clientGlobal to the next.          *)
Begin(t) ==
    /\ At(t, "begin")
    /\ port' = t /\ hostname' = None
    /\ Goto(t, "parse")
    /\ UNCHANGED <<process, app, threads, lastpath, freed, answer, results, overlapped, faults, scanner>>

(* w3ParseURI never makes its buffers of 64 characters larger (addChar): a   *)
(* URI with as many before or behind its first slash is written beyond.     *)
ParseURI(t) ==
    /\ At(t, "parse")
    /\ \/ /\ Happen({"long"})
          /\ Undefined /\ UNCHANGED hostname
       \/ /\ Happen({})
          /\ hostname' = t
          /\ Goto(t, "fetch") /\ UNCHANGED process
    /\ UNCHANGED <<app, threads, port, lastpath, freed, answer, results, overlapped, scanner>>

(* w3ReceiveData: the end of the stream is the end of the data, wherever it  *)
(* comes; after an error the data is null, and dataLength what was read     *)
(* before: only whether that is nothing matters.                           *)
Received(whole) ==
    {[null |-> FALSE, parts |-> whole, faults |-> {}]}
    \cup {[null |-> FALSE, parts |-> SubSeq(whole, 1, n), faults |-> {"cut"}] : n \in 0..(Len(whole) - 1)}
    \cup {[null |-> TRUE, parts |-> SubSeq(whole, 1, n), faults |-> {"reset"}] : n \in {0, Len(whole)}}

GetDocument(t) ==
    /\ At(t, "fetch")
    /\ \/ /\ \E a \in Received(Page[t]) :
              /\ answer' = [answer EXCEPT ![t] = [null |-> a.null, parts |-> a.parts]]
              /\ Happen(a.faults)
          /\ Goto(t, "free")
       \/ /\ Happen({"connect"})
          /\ Goto(t, "close") /\ UNCHANGED answer
    /\ UNCHANGED <<process, app, threads, global, results, overlapped, scanner>>

(* Mutant: a path that is there is kept. *)
FreePathKeeping(t) ==
    /\ At(t, "free")
    /\ \/ /\ lastpath = None
          /\ Goto(t, "path") /\ UNCHANGED <<process, freed>>
       \/ /\ lastpath # None /\ PathReadable
          /\ Goto(t, "open") /\ UNCHANGED <<process, freed>>
       \/ /\ lastpath # None /\ ~PathReadable
          /\ Undefined /\ UNCHANGED freed
    /\ UNCHANGED <<app, threads, port, hostname, lastpath, answer, results, overlapped, faults, scanner>>

(* The path of the document before is freed and replaced.                   *)
FreePath(t) ==
    /\ At(t, "free")
    /\ \/ /\ lastpath = None
          /\ Goto(t, "path") /\ UNCHANGED <<process, freed>>
       \/ /\ lastpath # None /\ PathReadable
          /\ freed' = freed \cup {Path(lastpath)}
          /\ Goto(t, "path") /\ UNCHANGED process
       \/ /\ lastpath # None /\ ~PathReadable
          /\ Undefined /\ UNCHANGED freed
    /\ UNCHANGED <<app, threads, port, hostname, lastpath, answer, results, overlapped, faults, scanner>>

SetPath(t) ==
    /\ At(t, "path")
    /\ lastpath' = t
    /\ Goto(t, "open")
    /\ UNCHANGED <<process, app, threads, port, hostname, freed, answer, results, overlapped, faults, scanner>>

(* If the file cannot be opened the task returns with all it allocated.     *)
OpenFile(t) ==
    /\ At(t, "open")
    /\ \/ Goto(t, "bytes") /\ Happen({})
       \/ Goto(t, "done") /\ Happen({"fopen"})
    /\ UNCHANGED <<process, app, threads, global, answer, results, overlapped, scanner>>

(* Data that is read through a null pointer.                                *)
NoBytes(d) == d.null /\ d.parts # <<>>

(* yy_scan_bytes copies dataLength bytes and makes them the scanner's; from  *)
(* here to the end of yylex the scanner is this thread's, or nobody's.      *)
ScanBytes(t) ==
    /\ At(t, "bytes")
    /\ \/ /\ NoBytes(answer[t]) \/ Scanning # {}
          /\ Undefined
       \/ /\ ~NoBytes(answer[t]) /\ Scanning = {}
          /\ Goto(t, "lex") /\ UNCHANGED process
    /\ UNCHANGED <<app, threads, global, answer, results, overlapped, faults, scanner>>

-----------------------------------------------------------------------------
(* The rules of img.lex: what is done with a part that is met under a start *)
(* condition, and the condition it leaves.  The tags' names are strings too *)
(* where a rule takes one; "drop" writes nothing.                           *)
Strings == Parts \ {"other"}

Act(condition, part) ==
    CASE condition = "IMAGENAME" /\ part = "http" -> "drop"
      [] condition = "IMAGENAME" /\ part = "root" -> "rootimage"
      [] condition = "IMAGENAME" /\ part \in Strings \ {"http", "root"} -> "image"
      [] condition = "IMAGEREMOTE" /\ part \in Strings -> "remote"
      [] condition = "HREFTAGFOUND" /\ part = "root" -> "rootanchor"
      [] condition = "HREFTAGFOUND" /\ part \in Strings \ {"http", "root"} -> "anchor"
      [] OTHER -> "text"

Following(condition, part) ==
    CASE condition = "INITIAL" /\ part = "img" -> "SOURCEFRONT"
      [] condition = "INITIAL" /\ part = "a" -> "ATAGFOUND"
      [] condition = "SOURCEFRONT" /\ part = "src" -> "IMAGENAME"
      [] condition = "IMAGENAME" /\ part = "http" -> "IMAGEREMOTE"
      [] condition = "ATAGFOUND" /\ part = "href" -> "HREFTAGFOUND"
      [] condition = "HREFTAGFOUND" /\ part = "http" -> "INITIAL"
      [] Act(condition, part) \in Images \cup Anchors -> "INITIAL"
      [] OTHER -> condition

(* yylex, part by part.  What is written names the condition, for the       *)
(* properties.                                                             *)
Place(t) == Len(files[t]) + 1
Part(t) == answer[t].parts[Place(t)]
MoreParts(t) == Place(t) <= Len(answer[t].parts)
ActAt(t) == Act(start, Part(t))

Written(condition, act, host, path) ==
    [in |-> condition, act |-> act, host |-> host, path |-> path]
Write(t, host, path) ==
    /\ files' = [files EXCEPT ![t] = Append(@, Written(start, ActAt(t), host, path))]
    /\ start' = Following(start, Part(t))

ScanText(t) ==
    /\ At(t, "lex") /\ MoreParts(t) /\ ActAt(t) \in {"text", "drop"}
    /\ Write(t, None, None)
    /\ UNCHANGED <<process, app, threads, pc, global, answer, cache, flagged, unclosed, overlapped, faults>>

(* w3ClientGetImagePath: the image is retrieved from the document's server, *)
(* or with the document's port from another, whose URI is parsed as above,  *)
(* and stored if it can be.                                                *)
ImageReadable(act) ==
    /\ act \in {"image", "rootimage"} => HostReadable
    /\ act = "image" => PathReadable

Stored(t) ==
    [task |-> t, place |-> Place(t), port |-> port,
     host |-> IF ActAt(t) = "remote" THEN None ELSE hostname,
     path |-> IF ActAt(t) = "image" THEN lastpath ELSE None]

GetImagePath(t) ==
    /\ At(t, "lex") /\ MoreParts(t) /\ ActAt(t) \in Images
    /\ \/ /\ ~ImageReadable(ActAt(t))
          /\ Undefined /\ UNCHANGED <<cache, faults>>
       \/ /\ ActAt(t) = "remote" /\ Happen({"long"})
          /\ Undefined /\ UNCHANGED cache
       \/ /\ ImageReadable(ActAt(t))
          /\ \/ /\ \E f \in {"connect", "fopen"} : Happen({f})
                /\ Goto(t, "write") /\ UNCHANGED <<process, cache>>
             \/ \E a \in Received(<<"bytes">>) :
                /\ Happen(a.faults)
                /\ \/ /\ NoBytes(a)
                      /\ Undefined /\ UNCHANGED cache
                   \/ /\ ~NoBytes(a)
                      /\ cache' = IF a.parts = <<>> THEN cache ELSE cache \cup {Stored(t)}
                      /\ Goto(t, "write") /\ UNCHANGED process
    /\ UNCHANGED <<app, threads, global, answer, files, flagged, overlapped, scanner>>

(* The rule writes the link: host name and path are read once more.         *)
WriteLink(t) ==
    /\ MoreParts(t)
    /\ At(t, "write") \/ (At(t, "lex") /\ ActAt(t) \in Anchors)
    /\ \/ /\ ActAt(t) = "remote"
          /\ Write(t, None, None)
          /\ Goto(t, "lex") /\ UNCHANGED process
       \/ /\ ActAt(t) # "remote" /\ HostReadable /\ (ActAt(t) \in {"image", "anchor"} => PathReadable)
          /\ Write(t, hostname, IF ActAt(t) \in {"image", "anchor"} THEN lastpath ELSE None)
          /\ Goto(t, "lex") /\ UNCHANGED process
       \/ /\ ActAt(t) # "remote"
          /\ ~(HostReadable /\ (ActAt(t) \in {"image", "anchor"} => PathReadable))
          /\ Undefined /\ UNCHANGED <<files, start>>
    /\ UNCHANGED <<app, threads, global, answer, cache, flagged, unclosed, overlapped, faults>>

(* Mutant: the scanner does not end on an empty document. *)
ScanEndsIfAny(t) ==
    /\ At(t, "lex") /\ ~MoreParts(t) /\ files[t] # <<>>
    /\ Goto(t, "reopen")
    /\ unclosed' = IF start = "INITIAL" THEN unclosed ELSE unclosed \cup {t}
    /\ UNCHANGED <<process, app, threads, global, answer, results, start, overlapped, faults>>

(* The end of the buffer ends yylex, under whatever start condition.        *)
ScanEnds(t) ==
    /\ At(t, "lex") /\ ~MoreParts(t)
    /\ Goto(t, "reopen")
    /\ unclosed' = IF start = "INITIAL" THEN unclosed ELSE unclosed \cup {t}
    /\ UNCHANGED <<process, app, threads, global, answer, results, start, overlapped, faults>>

(* The file is closed, opened for reading without a look at the result, and *)
(* closed again.                                                           *)
Reopen(t) ==
    /\ At(t, "reopen")
    /\ \/ Goto(t, "close") /\ Happen({}) /\ UNCHANGED process
       \/ Happen({"reopen"}) /\ Undefined
    /\ UNCHANGED <<app, threads, global, answer, results, overlapped, scanner>>

-----------------------------------------------------------------------------
(* Mutant: the path is freed too, and not forgotten. *)
FreeHostAndPath(t) ==
    /\ At(t, "close")
    /\ \/ /\ hostname = None
          /\ Goto(t, "done") /\ UNCHANGED <<process, freed>>
       \/ /\ hostname # None /\ HostReadable
          /\ freed' = freed \cup {Host(hostname), Path(lastpath)}
          /\ Goto(t, "forget") /\ UNCHANGED process
       \/ /\ hostname # None /\ ~HostReadable
          /\ Undefined /\ UNCHANGED freed
    /\ UNCHANGED <<app, threads, port, hostname, lastpath, answer, results, overlapped, faults, scanner>>

(* The host name is freed, and then forgotten.                              *)
FreeHost(t) ==
    /\ At(t, "close")
    /\ \/ /\ hostname = None
          /\ Goto(t, "done") /\ UNCHANGED <<process, freed>>
       \/ /\ hostname # None /\ HostReadable
          /\ freed' = freed \cup {Host(hostname)}
          /\ Goto(t, "forget") /\ UNCHANGED process
       \/ /\ hostname # None /\ ~HostReadable
          /\ Undefined /\ UNCHANGED freed
    /\ UNCHANGED <<app, threads, port, hostname, lastpath, answer, results, overlapped, faults, scanner>>

ForgetHost(t) ==
    /\ At(t, "forget")
    /\ hostname' = None
    /\ Goto(t, "done")
    /\ UNCHANGED <<process, app, threads, port, lastpath, freed, answer, results, overlapped, faults, scanner>>

(* MTGetDoc: the flag file is made whatever came of the document.           *)
Flag(t) ==
    /\ At(t, "done") /\ app # t
    /\ \/ /\ flagged' = flagged \cup {t}
          /\ Goto(t, "ended") /\ UNCHANGED <<process, faults>>
       \/ /\ Happen({"flag"})
          /\ Undefined /\ UNCHANGED flagged
    /\ UNCHANGED <<app, threads, global, answer, files, cache, overlapped, scanner>>

Retrieve(t) ==
    \/ Begin(t) \/ ParseURI(t) \/ GetDocument(t) \/ FreePath(t) \/ SetPath(t) \/ OpenFile(t)
    \/ ScanBytes(t) \/ ScanText(t) \/ GetImagePath(t) \/ WriteLink(t) \/ ScanEnds(t)
    \/ Reopen(t) \/ FreeHost(t) \/ ForgetHost(t) \/ Flag(t)

Next ==
    \/ \E t \in Tasks : Get(t) \/ GetReturns(t) \/ DocToFileMT(t) \/ Retrieve(t)
    \/ JoinAll \/ JoinReturns \/ DestroyAll

(* The threads are scheduled, every server ends its answers, and joining    *)
(* and returning need nothing else.                                        *)
Fairness ==
    /\ \A t \in Tasks : WF_vars(Retrieve(t)) /\ WF_vars(GetReturns(t))
    /\ WF_vars(JoinReturns)

Spec == Init /\ [][Next]_vars /\ Fairness

-----------------------------------------------------------------------------
Places == {"new", "refused", "begin", "parse", "fetch", "free", "path", "open", "bytes", "lex",
           "write", "reopen", "close", "forget", "done", "ended"}
TaskOrNone == Tasks \cup {None, Earlier}

TypeOK ==
    /\ process \in {"running", "killed", "undefined"}
    /\ app \in {"idle", "join"} \cup Tasks
    /\ threads \in Seq(Tasks) /\ pc \in [Tasks -> Places]
    /\ port \in TaskOrNone /\ hostname \in TaskOrNone /\ lastpath \in TaskOrNone
    /\ freed \subseteq {"hostname", "lastpath"} \X TaskOrNone
    /\ answer \in [Tasks -> [null : BOOLEAN, parts : Seq(Parts)]]
    /\ files \in [Tasks -> Seq([in : Conditions, act : Acts, host : TaskOrNone, path : TaskOrNone])]
    /\ cache \subseteq [task : Tasks, place : Nat \ {0}, port : TaskOrNone,
                        host : TaskOrNone, path : TaskOrNone]
    /\ start \in Conditions /\ unclosed \subseteq TaskOrNone
    /\ flagged \subseteq Tasks /\ overlapped \subseteq Tasks /\ faults \subseteq Faults

(* An application that retrieves one document at a time, however many, uses *)
(* an invalid pointer at four places only, for one reason each: a URI that  *)
(* does not fit its buffer, an answer that a reset cut off, a file that     *)
(* cannot be opened for reading, and a flag file that cannot be made.  The  *)
(* host name and path it uses are never null or freed.                      *)
Bites(fault, t) ==
    CASE fault = "long" -> pc[t] \in {"parse", "lex"}
      [] fault = "reset" -> pc[t] \in {"bytes", "lex"}
      [] fault = "reopen" -> pc[t] = "reopen"
      [] fault = "flag" -> pc[t] = "done"
      [] OTHER -> FALSE
DefinedAlone ==
    process = "undefined" =>
        overlapped # {} \/ \E fault \in faults, t \in Tasks : Bites(fault, t)

(* The file of a task that ran alone is its own document as far as it was   *)
(* received, cut by the rules from the condition the scanner was left in,   *)
(* every link of it completed with its own host name and path, though other *)
(* tasks came before it and left theirs.  That condition is the first one   *)
(* unless a document before ended under another.  The file is whole when    *)
(* the .done file says so and nothing failed.                              *)
ConditionAt(t, n) ==
    IF n = 1 THEN files[t][1].in ELSE Following(files[t][n - 1].in, Page[t][n - 1])
Own(t, condition, act) ==
    Written(condition, act, IF act \in {"text", "drop", "remote"} THEN None ELSE t,
                            IF act \in {"image", "anchor"} THEN t ELSE None)
Completed(t, n) == Own(t, ConditionAt(t, n), Act(ConditionAt(t, n), Page[t][n]))
Clean == faults \cap {"connect", "cut", "reset", "fopen"} = {}
OwnFile ==
    \A t \in Tasks \ overlapped :
        /\ \A n \in 1..Len(files[t]) : files[t][n] = Completed(t, n)
        /\ files[t] # <<>> /\ unclosed \subseteq {t} => files[t][1].in = "INITIAL"
        /\ t \in flagged /\ Clean => Len(files[t]) = Len(Page[t])

(* The images of a document that ran alone are asked of its own server, at  *)
(* its own port and path, and if nothing failed all that the rules found in *)
(* it, from the condition the scanner was left in, are there.               *)
OwnImages ==
    \A t \in Tasks \ overlapped :
        /\ \A i \in cache : i.task = t =>
               i.port = t /\ i.host \in {None, t} /\ i.path \in {None, t}
        /\ Clean => \A n \in DOMAIN files[t] :
               Act(ConditionAt(t, n), Page[t][n]) \in Images => \E i \in cache : i.task = t /\ i.place = n

(* img.lex:26 "replace all relative <A HREF tags with absolute ones": in a  *)
(* document that ran alone and came whole, the links that the rules find    *)
(* from its beginning are completed.                                       *)
FromBeginning(t) ==
    LET condition[n \in 1..Len(Page[t])] ==
            IF n = 1 THEN "INITIAL" ELSE Following(condition[n - 1], Page[t][n - 1])
    IN  condition
LinksCompleted ==
    \A t \in Tasks \ overlapped :
        Earlier \notin unclosed /\ faults = {} =>
            \A n \in DOMAIN files[t] :
                Act(FromBeginning(t)[n], Page[t][n]) \in Anchors => files[t][n].act \in Anchors

(* Joining returns, and so does a document retrieved directly, unless the   *)
(* process went down.                                                      *)
Returns ==
    /\ app = "join" ~> app # "join" \/ process # "running"
    /\ \A t \in Tasks : app = t ~> app # t \/ process # "running"
=============================================================================
