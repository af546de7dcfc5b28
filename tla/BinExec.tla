-------------------------------- MODULE BinExec --------------------------------
(***************************************************************************)
(* Requests for programs under /bin (w3ServerSendFile in                   *)
(* server/src/w3server.c): the handler forks, the child sends its standard *)
(* output to a temporary file and executes the program, the handler waits  *)
(* for it and sends the file.  Several requests are served at once, by the *)
(* threads of one process, each with its own child.                        *)
(*                                                                         *)
(* A handler is a thread that serves one connection and its connection.    *)
(* A child has a copy of every connection its parent had open at the fork, *)
(* since none is marked close-on-exec.  mktemp looks for the file under    *)
(* "/temp", where none is ever made, so it may give any name again; it     *)
(* never returns NULL.  Temporary files are never removed.                 *)
(***************************************************************************)
EXTENDS Naturals, Sequences

CONSTANTS Pool,         \* handlers that are pool threads
          Main,         \* the handler that is the main thread
          Names,        \* names mktemp can give
          NoName,       \* no name, or standard output that was not redirected
          NoFile,       \* contents of a file that does not exist
          Chunks,       \* writes of a program to its standard output
          MaxFaults     \* failures of fork, freopen and execl in a behaviour

ASSUME HandlersAssumption == Main \notin Pool
ASSUME NamesAssumption == NoName \notin Names
ASSUME ChunksAssumption == Chunks \in Nat \ {0} /\ MaxFaults \in Nat

VARIABLES pc,           \* where each handler is
          name,         \* tempFilename of each handler
          child,        \* state of the child of each handler
          to,           \* file behind each child's standard output
          wrote,        \* writes made by each program
          copies,       \* connections each child has a copy of
          file,         \* contents of the temporary files
          pos,          \* how much of its file each handler has read
          out,          \* what was written to each connection
          faults        \* failures so far

vars == <<pc, name, child, to, wrote, copies, file, pos, out, faults>>

Handlers == Pool \cup {Main}

ChildStates == {"none", "forked", "redirected", "running", "failed",
                "exited", "reaped", "rogue"}
Alive == {"forked", "redirected", "running", "failed", "rogue"}

Init ==
    /\ pc = [h \in Handlers |-> "idle"]
    /\ name = [h \in Handlers |-> NoName]
    /\ child = [h \in Handlers |-> "none"]
    /\ to = [h \in Handlers |-> NoName]
    /\ wrote = [h \in Handlers |-> 0]
    /\ copies = [h \in Handlers |-> {}]
    /\ file = [n \in Names |-> NoFile]
    /\ pos = [h \in Handlers |-> 0]
    /\ out = [h \in Handlers |-> <<>>]
    /\ faults = 0

(* What a file or a connection holds is a sequence of these pieces. *)
Chunk(h, k) == <<h, k>>
ErrorPage == <<"404">>
FilePage  == <<"page">>
LogLines  == <<"log">>
Hole      == <<"hole">>

Pieces == {Chunk(h, k) : h \in Handlers, k \in 1..Chunks}
              \cup {ErrorPage, FilePage, LogLines, Hole}

ASSUME NoFileAssumption == NoFile \notin Seq(Pieces)

Moves(h, from, label) == pc[h] = from /\ pc' = [pc EXCEPT ![h] = label]

Becomes(h, from, state) == child[h] = from /\ child' = [child EXCEPT ![h] = state]

Fault == faults < MaxFaults /\ faults' = faults + 1

-----------------------------------------------------------------------------
(* A connection is accepted and asks for a file or for a program.  A file   *)
(* is sent at once; for a program mktemp gives a name.                      *)
Accept(h) ==
    /\ \/ /\ Moves(h, "idle", "sent")
          /\ out' = [out EXCEPT ![h] = <<FilePage>>]
          /\ UNCHANGED name
       \/ /\ Moves(h, "idle", "fork")
          /\ \E n \in Names : name' = [name EXCEPT ![h] = n]
          /\ UNCHANGED out
    /\ UNCHANGED <<child, to, wrote, copies, file, pos, faults>>

(* fork; when it fails PID is -1 and the parent's branch is taken.          *)
OpenConnections == {c \in Handlers : pc[c] \notin {"idle", "closed"}}

Fork(h) ==
    /\ \/ /\ Moves(h, "fork", "wait")
          /\ Becomes(h, "none", "forked")
          /\ copies' = [copies EXCEPT ![h] = OpenConnections]
          /\ UNCHANGED faults
       \/ /\ Moves(h, "fork", "waitany")
          /\ Fault
          /\ UNCHANGED <<child, copies>>
    /\ UNCHANGED <<name, to, wrote, file, pos, out>>

(* Mutants: every handler waits with waitpid(-1); a handler waits again     *)
(* when waitpid fails.                                                      *)
WaitForAny(h) ==
    /\ Moves(h, "wait", "send")
    /\ \E g \in Handlers : Becomes(g, "exited", "reaped")
    /\ UNCHANGED <<name, to, wrote, copies, file, pos, out, faults>>

WaitUntilCollected(h) ==
    /\ Moves(h, "wait", "send")
    /\ Becomes(h, "exited", "reaped")
    /\ UNCHANGED <<name, to, wrote, copies, file, pos, out, faults>>

(* waitpid(PID) returns when the child is a zombie, and with an error when  *)
(* another handler took it.                                                 *)
Wait(h) ==
    /\ Moves(h, "wait", "send")
    /\ child[h] \in {"exited", "reaped"}
    /\ child' = [child EXCEPT ![h] = "reaped"]
    /\ UNCHANGED <<name, to, wrote, copies, file, pos, out, faults>>

(* waitpid(-1), after a failed fork, takes the zombie of any handler, and   *)
(* returns at once only when the process has no child at all.               *)
WaitAny(h) ==
    /\ Moves(h, "waitany", "send")
    /\ \/ \E g \in Handlers : Becomes(g, "exited", "reaped")
       \/ /\ \A g \in Handlers : child[g] \notin Alive \cup {"exited"}
          /\ UNCHANGED child
    /\ UNCHANGED <<name, to, wrote, copies, file, pos, out, faults>>

(* The recursive w3ServerSendFile of the parent: the error page when there  *)
(* is no file, else what the file holds as it is read.                      *)
Send(h) ==
    /\ pc[h] = "send"
    /\ LET f == file[name[h]]
       IN  \/ /\ f = NoFile
              /\ out' = [out EXCEPT ![h] = Append(@, ErrorPage)]
              /\ pc' = [pc EXCEPT ![h] = "sent"]
              /\ UNCHANGED pos
           \/ /\ f # NoFile /\ pos[h] < Len(f)
              /\ out' = [out EXCEPT ![h] = Append(@, f[pos[h] + 1])]
              /\ pos' = [pos EXCEPT ![h] = @ + 1]
              /\ UNCHANGED pc
           \/ /\ f # NoFile /\ pos[h] >= Len(f)
              /\ pc' = [pc EXCEPT ![h] = "sent"]
              /\ UNCHANGED <<out, pos>>
    /\ UNCHANGED <<name, child, to, wrote, copies, file, faults>>

(* w3ServerDisconnect, in the parent. *)
Disconnect(h) ==
    /\ Moves(h, "sent", "closed")
    /\ UNCHANGED <<name, child, to, wrote, copies, file, pos, out, faults>>

-----------------------------------------------------------------------------
(* The child: freopen truncates the file, or fails and leaves no standard   *)
(* output.                                                                  *)
Redirect(h) ==
    /\ Becomes(h, "forked", "redirected")
    /\ \/ /\ to' = [to EXCEPT ![h] = name[h]]
          /\ file' = [file EXCEPT ![name[h]] = <<>>]
          /\ UNCHANGED faults
       \/ Fault /\ UNCHANGED <<to, file>>
    /\ UNCHANGED <<pc, name, wrote, copies, pos, out>>

Execute(h) ==
    /\ \/ Becomes(h, "redirected", "running") /\ UNCHANGED faults
       \/ Becomes(h, "redirected", "failed") /\ Fault
    /\ UNCHANGED <<pc, name, to, wrote, copies, file, pos, out>>

(* Mutant: the file is opened to append. *)
WrittenAtEnd(f, i, x) == Append(f, x)

(* The contents f after x is written at position i. *)
Written(f, i, x) ==
    [k \in 1..(IF i > Len(f) THEN i ELSE Len(f)) |->
        IF k = i THEN x ELSE IF k <= Len(f) THEN f[k] ELSE Hole]

Put(h, i, x) ==
    file' = IF to[h] = NoName THEN file
            ELSE [file EXCEPT ![to[h]] = Written(@, i, x)]

(* The program writes its next chunk, or ends. *)
Run(h) ==
    /\ child[h] = "running"
    /\ \/ /\ wrote[h] < Chunks
          /\ wrote' = [wrote EXCEPT ![h] = @ + 1]
          /\ Put(h, wrote[h] + 1, Chunk(h, wrote[h] + 1))
          /\ UNCHANGED child
       \/ /\ wrote[h] = Chunks
          /\ child' = [child EXCEPT ![h] = "exited"]
          /\ UNCHANGED <<wrote, file>>
    /\ UNCHANGED <<pc, name, to, copies, pos, out, faults>>

(* Mutant: the child of a pool thread goes on accepting too. *)
GoOnAccepting(h) ==
    /\ Becomes(h, "failed", "rogue")
    /\ out' = [out EXCEPT ![h] = Append(@, ErrorPage)]
    /\ copies' = [copies EXCEPT ![h] = @ \ {h}]
    /\ UNCHANGED <<pc, name, to, wrote, file, pos, faults>>

(* When execl failed the child goes on as the server it is a copy of: it    *)
(* sends the client an error page, since its tempFilename now has the base  *)
(* directory in front twice, and disconnects its copy of the connection.    *)
(* The child of a pool thread then ends, which flushes the log messages in  *)
(* its standard output into the file; the child of the main thread goes on  *)
(* accepting connections.                                                   *)
GoOn(h) ==
    /\ child[h] = "failed"
    /\ out' = [out EXCEPT ![h] = Append(@, ErrorPage)]
    /\ IF h = Main
       THEN /\ child' = [child EXCEPT ![h] = "rogue"]
            /\ copies' = [copies EXCEPT ![h] = @ \ {h}]
            /\ UNCHANGED file
       ELSE /\ child' = [child EXCEPT ![h] = "exited"]
            /\ Put(h, 1, LogLines)
            /\ UNCHANGED copies
    /\ UNCHANGED <<pc, name, to, wrote, pos, faults>>

-----------------------------------------------------------------------------
HandlerStep(h) == Fork(h) \/ Wait(h) \/ WaitAny(h) \/ Send(h) \/ Disconnect(h)
ChildStep(h)   == Redirect(h) \/ Execute(h) \/ Run(h) \/ GoOn(h)

Next == \E h \in Handlers : Accept(h) \/ HandlerStep(h) \/ ChildStep(h)

SafeSpec == Init /\ [][Next]_vars

(* Threads and processes run whenever they can, and a program ends: it has  *)
(* a fixed number of writes here.                                           *)
Spec == SafeSpec /\ \A h \in Handlers : WF_vars(HandlerStep(h)) /\ WF_vars(ChildStep(h))

-----------------------------------------------------------------------------
(* Labels and states are those of the code, counters stay in their bounds.  *)
TypeOK ==
    /\ pc \in [Handlers -> {"idle", "fork", "wait", "waitany", "send", "sent", "closed"}]
    /\ name \in [Handlers -> Names \cup {NoName}]
    /\ child \in [Handlers -> ChildStates]
    /\ to \in [Handlers -> Names \cup {NoName}]
    /\ wrote \in [Handlers -> 0..Chunks]
    /\ copies \in [Handlers -> SUBSET Handlers]
    /\ file \in [Names -> Seq(Pieces) \cup {NoFile}]
    /\ \A n \in Names : file[n] # NoFile => Len(file[n]) <= Chunks
    /\ pos \in [Handlers -> 0..Chunks]
    /\ out \in [Handlers -> Seq(Pieces)]
    /\ faults \in 0..MaxFaults

(* A handler sends the file only after its program ended and was collected, *)
(* even if the wait of another handler collected it: no half-written        *)
(* output is sent and no zombie stays behind.                               *)
SentAfterExit ==
    \A h \in Handlers : pc[h] \in {"send", "sent", "closed"} => child[h] \in {"none", "reaped"}

(* A handler whose program ran, with a name mktemp gave to no other, sends  *)
(* exactly what that program wrote, whatever the other handlers do.         *)
NameOfItsOwn(h) == \A g \in Handlers \ {h} : name[g] # name[h]

OwnOutput ==
    \A h \in Handlers :
        pc[h] \in {"sent", "closed"} /\ to[h] # NoName /\ wrote[h] = Chunks /\ NameOfItsOwn(h)
            => out[h] = [k \in 1..Chunks |-> Chunk(h, k)]

(* Every request is answered and its connection closed, unless a failed     *)
(* execl of the main thread left a second server that never ends.           *)
Rogue == child[Main] = "rogue"

Answered == \A h \in Handlers : pc[h] = "fork" ~> (pc[h] = "closed" \/ Rogue)

(* A client sees the end of the answer when no process has its connection   *)
(* open any more.  Children of other requests delay it, none prevents it    *)
(* but that second server.                                                  *)
EndVisible(h) ==
    /\ pc[h] = "closed"
    /\ \A g \in Handlers : child[g] \in Alive => h \notin copies[g]

EndSeen == \A h \in Handlers : pc[h] = "closed" ~> (EndVisible(h) \/ Rogue)

(* server/include/w3server.h:93: "If the file is in the HTDOC_BIN_BASE      *)
(* directory, it is executed and the standard output stored in a temporary  *)
(* file and sent to the client": one answer, the output or an error page,   *)
(* never both.                                                              *)
OneAnswer ==
    \A h \in Handlers : \A i \in DOMAIN out[h] : out[h][i] = ErrorPage => Len(out[h]) = 1
=============================================================================
