------------------------------- MODULE AcceptPool -------------------------------
(***************************************************************************)
(* The accepting threads of the server (w3StartServer, acceptThread and    *)
(* w3ServerAccept in server/src/w3server.c, over w3ThreadRun in            *)
(* client/src/w3thread.c).                                                 *)
(*                                                                         *)
(* The main thread binds the socket, starts PoolSize threads and then      *)
(* accepts and serves connections itself.  A pool thread accepts one       *)
(* connection, starts its replacement, serves, disconnects and ends.  No   *)
(* thread is ever joined, so the resources of a thread that ended are      *)
(* never free for another: an element of Threads is a thread the process   *)
(* can create, and it is created at most once.                             *)
(*                                                                         *)
(* Serving is two steps here, Receive and Respond; module ServeClient      *)
(* opens them.  The kernel (listen queue, accept) and the clients are      *)
(* modelled from how the code uses them.                                   *)
(***************************************************************************)
EXTENDS Naturals, Sequences, FiniteSets

CONSTANTS Threads,      \* the threads that pthread_create can still give
          Main,         \* the thread that runs w3StartServer
          Conns,        \* connection attempts of the clients
          NoConn,       \* the NULL w3ServerConnection pointer
          PoolSize,     \* threads started by w3StartServer (5 in the code)
          Backlog,      \* the argument of listen (1 in the code)
          Habits,       \* what the client of each connection may ever do
          MaxFaults     \* bound on the failures injected in one behaviour

(* What a client may have done: ended a line or its stream, which is what   *)
(* the receive loop waits for; sent as much as one read takes, or more;     *)
(* begun to read its answer, to the end; reset the connection.              *)
Events == {"spoken", "long", "reading", "reset"}

ASSUME ThreadsAssumption == IsFiniteSet(Threads) /\ Main \notin Threads
ASSUME ConnsAssumption == IsFiniteSet(Conns) /\ NoConn \notin Conns
ASSUME SizesAssumption == /\ PoolSize \in Nat \ {0}
                          /\ Backlog \in Nat
                          /\ MaxFaults \in Nat
ASSUME HabitsAssumption == Habits \in [Conns -> SUBSET Events]

VARIABLES up,           \* the process is alive
          sock,         \* what server.socket is
          queue,        \* connections the kernel holds for accept
          conn,         \* the kernel's state of each connection
          input,        \* what the client of each connection has done so far
          pc,           \* where each thread is
          con,          \* the local variable con of each thread
          started,      \* the variable i of w3StartServer
          unreplaced,   \* history: calls of w3ThreadRun that returned NULL
          faults        \* failures injected so far

vars == <<up, sock, queue, conn, input, pc, con, started, unreplaced, faults>>

All == Threads \cup {Main}

SockStates  == {"none", "bound", "unbound", "listening", "autobound"}
ConnStates  == {"idle", "queued", "accepted", "closed", "lost"}
PCs == {"unborn", "init", "start", "listen", "accept", "spawn",
        "receive", "respond", "disconnect", "done"}

Init ==
    /\ up = TRUE
    /\ sock = "none"
    /\ queue = <<>>
    /\ conn = [c \in Conns |-> "idle"]
    /\ input = [c \in Conns |-> {}]
    /\ pc = [t \in All |-> IF t = Main THEN "init" ELSE "unborn"]
    /\ con = [t \in All |-> NoConn]
    /\ started = 0
    /\ unreplaced = 0
    /\ faults = 0

At(t, label) == up /\ pc[t] = label

(* The process dies: the kernel closes every connection it still has. *)
Crash ==
    /\ up' = FALSE
    /\ conn' = [c \in Conns |-> IF conn[c] \in {"queued", "accepted"}
                                THEN "lost" ELSE conn[c]]
    /\ queue' = <<>>
    /\ UNCHANGED <<sock, input, pc, con, started, unreplaced, faults>>

-----------------------------------------------------------------------------
(* w3ServerInit, whose result w3StartServer drops: the socket may be bound, *)
(* left unbound because bind failed, or not exist because socket failed.    *)
(* An unknown host name is a NULL dereference.                              *)
ServerInit ==
    /\ At(Main, "init")
    /\ \/ /\ sock' \in {"bound", "unbound", "none"}
          /\ pc' = [pc EXCEPT ![Main] = "start"]
          /\ UNCHANGED <<up, queue, conn, input, con, started, unreplaced, faults>>
       \/ Crash

(* w3ThreadRun called by t, which goes on at label: a new thread waits at   *)
(* the top of acceptThread, or pthread_create fails and NULL is returned.   *)
ThreadRun(t, label) ==
    \/ \E new \in Threads :
          /\ pc[new] = "unborn"
          /\ pc' = [pc EXCEPT ![t] = label, ![new] = "listen"]
          /\ UNCHANGED <<unreplaced, faults>>
    \/ /\ \A new \in Threads : pc[new] # "unborn"
       /\ pc' = [pc EXCEPT ![t] = label]
       /\ unreplaced' = unreplaced + 1
       /\ UNCHANGED faults
    \/ /\ faults < MaxFaults
       /\ pc' = [pc EXCEPT ![t] = label]
       /\ unreplaced' = unreplaced + 1
       /\ faults' = faults + 1

(* Mutant: the loop's condition is i <= PoolSize. *)
StartThreadTooMany ==
    /\ At(Main, "start")
    /\ \/ /\ started <= PoolSize
          /\ started' = started + 1
          /\ ThreadRun(Main, "start")
       \/ /\ started = PoolSize + 1
          /\ pc' = [pc EXCEPT ![Main] = "listen"]
          /\ UNCHANGED <<started, unreplaced, faults>>
    /\ UNCHANGED <<up, sock, queue, conn, input, con>>

(* One turn of the loop of w3StartServer, or its end. *)
StartThread ==
    /\ At(Main, "start")
    /\ \/ /\ started < PoolSize
          /\ started' = started + 1
          /\ ThreadRun(Main, "start")
       \/ /\ started = PoolSize
          /\ pc' = [pc EXCEPT ![Main] = "listen"]
          /\ UNCHANGED <<started, unreplaced, faults>>
    /\ UNCHANGED <<up, sock, queue, conn, input, con>>

-----------------------------------------------------------------------------
(* w3ServerAccept, first half: listen, on a socket that no bind named,      *)
(* makes the kernel choose a port; its failure is only reported.            *)
Listen(t) ==
    /\ At(t, "listen")
    /\ sock' = CASE sock = "bound"   -> "listening"
                 [] sock = "unbound" -> "autobound"
                 [] OTHER            -> sock
    /\ pc' = [pc EXCEPT ![t] = "accept"]
    /\ UNCHANGED <<up, queue, conn, input, con, started, unreplaced, faults>>

(* Where the caller of w3ServerAccept goes on: acceptThread replaces itself *)
(* whatever was returned, w3StartServer serves or tries again.              *)
AfterAccept(t, c) ==
    IF t # Main THEN "spawn" ELSE IF c = NoConn THEN "listen" ELSE "receive"

Returned(t, c) ==
    /\ con' = [con EXCEPT ![t] = c]
    /\ pc' = [pc EXCEPT ![t] = AfterAccept(t, c)]
    /\ UNCHANGED <<up, sock, input, started, unreplaced>>

(* w3ServerAccept, second half: accept returns the oldest connection. *)
Accept(t) ==
    /\ At(t, "accept")
    /\ queue # <<>>
    /\ conn' = [conn EXCEPT ![Head(queue)] = "accepted"]
    /\ queue' = Tail(queue)
    /\ Returned(t, Head(queue))
    /\ UNCHANGED faults

(* Without a socket accept fails at once. *)
AcceptError(t) ==
    /\ At(t, "accept")
    /\ sock = "none"
    /\ Returned(t, NoConn)
    /\ UNCHANGED <<queue, conn, faults>>

(* accept fails for want of a descriptor and leaves the queue as it is; or  *)
(* it fails after the kernel dequeued the connection, because con->addrlen  *)
(* is never initialised and may be negative: that connection is lost.       *)
AcceptFault(t) ==
    /\ At(t, "accept")
    /\ faults < MaxFaults
    /\ faults' = faults + 1
    /\ \/ UNCHANGED <<queue, conn>>
       \/ /\ queue # <<>>
          /\ conn' = [conn EXCEPT ![Head(queue)] = "lost"]
          /\ queue' = Tail(queue)
    /\ Returned(t, NoConn)

(* Mutant: a thread that got no connection ends without a replacement. *)
SpawnNextIfServing(t) ==
    /\ At(t, "spawn")
    /\ IF con[t] = NoConn
       THEN pc' = [pc EXCEPT ![t] = "done"] /\ UNCHANGED <<unreplaced, faults>>
       ELSE ThreadRun(t, "receive")
    /\ UNCHANGED <<up, sock, queue, conn, input, con, started>>

(* Mutant: the replacement is started once the client has spoken. *)
SpawnNextLate(t) ==
    /\ At(t, "spawn")
    /\ con[t] # NoConn => "spoken" \in input[con[t]]
    /\ ThreadRun(t, IF con[t] = NoConn THEN "done" ELSE "receive")
    /\ UNCHANGED <<up, sock, queue, conn, input, con, started>>

(* acceptThread starts its replacement; with no connection it then ends.    *)
SpawnNext(t) ==
    /\ At(t, "spawn")
    /\ ThreadRun(t, IF con[t] = NoConn THEN "done" ELSE "receive")
    /\ UNCHANGED <<up, sock, queue, conn, input, con, started>>

(* Mutant: the receive loop returns what it has without waiting. *)
ReceiveAtOnce(t) ==
    /\ At(t, "receive")
    /\ pc' = [pc EXCEPT ![t] = "respond"]
    /\ UNCHANGED <<up, sock, queue, conn, input, con, started, unreplaced, faults>>

(* The client of t's connection has done one of these. *)
Has(t, events) == input[con[t]] \cap events # {}

(* w3ServerServeClient, first half: w3ServerReceiveRequest blocks until the *)
(* client ends a line or its stream; what came before a reset is still      *)
(* received.  A read that fails is NULL, which w3ServerServeClient reports  *)
(* and hands on to w3ServerRespond all the same: the process dies of it.    *)
(* It may also die printing a read that fills the block without a zero.     *)
Receive(t) ==
    /\ At(t, "receive")
    /\ \/ /\ Has(t, {"spoken"})
          /\ pc' = [pc EXCEPT ![t] = "respond"]
          /\ UNCHANGED <<up, sock, queue, conn, input, con, started, unreplaced, faults>>
       \/ /\ Has(t, {"reset", "long"})
          /\ Crash

(* w3ServerServeClient, second half: w3ServerRespond returns, unless it     *)
(* runs off the end of a long request, or the client reset the connection   *)
(* and a second write raises SIGPIPE.                                       *)
Respond(t) ==
    /\ At(t, "respond")
    /\ \/ /\ pc' = [pc EXCEPT ![t] = "disconnect"]
          /\ UNCHANGED <<up, sock, queue, conn, input, con, started, unreplaced, faults>>
       \/ /\ Has(t, {"reset", "long"})
          /\ Crash

(* Mutant: the w3ServerConnection is freed, its socket never closed. *)
DisconnectLeaking(t) ==
    /\ At(t, "disconnect")
    /\ con' = [con EXCEPT ![t] = NoConn]
    /\ pc' = [pc EXCEPT ![t] = IF t = Main THEN "listen" ELSE "done"]
    /\ UNCHANGED <<up, sock, queue, conn, input, started, unreplaced, faults>>

(* w3ServerDisconnect; a pool thread then ends, the main thread loops.      *)
Disconnect(t) ==
    /\ At(t, "disconnect")
    /\ conn' = [conn EXCEPT ![con[t]] = "closed"]
    /\ con' = [con EXCEPT ![t] = NoConn]
    /\ pc' = [pc EXCEPT ![t] = IF t = Main THEN "listen" ELSE "done"]
    /\ UNCHANGED <<up, sock, queue, input, started, unreplaced, faults>>

-----------------------------------------------------------------------------
(* The clients.  The kernel takes one connection more than the backlog. *)
Connect(c) ==
    /\ up
    /\ sock = "listening"
    /\ conn[c] = "idle"
    /\ Len(queue) <= Backlog
    /\ conn' = [conn EXCEPT ![c] = "queued"]
    /\ queue' = Append(queue, c)
    /\ UNCHANGED <<up, sock, input, pc, con, started, unreplaced, faults>>

(* A client that has reset its connection does nothing more with it.        *)
ClientSpeaks(c) ==
    /\ conn[c] \in {"queued", "accepted"}
    /\ "reset" \notin input[c]
    /\ \E event \in Habits[c] \ input[c] :
          /\ event = "reading" => "spoken" \in input[c]
          /\ input' = [input EXCEPT ![c] = @ \cup {event}]
    /\ UNCHANGED <<up, sock, queue, conn, pc, con, started, unreplaced, faults>>

-----------------------------------------------------------------------------
(* What a thread does without an injected fault. *)
ThreadStep(t) ==
    \/ Listen(t) \/ Accept(t) \/ AcceptError(t) \/ SpawnNext(t)
    \/ Receive(t) \/ Respond(t) \/ Disconnect(t)

Next ==
    \/ ServerInit
    \/ StartThread
    \/ \E t \in All : ThreadStep(t) \/ AcceptFault(t)
    \/ \E c \in Conns : Connect(c) \/ ClientSpeaks(c)

SafeSpec == Init /\ [][Next]_vars

(* A step that waits for nobody: a read has a line, an end or a reset to    *)
(* return with, and the writes of an answer find a client that reads or a   *)
(* reset to fail with (w3SendData blocks for one that does neither).        *)
Unblocked(t) ==
    \/ Listen(t) \/ Accept(t) \/ AcceptError(t) \/ SpawnNext(t) \/ Disconnect(t)
    \/ Receive(t) /\ Has(t, {"spoken", "reset"})
    \/ Respond(t) /\ Has(t, {"reading", "reset"})

(* The scheduler runs every thread that can run.  No client has to speak,   *)
(* to read what it is sent, or to reset, and no failure has to happen.      *)
Fairness ==
    /\ WF_vars(ServerInit)
    /\ WF_vars(StartThread)
    /\ \A t \in All : WF_vars(Unblocked(t))

Spec == SafeSpec /\ Fairness

-----------------------------------------------------------------------------
(* Every variable stays in its set; what a thread holds is a connection or  *)
(* NULL, and a thread that serves holds one.                                *)
TypeOK ==
    /\ up \in BOOLEAN
    /\ sock \in SockStates
    /\ queue \in Seq(Conns)
    /\ conn \in [Conns -> ConnStates]
    /\ input \in [Conns -> SUBSET Events]
    /\ pc \in [All -> PCs]
    /\ con \in [All -> Conns \cup {NoConn}]
    /\ started \in 0..PoolSize
    /\ unreplaced \in Nat
    /\ faults \in 0..MaxFaults

Acceptors == {t \in Threads : pc[t] \in {"listen", "accept", "spawn"}}

(* The pool never loses or gains an accepting thread but by a failure of    *)
(* w3ThreadRun: those that wait for a connection, or have one and are about *)
(* to start their replacement, are the threads w3StartServer asked for      *)
(* minus the calls that failed.  A failed accept does not cost a thread.    *)
AcceptorConservation == Cardinality(Acceptors) + unreplaced = started

(* An accepted connection is held by exactly one thread until that thread   *)
(* closes it: no descriptor leaks, none is closed twice or served twice.    *)
OneHandler ==
    up => /\ \A c \in Conns : conn[c] = "accepted" <=> \E t \in All : con[t] = c
          /\ \A t, u \in All : con[t] = con[u] /\ con[t] # NoConn => t = u

(* The server implements the service its clients see: a connection waits,   *)
(* is taken once, is closed only after its client spoke, and is answered    *)
(* eventually if its client did and reads; only a client that reset, or     *)
(* sent as much as a read takes, can bring the server down.                 *)
Service == INSTANCE ConnectionService
ImplementsService == Service!Spec

(* A waiting connection is accepted unless the whole pool was lost to       *)
(* failures of w3ThreadRun, however many clients stay silent or do not read *)
(* their answer: such a client holds one thread only, whose replacement     *)
(* runs before it is served.                                                *)
QueuedAccepted ==
    \A c \in Conns :
        conn[c] = "queued" ~> (conn[c] # "queued" \/ unreplaced = PoolSize)

(* server/README:36: "when a connection is accepted, a new thread is        *)
(* immediately started to replace the actual thread".  So the replacement   *)
(* of a thread that accepted a connection may fail only while every thread  *)
(* the process can have is running.                                         *)
Unreplaced(t) == At(t, "spawn") /\ pc'[t] = "receive" /\ unreplaced' > unreplaced

ReplacedUnlessExhausted ==
    [][\A t \in Threads :
         Unreplaced(t) => \A u \in Threads : pc[u] \notin {"unborn", "done"}]_vars
=============================================================================
