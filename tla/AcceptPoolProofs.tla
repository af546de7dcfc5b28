---------------------------- MODULE AcceptPoolProofs ----------------------------
(***************************************************************************)
(* Proofs about AcceptPool, for every number of threads and connections,   *)
(* every pool size and backlog, and any bound on the injected failures.    *)
(***************************************************************************)
EXTENDS AcceptPool, FiniteSetTheorems, TLAPS

USE ThreadsAssumption, ConnsAssumption, SizesAssumption

(* A crash leaves every connection in a state of its type. *)
LEMMA CrashType == TypeOK /\ Crash => TypeOK'
<1> SUFFICES ASSUME TypeOK, Crash PROVE TypeOK'
  OBVIOUS
<1> USE DEF TypeOK, Crash
<1>1. conn' \in [Conns -> ConnStates]
  BY DEF ConnStates
<1>2. queue' \in Seq(Conns)
  OBVIOUS
<1>3. up' \in BOOLEAN
  OBVIOUS
<1> QED
  BY <1>1, <1>2, <1>3

(* w3ThreadRun and the step to the caller's next label keep the types. *)
LEMMA ThreadRunType ==
  ASSUME TypeOK, NEW t \in All, NEW label \in PCs, ThreadRun(t, label)
  PROVE  /\ pc' \in [All -> PCs]
         /\ unreplaced' \in Nat
         /\ faults' \in 0..MaxFaults
BY DEF TypeOK, ThreadRun, All, PCs

(* The variables keep their types. *)
LEMMA TypeStep == TypeOK /\ [Next]_vars => TypeOK'
<1> SUFFICES ASSUME TypeOK, [Next]_vars PROVE TypeOK'
  OBVIOUS
<1> USE DEF TypeOK, All, SockStates, ConnStates, PCs
<1>1. CASE ServerInit
  <2>1. CASE Crash
    BY <2>1, CrashType
  <2>2. CASE ~Crash
    BY <1>1, <2>2 DEF ServerInit, At
  <2> QED
    BY <2>1, <2>2
<1>2. CASE StartThread
  BY <1>2, ThreadRunType DEF StartThread, At
<1>3. ASSUME NEW t \in All, ThreadStep(t) \/ AcceptFault(t) PROVE TypeOK'
  <2>1. CASE Listen(t)
    BY <2>1 DEF Listen, At
  <2>2. CASE Accept(t)
    BY <2>2 DEF Accept, Returned, AfterAccept, At
  <2>3. CASE AcceptError(t)
    BY <2>3 DEF AcceptError, Returned, AfterAccept, At
  <2>4. CASE SpawnNext(t)
    <3>1. PICK label \in PCs : ThreadRun(t, label)
      BY <2>4 DEF SpawnNext
    <3> QED
      BY <2>4, <3>1, ThreadRunType DEF SpawnNext
  <2>5. CASE Receive(t)
    BY <2>5, CrashType DEF Receive, At
  <2>6. CASE Respond(t)
    BY <2>6, CrashType DEF Respond, At
  <2>7. CASE Disconnect(t)
    BY <2>7 DEF Disconnect, At
  <2>8. CASE AcceptFault(t)
    <3>1. pc' \in [All -> PCs] /\ con' \in [All -> Conns \cup {NoConn}]
      BY <2>8 DEF AcceptFault, Returned, AfterAccept
    <3>2. queue' \in Seq(Conns) /\ conn' \in [Conns -> ConnStates]
      <4>1. CASE UNCHANGED <<queue, conn>>
        BY <4>1
      <4>2. CASE queue # <<>> /\ conn' = [conn EXCEPT ![Head(queue)] = "lost"] /\ queue' = Tail(queue)
        BY <4>2
      <4> QED
        BY <4>1, <4>2, <2>8 DEF AcceptFault
    <3>3. faults' \in 0..MaxFaults
      BY <2>8 DEF AcceptFault
    <3> QED
      BY <2>8, <3>1, <3>2, <3>3 DEF AcceptFault, Returned
  <2> QED
    BY <1>3, <2>1, <2>2, <2>3, <2>4, <2>5, <2>6, <2>7, <2>8 DEF ThreadStep
<1>4. ASSUME NEW c \in Conns, Connect(c) PROVE TypeOK'
  BY <1>4 DEF Connect
<1>5. ASSUME NEW c \in Conns, ClientSpeaks(c) PROVE TypeOK'
  <2>1. PICK event : event \in Habits[c] /\ input' = [input EXCEPT ![c] = @ \cup {event}]
    BY <1>5 DEF ClientSpeaks
  <2>2. input[c] \in SUBSET Events /\ event \in Events
    BY <2>1, HabitsAssumption
  <2>3. input[c] \cup {event} \in SUBSET Events
    BY <2>2
  <2>4. input' \in [Conns -> SUBSET Events]
    BY <2>1, <2>3
  <2> QED
    BY <1>5, <2>4 DEF ClientSpeaks
<1>6. CASE UNCHANGED vars
  BY <1>6 DEF vars
<1> QED
  BY <1>1, <1>2, <1>3, <1>4, <1>5, <1>6 DEF Next

(* Every reachable state is well typed. *)
THEOREM TypeCorrect == SafeSpec => []TypeOK
<1>1. Init => TypeOK
  BY DEF Init, TypeOK, All, SockStates, ConnStates, PCs
<1> QED
  BY <1>1, TypeStep, PTL DEF SafeSpec

-----------------------------------------------------------------------------
(* Which labels a thread can be at, and when it holds a connection. *)
Places ==
    /\ pc[Main] \notin {"unborn", "spawn", "done"}
    /\ \A t \in Threads : pc[t] \notin {"init", "start"}
    /\ \A t \in All : /\ pc[t] \in {"receive", "respond", "disconnect"} => con[t] # NoConn
                      /\ pc[t] \notin {"spawn", "receive", "respond", "disconnect"}
                            => con[t] = NoConn

(* The places of the threads are an invariant. *)
LEMMA PlacesStep == TypeOK /\ Places /\ [Next]_vars => Places'
<1> SUFFICES ASSUME TypeOK, Places, [Next]_vars PROVE Places'
  OBVIOUS
<1> USE DEF TypeOK, Places, All
<1>1. CASE ServerInit
  BY <1>1 DEF ServerInit, Crash, At
<1>2. CASE StartThread
  BY <1>2 DEF StartThread, ThreadRun, At
<1>3. ASSUME NEW t \in All, ThreadStep(t) \/ AcceptFault(t) PROVE Places'
  <2>1. CASE Listen(t)
    BY <2>1 DEF Listen, At
  <2>2. CASE Accept(t)
    BY <2>2 DEF Accept, Returned, AfterAccept, At
  <2>3. CASE AcceptError(t)
    BY <2>3 DEF AcceptError, Returned, AfterAccept, At
  <2>4. CASE SpawnNext(t)
    BY <2>4 DEF SpawnNext, ThreadRun, At
  <2>5. CASE Receive(t)
    BY <2>5 DEF Receive, Crash, At
  <2>6. CASE Respond(t)
    BY <2>6 DEF Respond, Crash, At
  <2>7. CASE Disconnect(t)
    BY <2>7 DEF Disconnect, At
  <2>8. CASE AcceptFault(t)
    BY <2>8 DEF AcceptFault, Returned, AfterAccept, At
  <2> QED
    BY <1>3, <2>1, <2>2, <2>3, <2>4, <2>5, <2>6, <2>7, <2>8 DEF ThreadStep
<1>4. ASSUME NEW c \in Conns, Connect(c) \/ ClientSpeaks(c) PROVE Places'
  BY <1>4 DEF Connect, ClientSpeaks
<1>5. CASE UNCHANGED vars
  BY <1>5 DEF vars
<1> QED
  BY <1>1, <1>2, <1>3, <1>4, <1>5 DEF Next

(* Every thread is at a label of its own procedure in every reachable state. *)
LEMMA PlacesInvariant == SafeSpec => []Places
<1>1. Init => Places
  BY DEF Init, Places, All
<1> QED
  BY <1>1, TypeCorrect, PlacesStep, PTL DEF SafeSpec

-----------------------------------------------------------------------------
(* A failed or successful w3ThreadRun changes the accepting threads and the *)
(* count of failures so that their sum goes up by one, when the caller      *)
(* itself is not an accepting thread before and after.                      *)
LEMMA AcceptorsFinite == IsFiniteSet(Acceptors) /\ Cardinality(Acceptors) \in Nat
  BY FS_Subset, FS_CardinalityType DEF Acceptors

(* A thread that enters the accepting threads makes them one more.         *)
LEMMA AcceptorAdded ==
  ASSUME TypeOK, NEW new \in Threads, new \notin Acceptors,
         Acceptors' = Acceptors \cup {new}
  PROVE  Cardinality(Acceptors') = Cardinality(Acceptors) + 1
  BY AcceptorsFinite, FS_AddElement

(* One that enters as another leaves keeps their number.                   *)
LEMMA AcceptorReplaced ==
  ASSUME TypeOK, NEW old \in Acceptors, NEW new \in Threads, new \notin Acceptors,
         Acceptors' = (Acceptors \ {old}) \cup {new}
  PROVE  Cardinality(Acceptors') = Cardinality(Acceptors)
<1>1. /\ IsFiniteSet(Acceptors \ {old})
      /\ Cardinality(Acceptors \ {old}) = Cardinality(Acceptors) - 1
  BY AcceptorsFinite, FS_RemoveElement
<1>2. /\ new \notin Acceptors \ {old}
      /\ Cardinality(Acceptors') = Cardinality(Acceptors \ {old}) + 1
  BY <1>1, FS_AddElement
<1> QED
  BY <1>1, <1>2, AcceptorsFinite

(* One that leaves without a replacement makes them one fewer.             *)
LEMMA AcceptorGone ==
  ASSUME TypeOK, NEW old \in Acceptors, Acceptors' = Acceptors \ {old}
  PROVE  Cardinality(Acceptors') = Cardinality(Acceptors) - 1
  BY AcceptorsFinite, FS_RemoveElement

(* Starting the pool and every replacement keep the account balanced. *)
LEMMA ConservationStep ==
  TypeOK /\ Places /\ AcceptorConservation /\ [Next]_vars => AcceptorConservation'
<1> SUFFICES ASSUME TypeOK, Places, AcceptorConservation, [Next]_vars
             PROVE  AcceptorConservation'
  OBVIOUS
<1>a. Cardinality(Acceptors) \in Nat /\ unreplaced \in Nat /\ started \in Nat
  BY AcceptorsFinite DEF TypeOK
(* Most steps change neither side. *)
<1>b. ASSUME Acceptors' = Acceptors, UNCHANGED <<started, unreplaced>>
      PROVE  AcceptorConservation'
  BY <1>b DEF AcceptorConservation
<1>1. CASE ServerInit
  BY <1>1, <1>b DEF ServerInit, Crash, At, Acceptors, TypeOK, All
<1>2. CASE StartThread
  <2>1. CASE started < PoolSize /\ started' = started + 1 /\ ThreadRun(Main, "start")
    <3>1. ASSUME NEW new \in Threads, pc[new] = "unborn",
                 pc' = [pc EXCEPT ![Main] = "start", ![new] = "listen"],
                 unreplaced' = unreplaced
          PROVE  AcceptorConservation'
      <4>1. new \notin Acceptors /\ Acceptors' = Acceptors \cup {new}
        BY <3>1 DEF Acceptors, TypeOK, All
      <4> QED
        BY <2>1, <3>1, <4>1, <1>a, AcceptorAdded DEF AcceptorConservation
    <3>2. ASSUME pc' = [pc EXCEPT ![Main] = "start"], unreplaced' = unreplaced + 1
          PROVE  AcceptorConservation'
      <4>1. Acceptors' = Acceptors
        BY <3>2 DEF Acceptors, TypeOK, All
      <4> QED
        BY <2>1, <3>2, <4>1, <1>a DEF AcceptorConservation
    <3> QED
      BY <2>1, <3>1, <3>2 DEF ThreadRun
  <2>2. CASE pc' = [pc EXCEPT ![Main] = "listen"] /\ UNCHANGED <<started, unreplaced>>
    BY <2>2, <1>b DEF Acceptors, TypeOK, All
  <2> QED
    BY <1>2, <2>1, <2>2 DEF StartThread
<1>3. ASSUME NEW t \in All, SpawnNext(t) PROVE AcceptorConservation'
  <2>1. PICK label \in {"done", "receive"} : ThreadRun(t, label)
    BY <1>3 DEF SpawnNext
  <2>2. t \in Acceptors
    BY <1>3 DEF SpawnNext, At, Places, Acceptors, All
  <2>3. ASSUME NEW new \in Threads, pc[new] = "unborn",
               pc' = [pc EXCEPT ![t] = label, ![new] = "listen"],
               unreplaced' = unreplaced
        PROVE  AcceptorConservation'
    <3>1. new \notin Acceptors /\ new # t
      BY <2>2, <2>3 DEF Acceptors
    <3>2. Acceptors' = (Acceptors \ {t}) \cup {new}
      BY <2>2, <2>3, <3>1 DEF Acceptors, TypeOK, All
    <3> QED
      BY <1>3, <2>2, <2>3, <3>1, <3>2, AcceptorReplaced DEF AcceptorConservation, SpawnNext
  <2>4. ASSUME pc' = [pc EXCEPT ![t] = label], unreplaced' = unreplaced + 1
        PROVE  AcceptorConservation'
    <3>1. Acceptors' = Acceptors \ {t}
      BY <2>4 DEF Acceptors, TypeOK, All
    <3>2. started' = started
      BY <1>3 DEF SpawnNext
    <3>3. Cardinality(Acceptors') = Cardinality(Acceptors) - 1
      BY <2>2, <3>1, AcceptorGone
    <3> QED
      BY <1>a, <2>4, <3>2, <3>3 DEF AcceptorConservation
  <2> QED
    BY <2>1, <2>3, <2>4 DEF ThreadRun
<1>4. ASSUME NEW t \in All,
             ThreadStep(t) \/ AcceptFault(t), ~SpawnNext(t)
      PROVE  AcceptorConservation'
  <2> USE DEF Acceptors, TypeOK, Places, All
  <2>1. CASE Listen(t)
    BY <2>1, <1>b DEF Listen, At
  <2>2. CASE Accept(t)
    BY <2>2, <1>b DEF Accept, Returned, AfterAccept, At
  <2>3. CASE AcceptError(t)
    BY <2>3, <1>b DEF AcceptError, Returned, AfterAccept, At
  <2>4. CASE Receive(t)
    BY <2>4, <1>b DEF Receive, Crash, At
  <2>5. CASE Respond(t)
    BY <2>5, <1>b DEF Respond, Crash, At
  <2>6. CASE Disconnect(t)
    BY <2>6, <1>b DEF Disconnect, At
  <2>7. CASE AcceptFault(t)
    BY <2>7, <1>b DEF AcceptFault, Returned, AfterAccept, At
  <2> QED
    BY <1>4, <2>1, <2>2, <2>3, <2>4, <2>5, <2>6, <2>7 DEF ThreadStep
<1>5. ASSUME NEW c \in Conns, Connect(c) \/ ClientSpeaks(c) PROVE AcceptorConservation'
  BY <1>5, <1>b DEF Connect, ClientSpeaks, Acceptors
<1>6. CASE UNCHANGED vars
  BY <1>6, <1>b DEF vars, Acceptors
<1> QED
  BY <1>1, <1>2, <1>3, <1>4, <1>5, <1>6 DEF Next

(* The pool never shrinks or grows but by a failure of w3ThreadRun. *)
THEOREM Conservation == SafeSpec => []AcceptorConservation
<1>1. Init => AcceptorConservation
  <2> SUFFICES ASSUME Init PROVE AcceptorConservation
    OBVIOUS
  <2>1. Acceptors = {}
    BY DEF Init, Acceptors, All
  <2>2. Cardinality(Acceptors) = 0
    BY <2>1, FS_EmptySet
  <2> QED
    BY <2>2 DEF Init, AcceptorConservation
<1> QED
  BY <1>1, TypeCorrect, PlacesInvariant, ConservationStep, PTL DEF SafeSpec

-----------------------------------------------------------------------------
(* The kernel's queue holds the connections that wait, each of them once,   *)
(* and never more than listen's argument allows.                            *)
QueueSound ==
    /\ \A c \in Conns : conn[c] = "queued" <=> \E i \in DOMAIN queue : queue[i] = c
    /\ \A i, j \in DOMAIN queue : queue[i] = queue[j] => i = j
    /\ Len(queue) <= Backlog + 1

(* Taking the head off the kernel's queue keeps it sound. *)
LEMMA TailSound ==
  ASSUME TypeOK, QueueSound, queue # <<>>, queue' = Tail(queue),
         NEW state \in ConnStates \ {"queued"},
         conn' = [conn EXCEPT ![Head(queue)] = state]
  PROVE  QueueSound'
<1> USE DEF TypeOK
<1>1. /\ Len(queue) \in Nat \ {0}
      /\ DOMAIN queue = 1..Len(queue)
      /\ Head(queue) = queue[1]
      /\ \A i \in 1..Len(queue) : queue[i] \in Conns
  OBVIOUS
<1>2. /\ Len(queue') = Len(queue) - 1
      /\ DOMAIN queue' = 1..(Len(queue) - 1)
      /\ \A i \in DOMAIN queue' : queue'[i] = queue[i + 1]
  OBVIOUS
<1>3. ASSUME NEW i \in DOMAIN queue' PROVE i + 1 \in DOMAIN queue /\ i + 1 # 1
  BY <1>1, <1>2
<1>4. \A c \in Conns : conn'[c] = "queued" <=> \E i \in DOMAIN queue' : queue'[i] = c
  <2> TAKE c \in Conns
  <2>1. CASE c = Head(queue)
    BY <1>1, <1>2, <1>3, <2>1 DEF QueueSound
  <2>2. CASE c # Head(queue)
    <3>1. conn'[c] = conn[c]
      BY <1>1, <2>2
    <3>2. ASSUME NEW j \in DOMAIN queue, queue[j] = c
          PROVE  \E i \in DOMAIN queue' : queue'[i] = c
      <4>1. j - 1 \in DOMAIN queue' /\ queue'[j - 1] = c
        BY <1>1, <1>2, <2>2, <3>2
      <4> QED
        BY <4>1
    <3>3. ASSUME NEW i \in DOMAIN queue', queue'[i] = c
          PROVE  \E j \in DOMAIN queue : queue[j] = c
      BY <1>2, <1>3, <3>3
    <3> QED
      BY <3>1, <3>2, <3>3 DEF QueueSound
  <2> QED
    BY <2>1, <2>2
<1>5. \A i, j \in DOMAIN queue' : queue'[i] = queue'[j] => i = j
  <2> SUFFICES ASSUME NEW i \in DOMAIN queue', NEW j \in DOMAIN queue', queue'[i] = queue'[j]
               PROVE  i = j
    OBVIOUS
  <2>1. i + 1 = j + 1
    BY <1>2, <1>3 DEF QueueSound
  <2> QED
    BY <1>1, <1>2, <2>1
<1>6. Len(queue') <= Backlog + 1
  BY <1>1, <1>2 DEF QueueSound
<1> QED
  BY <1>4, <1>5, <1>6 DEF QueueSound

(* A connection that arrives joins the queue once. *)
LEMMA AppendSound ==
  ASSUME TypeOK, QueueSound, NEW c \in Conns, Connect(c)
  PROVE  QueueSound'
<1> USE DEF TypeOK, Connect
<1>1. /\ Len(queue) \in Nat
      /\ DOMAIN queue = 1..Len(queue)
      /\ queue' = Append(queue, c)
      /\ Len(queue') = Len(queue) + 1
      /\ DOMAIN queue' = 1..(Len(queue) + 1)
      /\ queue'[Len(queue) + 1] = c
      /\ \A i \in DOMAIN queue : queue'[i] = queue[i]
  OBVIOUS
<1>2. \A i \in DOMAIN queue : queue[i] # c
  BY DEF QueueSound
<1>3. \A d \in Conns : conn'[d] = "queued" <=> \E i \in DOMAIN queue' : queue'[i] = d
  <2> TAKE d \in Conns
  <2>1. CASE d = c
    <3>1. Len(queue) + 1 \in DOMAIN queue'
      BY <1>1
    <3> QED
      BY <1>1, <2>1, <3>1
  <2>2. CASE d # c
    <3>1. conn'[d] = conn[d]
      BY <2>2
    <3>2. (\E i \in DOMAIN queue' : queue'[i] = d) <=> \E i \in DOMAIN queue : queue[i] = d
      BY <1>1, <2>2
    <3> QED
      BY <3>1, <3>2 DEF QueueSound
  <2> QED
    BY <2>1, <2>2
<1>4. \A i, j \in DOMAIN queue' : queue'[i] = queue'[j] => i = j
  <2> SUFFICES ASSUME NEW i \in DOMAIN queue', NEW j \in DOMAIN queue', queue'[i] = queue'[j]
               PROVE  i = j
    OBVIOUS
  <2>1. CASE i \in DOMAIN queue /\ j \in DOMAIN queue
    BY <1>1, <2>1 DEF QueueSound
  <2>2. CASE i = Len(queue) + 1 \/ j = Len(queue) + 1
    BY <1>1, <1>2, <2>2
  <2> QED
    BY <1>1, <2>1, <2>2
<1>5. Len(queue') <= Backlog + 1
  BY <1>1
<1> QED
  BY <1>3, <1>4, <1>5 DEF QueueSound

(* A crash leaves nothing in the queue. *)
LEMMA CrashSound == TypeOK /\ QueueSound /\ Crash => QueueSound'
<1> SUFFICES ASSUME TypeOK, Crash PROVE QueueSound'
  OBVIOUS
<1>1. queue' = <<>> /\ Len(queue') = 0 /\ DOMAIN queue' = {}
  BY DEF Crash
<1>2. \A c \in Conns : conn'[c] # "queued"
  BY DEF Crash, TypeOK
<1> QED
  BY <1>1, <1>2 DEF QueueSound

-----------------------------------------------------------------------------
(* Until w3ServerInit returned there is nothing to connect to and no thread *)
(* that could accept.                                                       *)
Virgin ==
    pc[Main] = "init" => /\ sock = "none"
                         /\ \A c \in Conns : conn[c] = "idle"
                         /\ \A t \in Threads : pc[t] = "unborn"

(* The inductive invariant of the connections: the threads' pointers and    *)
(* the kernel's records agree.                                              *)
Handling == OneHandler /\ QueueSound /\ Virgin

(* Steps that touch neither pointers, records nor the main thread's start. *)
LEMMA HandlingKept ==
  ASSUME Handling, UNCHANGED <<up, queue, conn, con>>, Virgin'
  PROVE  Handling'
  BY DEF Handling, OneHandler, QueueSound

(* The death of the process changes no connection's handler.               *)
LEMMA CrashHandling == TypeOK /\ Handling /\ Crash => Handling'
<1> SUFFICES ASSUME TypeOK, Handling, Crash PROVE Handling'
  OBVIOUS
<1>1. OneHandler'
  BY DEF Crash, OneHandler
<1>2. Virgin'
  BY DEF Crash, Handling, Virgin, TypeOK
<1> QED
  BY <1>1, <1>2, CrashSound DEF Handling

(* Accepting, closing and every other step keep pointers and records equal. *)
LEMMA HandlingStep == TypeOK /\ Places /\ Handling /\ [Next]_vars => Handling'
<1> SUFFICES ASSUME TypeOK, Places, Handling, [Next]_vars PROVE Handling'
  OBVIOUS
<1>a. Main \in All
  BY DEF All
<1>1. CASE ServerInit
  <2>1. CASE Crash
    BY <2>1, CrashHandling
  <2>2. CASE ~Crash
    BY <1>1, <1>a, <2>2, HandlingKept DEF ServerInit, TypeOK, Virgin
  <2> QED
    BY <2>1, <2>2
<1>2. CASE StartThread
  <2>1. pc'[Main] # "init"
    BY <1>2, <1>a DEF StartThread, ThreadRun, TypeOK, All
  <2> QED
    BY <1>2, <2>1, HandlingKept DEF StartThread, Virgin
<1>3. ASSUME NEW t \in All, Accept(t) PROVE Handling'
  <2> DEFINE c == Head(queue)
  <2>1. c \in Conns /\ conn[c] = "queued"
    BY <1>3 DEF Accept, TypeOK, Handling, QueueSound
  <2>2. /\ up /\ up'
        /\ conn' = [conn EXCEPT ![c] = "accepted"]
        /\ con' = [con EXCEPT ![t] = c]
        /\ con[t] = NoConn
    BY <1>3 DEF Accept, Returned, At, Places
  <2>3. \A u \in All : con[u] # c
    BY <2>1, <2>2 DEF Handling, OneHandler
  <2>4. OneHandler'
    <3>1. \A u \in All : con'[u] = IF u = t THEN c ELSE con[u]
      BY <2>2 DEF TypeOK
    <3>2. \A d \in Conns : conn'[d] = IF d = c THEN "accepted" ELSE conn[d]
      BY <2>2 DEF TypeOK
    <3>3. \A d \in Conns : conn'[d] = "accepted" <=> \E u \in All : con'[u] = d
      <4> TAKE d \in Conns
      <4>1. CASE d = c
        BY <3>1, <3>2, <4>1
      <4>2. CASE d # c
        BY <2>2, <3>1, <3>2, <4>2 DEF Handling, OneHandler
      <4> QED
        BY <4>1, <4>2
    <3>4. \A u, v \in All : con'[u] = con'[v] /\ con'[u] # NoConn => u = v
      BY <2>2, <2>3, <3>1 DEF Handling, OneHandler
    <3> QED
      BY <3>3, <3>4 DEF OneHandler
  <2>5. QueueSound'
    BY <1>3, TailSound DEF Accept, Handling, ConnStates
  <2>6. Virgin'
    BY <1>3, <1>a, <2>1 DEF Accept, Returned, AfterAccept, At, TypeOK, Virgin, Handling
  <2> QED
    BY <2>4, <2>5, <2>6 DEF Handling
<1>4. ASSUME NEW t \in All, Disconnect(t) PROVE Handling'
  <2> DEFINE c == con[t]
  <2>1. c \in Conns /\ up /\ up' /\ conn[c] = "accepted"
    BY <1>4 DEF Disconnect, At, Places, TypeOK, Handling, OneHandler
  <2>2. /\ \A u \in All : con'[u] = IF u = t THEN NoConn ELSE con[u]
        /\ \A d \in Conns : conn'[d] = IF d = c THEN "closed" ELSE conn[d]
    BY <1>4 DEF Disconnect, TypeOK
  <2>3. \A d \in Conns : conn'[d] = "accepted" <=> \E u \in All : con'[u] = d
    <3> TAKE d \in Conns
    <3>1. CASE d = c
      BY <2>1, <2>2, <3>1 DEF Handling, OneHandler
    <3>2. CASE d # c
      BY <2>1, <2>2, <3>2 DEF Handling, OneHandler
    <3> QED
      BY <3>1, <3>2
  <2>4. \A u, v \in All : con'[u] = con'[v] /\ con'[u] # NoConn => u = v
    BY <2>1, <2>2 DEF Handling, OneHandler
  <2>5. QueueSound'
    BY <1>4, <2>1, <2>2 DEF Disconnect, Handling, QueueSound
  <2>6. Virgin'
    BY <1>4, <1>a, <2>1 DEF Disconnect, At, TypeOK, Virgin, Handling
  <2> QED
    BY <2>3, <2>4, <2>5, <2>6 DEF Handling, OneHandler
<1>5. ASSUME NEW t \in All, AcceptFault(t) PROVE Handling'
  <2>1. con' = con /\ up' = up /\ sock' = sock /\ pc'[Main] # "init"
    <3>1. con[t] = NoConn /\ pc[t] = "accept" /\ con' = [con EXCEPT ![t] = NoConn]
      BY <1>5 DEF AcceptFault, Returned, At, Places
    <3>2. con' = con
      BY <3>1 DEF TypeOK
    <3>3. pc[Main] # "init"
      BY <1>5, <3>1 DEF Handling, Virgin, All
    <3> QED
      BY <1>5, <1>a, <3>2, <3>3 DEF AcceptFault, Returned, AfterAccept, TypeOK
  <2>2. CASE UNCHANGED <<queue, conn>>
    BY <2>1, <2>2, HandlingKept DEF Virgin
  <2>3. CASE queue # <<>> /\ conn' = [conn EXCEPT ![Head(queue)] = "lost"] /\ queue' = Tail(queue)
    <3>1. Head(queue) \in Conns /\ conn[Head(queue)] = "queued"
      BY <2>3 DEF TypeOK, Handling, QueueSound
    <3>2. OneHandler'
      BY <2>1, <2>3, <3>1 DEF Handling, OneHandler, TypeOK
    <3>3. QueueSound'
      BY <1>5, <2>3, TailSound DEF AcceptFault, Handling, ConnStates
    <3> QED
      BY <2>1, <3>2, <3>3 DEF Handling, Virgin
  <2> QED
    BY <1>5, <2>2, <2>3 DEF AcceptFault
<1>6. ASSUME NEW t \in All, ThreadStep(t), ~Accept(t), ~Disconnect(t) PROVE Handling'
  <2>0. Virgin
    BY DEF Handling
  <2>1. CASE Crash
    BY <2>1, CrashHandling
  <2>a. pc[t] \notin {"unborn", "init"}
    BY <1>6 DEF ThreadStep, Listen, AcceptError, SpawnNext, Receive, Respond, At
  <2>b. pc[Main] # "init"
    BY <2>0, <2>a DEF Virgin, All
  <2>c. ASSUME pc'[Main] # "init", UNCHANGED <<up, queue, conn, con>> PROVE Handling'
    BY <2>c, HandlingKept DEF Virgin
  <2>2. CASE Listen(t)
    BY <1>a, <2>2, <2>b, <2>c DEF Listen, TypeOK
  <2>3. CASE AcceptError(t)
    <3>1. con' = con
      BY <2>3 DEF AcceptError, Returned, At, Places, TypeOK
    <3> QED
      BY <1>a, <2>3, <2>b, <2>c, <3>1 DEF AcceptError, Returned, AfterAccept, TypeOK
  <2>4. CASE SpawnNext(t)
    <3>1. pc'[Main] # "init"
      BY <1>a, <2>4, <2>b DEF SpawnNext, ThreadRun, TypeOK, All
    <3> QED
      BY <2>4, <2>c, <3>1 DEF SpawnNext
  <2>5. CASE (Receive(t) \/ Respond(t)) /\ ~Crash
    BY <1>a, <2>5, <2>b, <2>c DEF Receive, Respond, TypeOK
  <2> QED
    BY <1>6, <2>1, <2>2, <2>3, <2>4, <2>5 DEF ThreadStep
<1>7. ASSUME NEW c \in Conns, Connect(c) PROVE Handling'
  <2>1. OneHandler'
    BY <1>7 DEF Connect, Handling, OneHandler, TypeOK
  <2>2. Virgin'
    BY <1>7 DEF Connect, Handling, Virgin
  <2> QED
    BY <1>7, <2>1, <2>2, AppendSound DEF Handling
<1>8. ASSUME NEW c \in Conns, ClientSpeaks(c) PROVE Handling'
  BY <1>8, HandlingKept DEF ClientSpeaks, Handling, Virgin
<1>9. CASE UNCHANGED vars
  BY <1>9, HandlingKept DEF vars, Handling, Virgin
<1> QED
  BY <1>1, <1>2, <1>3, <1>4, <1>5, <1>6, <1>7, <1>8, <1>9 DEF Next

(* Pointers, queue and records of connections agree in every reachable state. *)
LEMMA HandlingInvariant == SafeSpec => []Handling
<1>1. Init => Handling
  <2> SUFFICES ASSUME Init PROVE Handling
    OBVIOUS
  <2>1. OneHandler /\ Virgin
    BY DEF Init, OneHandler, Virgin, All
  <2>2. QueueSound
    BY DEF Init, QueueSound
  <2> QED
    BY <2>1, <2>2 DEF Handling
<1> QED
  BY <1>1, TypeCorrect, PlacesInvariant, HandlingStep, PTL DEF SafeSpec

(* No connection is leaked, closed twice or served by two threads. *)
THEOREM ConnectionsHandledOnce == SafeSpec => []OneHandler
<1>1. Handling => OneHandler
  BY DEF Handling
<1> QED
  BY <1>1, HandlingInvariant, PTL

(* The kernel's queue and the connections' states agree. *)
THEOREM QueueCorrect == SafeSpec => []QueueSound
<1>1. Handling => QueueSound
  BY DEF Handling
<1> QED
  BY <1>1, HandlingInvariant, PTL

-----------------------------------------------------------------------------
(* A thread gets past w3ServerReceiveRequest only when its client spoke. *)
Spoken == \A t \in All : pc[t] \in {"respond", "disconnect"} => "spoken" \in input[con[t]]

(* No step takes a thread past the receive loop of a silent client.        *)
LEMMA SpokenStep == TypeOK /\ Places /\ Spoken /\ [Next]_vars => Spoken'
<1> SUFFICES ASSUME TypeOK, Places, Spoken, [Next]_vars PROVE Spoken'
  OBVIOUS
<1> USE DEF TypeOK, Spoken, Places, All
<1>1. CASE ServerInit
  BY <1>1 DEF ServerInit, Crash, At
<1>2. CASE StartThread
  BY <1>2 DEF StartThread, ThreadRun, At
<1>3. ASSUME NEW t \in All, ThreadStep(t) \/ AcceptFault(t) PROVE Spoken'
  <2>1. CASE Listen(t)
    BY <2>1 DEF Listen, At
  <2>2. CASE Accept(t)
    BY <2>2 DEF Accept, Returned, AfterAccept, At
  <2>3. CASE AcceptError(t)
    BY <2>3 DEF AcceptError, Returned, AfterAccept, At
  <2>4. CASE SpawnNext(t)
    BY <2>4 DEF SpawnNext, ThreadRun, At
  <2>5. CASE Receive(t)
    <3>1. CASE Crash
      BY <3>1 DEF Crash
    <3>2. CASE Has(t, {"spoken"}) /\ pc' = [pc EXCEPT ![t] = "respond"] /\ UNCHANGED <<input, con>>
      <4>1. "spoken" \in input[con[t]]
        BY <3>2 DEF Has
      <4> QED
        BY <3>2, <4>1
    <3> QED
      BY <2>5, <3>1, <3>2 DEF Receive
  <2>6. CASE Respond(t)
    BY <2>6 DEF Respond, Crash, At
  <2>7. CASE Disconnect(t)
    BY <2>7 DEF Disconnect, At
  <2>8. CASE AcceptFault(t)
    BY <2>8 DEF AcceptFault, Returned, AfterAccept, At
  <2> QED
    BY <1>3, <2>1, <2>2, <2>3, <2>4, <2>5, <2>6, <2>7, <2>8 DEF ThreadStep
<1>4. ASSUME NEW c \in Conns, Connect(c) \/ ClientSpeaks(c) PROVE Spoken'
  <2>1. pc' = pc /\ con' = con
    BY <1>4 DEF Connect, ClientSpeaks
  <2>2. \A d \in Conns : input[d] \subseteq input'[d]
    BY <1>4 DEF Connect, ClientSpeaks
  <2> QED
    BY <2>1, <2>2
<1>5. CASE UNCHANGED vars
  BY <1>5 DEF vars
<1> QED
  BY <1>1, <1>2, <1>3, <1>4, <1>5 DEF Next

(* Past the receive loop the client has spoken, in every reachable state.  *)
LEMMA SpokenInvariant == SafeSpec => []Spoken
<1>1. Init => Spoken
  BY DEF Init, Spoken, All
<1> QED
  BY <1>1, TypeCorrect, PlacesInvariant, SpokenStep, PTL DEF SafeSpec

-----------------------------------------------------------------------------
(* A crash is the death of the abstract service, when it may die. *)
LEMMA CrashDies ==
  ASSUME TypeOK, up, Crash,
         \/ \A c \in Conns : conn[c] = "idle"
         \/ \E c \in Conns : conn[c] = "accepted" /\ input[c] \cap {"reset", "long"} # {}
  PROVE  Service!Die
  BY DEF Crash, Service!Die, Service!Abandoned, Service!Open

(* Every step of the server is a step of the service or a stutter. *)
LEMMA StepImplements ==
  TypeOK /\ Places /\ Handling /\ Spoken /\ [Next]_vars => [Service!Next]_(Service!vars)
<1> SUFFICES ASSUME TypeOK, Places, Handling, Spoken, [Next]_vars
             PROVE  Service!Next \/ UNCHANGED Service!vars
  OBVIOUS
<1>a. ASSUME UNCHANGED <<up, conn, input>> PROVE UNCHANGED Service!vars
  BY <1>a DEF Service!vars
<1>1. CASE ServerInit
  <2>1. CASE Crash
    BY <1>1, <2>1, CrashDies DEF ServerInit, At, Handling, Virgin, Service!Next
  <2> QED
    BY <1>1, <1>a, <2>1 DEF ServerInit
<1>2. CASE StartThread
  BY <1>2, <1>a DEF StartThread
<1>3. ASSUME NEW t \in All, ThreadStep(t) \/ AcceptFault(t)
      PROVE  Service!Next \/ UNCHANGED Service!vars
  <2>1. CASE Listen(t) \/ AcceptError(t) \/ SpawnNext(t)
    BY <1>a, <2>1 DEF Listen, AcceptError, Returned, SpawnNext
  <2>2. CASE Accept(t) \/ AcceptFault(t)
    <3>1. queue # <<>> => Head(queue) \in Conns /\ conn[Head(queue)] = "queued"
      BY DEF TypeOK, Handling, QueueSound
    <3>2. CASE Accept(t)
      <4>1. Service!Take(Head(queue))
        BY <3>1, <3>2 DEF Accept, At, Returned, Service!Take, Service!Move
      <4> QED
        BY <3>1, <3>2, <4>1 DEF Accept, Service!Next
    <3>3. CASE AcceptFault(t) /\ queue # <<>> /\ conn' = [conn EXCEPT ![Head(queue)] = "lost"]
      <4>1. Service!Drop(Head(queue))
        BY <3>1, <3>3 DEF AcceptFault, At, Returned, Service!Drop, Service!Move
      <4> QED
        BY <3>1, <3>3, <4>1 DEF AcceptFault, Service!Next
    <3>4. CASE AcceptFault(t) /\ UNCHANGED <<queue, conn>>
      BY <1>a, <3>4 DEF AcceptFault, Returned
    <3> QED
      BY <2>2, <3>2, <3>3, <3>4 DEF AcceptFault
  <2>3. CASE Receive(t) \/ Respond(t)
    <3>1. con[t] \in Conns /\ conn[con[t]] = "accepted"
      BY <2>3 DEF Receive, Respond, At, Places, TypeOK, Handling, OneHandler
    <3>2. CASE Crash
      <4>1. up
        BY <2>3 DEF Receive, Respond, At
      <4>2. \E c \in Conns : conn[c] = "accepted" /\ input[c] \cap {"reset", "long"} # {}
        <5>1. input[con[t]] \cap {"reset", "long"} # {}
          BY <2>3, <3>2, <4>1 DEF Receive, Respond, Crash, Has
        <5> QED
          BY <3>1, <5>1
      <4> QED
        BY <3>2, <4>1, <4>2, CrashDies DEF Service!Next
    <3> QED
      BY <1>a, <2>3, <3>2 DEF Receive, Respond
  <2>4. CASE Disconnect(t)
    <3>1. con[t] \in Conns /\ conn[con[t]] = "accepted"
      BY <2>4 DEF Disconnect, At, Places, TypeOK, Handling, OneHandler
    <3>2. Service!Answer(con[t])
      BY <2>4, <3>1 DEF Disconnect, At, Spoken, Service!Answer, Service!Move
    <3> QED
      BY <3>1, <3>2 DEF Service!Next
  <2> QED
    BY <1>3, <2>1, <2>2, <2>3, <2>4 DEF ThreadStep
<1>4. ASSUME NEW c \in Conns, Connect(c) PROVE Service!Next
  <2>1. Service!Arrive(c)
    BY <1>4 DEF Connect, Service!Arrive, Service!Move
  <2> QED
    BY <2>1 DEF Service!Next
<1>5. ASSUME NEW c \in Conns, ClientSpeaks(c) PROVE Service!Next
  <2>1. PICK event \in Events : input' = [input EXCEPT ![c] = @ \cup {event}]
    BY <1>5, HabitsAssumption DEF ClientSpeaks
  <2>2. Service!Does(c, {event})
    BY <1>5, <2>1 DEF ClientSpeaks, Service!Does, Service!Open
  <2>3. Service!Speak(c) \/ Service!Reset(c)
    <3>1. CASE event = "reset"
      BY <2>2, <3>1 DEF Service!Reset
    <3>2. CASE event # "reset"
      <4>1. {event} \in SUBSET {"spoken", "long", "reading"}
        BY <3>2 DEF Events
      <4> QED
        BY <2>2, <4>1 DEF Service!Speak
    <3> QED
      BY <3>1, <3>2
  <2> QED
    BY <2>3 DEF Service!Next
<1>6. CASE UNCHANGED vars
  BY <1>6, <1>a DEF vars
<1> QED
  BY <1>1, <1>2, <1>3, <1>4, <1>5, <1>6 DEF Next

(* The pool of threads implements the service, safety part. *)
THEOREM Implementation == SafeSpec => Service!SafeSpec
<1>1. Init => Service!Init
  BY DEF Init, Service!Init
<1> QED
  BY <1>1, TypeCorrect, PlacesInvariant, HandlingInvariant, SpokenInvariant, StepImplements, PTL
     DEF SafeSpec, Service!SafeSpec
=============================================================================
