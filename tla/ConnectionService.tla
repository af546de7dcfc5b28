--------------------------- MODULE ConnectionService ---------------------------
(***************************************************************************)
(* What the server promises the clients that connect to its port, with no  *)
(* threads in sight: a connection waits, is taken, and is closed only      *)
(* after its client has spoken; a fault may cost a waiting connection, and *)
(* only a client that reset its connection, or sent as much as one read    *)
(* takes, can take the whole process down, with every open connection.     *)
(***************************************************************************)
CONSTANT Conns          \* the connection attempts of the clients

VARIABLES up,           \* the server process is alive
          conn,         \* what became of each connection
          input         \* what the client of each connection has done

vars == <<up, conn, input>>

Open == {"queued", "accepted"}

(* What is left of the connections when the process dies. *)
Abandoned == [c \in Conns |-> IF conn[c] \in Open THEN "lost" ELSE conn[c]]

Init ==
    /\ up = TRUE
    /\ conn = [c \in Conns |-> "idle"]
    /\ input = [c \in Conns |-> {}]

Move(c, from, to) ==
    /\ up
    /\ conn[c] = from
    /\ conn' = [conn EXCEPT ![c] = to]
    /\ UNCHANGED <<up, input>>

Arrive(c) == Move(c, "idle", "queued")
Take(c)   == Move(c, "queued", "accepted")
Drop(c)   == Move(c, "queued", "lost")
Answer(c) == "spoken" \in input[c] /\ Move(c, "accepted", "closed")

(* The client ends a line or its stream ("spoken"), has sent a read's worth *)
(* ("long"), reads its answer to the end ("reading"); it may reset the      *)
(* connection at any time, and is then gone.  It may go on when the server  *)
(* has closed.                                                              *)
Does(c, events) ==
    /\ conn[c] # "idle"
    /\ "reset" \notin input[c]
    /\ input' = [input EXCEPT ![c] = @ \cup events]
    /\ UNCHANGED <<up, conn>>

Speak(c) == \E events \in SUBSET {"spoken", "long", "reading"} : Does(c, events)
Reset(c) == Does(c, {"reset"})

(* The process never came up, or died serving such a client. *)
Die ==
    /\ up
    /\ \/ \A c \in Conns : conn[c] = "idle"
       \/ \E c \in Conns : conn[c] = "accepted" /\ input[c] \cap {"reset", "long"} # {}
    /\ up' = FALSE
    /\ conn' = Abandoned
    /\ UNCHANGED input

Next ==
    \/ \E c \in Conns : \/ Arrive(c) \/ Take(c) \/ Drop(c)
                        \/ Answer(c) \/ Speak(c) \/ Reset(c)
    \/ Die

SafeSpec == Init /\ [][Next]_vars

(* A taken connection whose client has spoken is eventually answered, if    *)
(* the client reads the answer or resets the connection.                    *)
Spec ==
    /\ SafeSpec
    /\ \A c \in Conns : WF_vars(Answer(c) /\ input[c] \cap {"reading", "reset"} # {})
=============================================================================
