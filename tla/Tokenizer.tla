------------------------------- MODULE Tokenizer -------------------------------
(***************************************************************************)
(* What a scanner promises: it cuts the documents into the longest texts    *)
(* its rules match, taking the first rule of those that match as much, does *)
(* what the rule says and goes on to the next text.  The start condition    *)
(* is kept from one document to the next: nothing sets it back.            *)
(* Scanner implements it with automata and buffers.                        *)
(***************************************************************************)
EXTENDS LexRules

VARIABLES prog,         \* "client" or "correct"
          rest,         \* what is left of the document
          docs,         \* documents still to come
          start,        \* the start condition
          files,        \* what was written, a sequence for each document begun
          fetched       \* the images the rules asked for

vars == <<prog, rest, docs, start, files, fetched>>

Programs == {"client", "correct"}

Type ==
    /\ prog \in Programs
    /\ rest \in Seq(Characters)
    /\ docs \in Seq(Seq(Characters))
    /\ start \in {"INITIAL"} \cup ToSet(Begins(prog))
    /\ files \in Seq(Seq(Characters \cup {"HOST", "LASTPATH"}))
    /\ fetched \in Seq([name : Seq(Characters), remote : BOOLEAN])

(* The rules that match and how much of s; the longest of these matches,    *)
(* that of the first rule if there are several.                            *)
Matches(p, cond, s) == UNION {{<<r, k>> : k \in Ends(p, r, s)} : r \in Active(p, cond)}
Token(p, cond, s) ==
    LET all == Matches(p, cond, s) IN
    CHOOSE m \in all : \A o \in all : o[2] < m[2] \/ (o[2] = m[2] /\ m[1] <= o[1])

(* What rule r does for the text w.                                         *)
Act(p, r, w) ==
    /\ files' = [files EXCEPT ![Len(files)] = @ \o Put(p, r, w)]
    /\ fetched' = fetched \o Fetch(p, r, w)
    /\ start' = NextCondition(p, r, start)

Init ==
    /\ prog \in Programs
    /\ docs \in Seq(Seq(Characters))
    /\ rest = <<>> /\ start = "INITIAL" /\ files = <<>> /\ fetched = <<>>

Take ==
    /\ rest # <<>>
    /\ LET m == Token(prog, start, rest) IN
       /\ Act(prog, m[1], SubSeq(rest, 1, m[2]))
       /\ rest' = SubSeq(rest, m[2] + 1, Len(rest))
    /\ UNCHANGED <<prog, docs>>

NextDocument ==
    /\ rest = <<>> /\ docs # <<>>
    /\ rest' = Head(docs) /\ docs' = Tail(docs)
    /\ files' = Append(files, <<>>)
    /\ UNCHANGED <<prog, start, fetched>>

Next == Take \/ NextDocument

Spec == Init /\ [][Next]_vars
=============================================================================
