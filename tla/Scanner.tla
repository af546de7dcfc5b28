-------------------------------- MODULE Scanner --------------------------------
(***************************************************************************)
(* The two scanners that flex generated: yylex with its buffer, one         *)
(* character of yy_match and one end of yy_find_action a step.  They share  *)
(* everything but their tables (ImgTables, CorrectTables), their actions    *)
(* (LexRules) and where characters come from: w3ClientDocToFile hands each  *)
(* document over whole (yy_scan_bytes, client/src/lex.yy.c), the corrector  *)
(* reads its standard input (yy_get_next_buffer, client/utils/lex.yy.c).    *)
(*                                                                         *)
(* Places are offsets from yy_ch_buf.  The two end-of-buffer characters     *)
(* stand at Len(buffer.ch) and behind it; they and a zero in the text are   *)
(* the same to the automaton, so all three come to the same action.  The    *)
(* zero that yytext is ended with while an action runs, and the character   *)
(* it hides (yy_hold_char), are left out: no action of these rules looks    *)
(* behind its text.                                                        *)
(***************************************************************************)
EXTENDS Integers, LexRules

CONSTANTS Automata,     \* the automaton of each program
          BufSize,      \* YY_BUF_SIZE
          ReadSize,     \* YY_READ_BUF_SIZE
          Inputs        \* what the programs are run on

Programs == {"client", "correct"}
Text == Seq(Characters)
Conditions(p) == {"INITIAL"} \cup ToSet(Begins(p))

Classes(a) == DOMAIN a.class \cup {"end"}
States(a) == 1..a.jam
IsAutomaton(p, a) ==
    /\ a.jam \in Nat \ {0}
    /\ \A c \in Characters : a.class[c] \in Nat \ {0}
    /\ \A s \in States(a), c \in {0} \cup {a.class[d] : d \in Characters} :
          a.next[<<s, c>>] \in States(a)
    /\ a.accept[0] = 0 /\ \A s \in States(a) : a.accept[s] \in Nat
    /\ \A cond \in Conditions(p) : a.start[cond] \in States(a) \ a.final

(* What the buffers rely on: in any state the end of the buffer is accepted, *)
(* and nothing behind it; no text is empty, and any one character is one.   *)
EndsAtEnd(p, a) ==
    /\ \A s \in States(a) :
          /\ IF a.accept[s] # a.endOfBuffer
             THEN a.next[<<s, 0>>] \notin a.final /\ a.accept[a.next[<<s, 0>>]] = a.endOfBuffer
             ELSE \A c \in {0} \cup {a.class[d] : d \in Characters} : a.next[<<s, c>>] = a.jam
          /\ \A c \in Characters : a.accept[a.next[<<s, a.class[c]>>]] # a.endOfBuffer
    /\ \A s \in a.final, c \in Characters : a.next[<<s, a.class[c]>>] = a.jam
    /\ a.jam \in a.final /\ a.accept[a.jam] = 0 /\ a.endOfBuffer # 0
    /\ \A cond \in Conditions(p) :
          /\ a.accept[a.start[cond]] = 0
          /\ \A c \in Characters : a.accept[a.next[<<a.start[cond], a.class[c]>>]] # 0

ASSUME AutomataAssumption ==
    \A p \in Programs : IsAutomaton(p, Automata[p]) /\ EndsAtEnd(p, Automata[p])
ASSUME SizesAssumption == BufSize \in Nat \ {0} /\ ReadSize \in Nat \ {0}
ASSUME InputsAssumption ==
    Inputs \subseteq [prog : Programs, docs : Seq(Text), interactive : BOOLEAN]

VARIABLES prog,         \* the program
          interactive,  \* whether its standard input is a terminal
          docs,         \* documents still to come
          input,        \* what was not yet read of this one
          buffer,       \* yy_current_buffer
          text,         \* yytext_ptr
          cp,           \* yy_cp and yy_c_buf_p
          state,        \* yy_current_state
          last,         \* yy_last_accepting_state and _cpos
          start,        \* yy_start
          pc,           \* "match", "find" or, outside of yylex, "idle"
          files,        \* what was written, a sequence for each document begun
          fetched       \* calls of w3ClientGetImagePath

vars == <<prog, interactive, docs, input, buffer, text, cp, state, last, start, pc,
          files, fetched>>

world == <<prog, interactive, docs>>
results == <<start, files, fetched>>

A == Automata[prog]
N == Len(buffer.ch)

NoBuffer == [ch |-> <<>>, size |-> 0, fill |-> FALSE, status |-> "new"]

Init ==
    /\ \E i \in Inputs : prog = i.prog /\ docs = i.docs /\ interactive = i.interactive
    /\ input = <<>> /\ buffer = NoBuffer /\ text = 0 /\ cp = 0
    /\ state = 1 /\ last = [state |-> 0, pos |-> 0] /\ start = "INITIAL"
    /\ pc = "idle" /\ files = <<>> /\ fetched = <<>>

-----------------------------------------------------------------------------
SwitchToBuffer(b) == buffer' = b /\ text' = 0 /\ cp' = 0

(* yylex is called with a new buffer.                                       *)
Yylex(b) ==
    /\ pc = "idle" /\ docs # <<>>
    /\ SwitchToBuffer(b)
    /\ state' = A.start[start] /\ pc' = "match"
    /\ docs' = Tail(docs) /\ files' = Append(files, <<>>)
    /\ UNCHANGED <<prog, interactive, last, start, fetched>>

(* w3ClientDocToFile: the buffer is the document, and it is not filled again. *)
ScanBytes ==
    /\ prog = "client"
    /\ Yylex([ch |-> Head(docs), size |-> Len(Head(docs)), fill |-> FALSE, status |-> "new"])
    /\ UNCHANGED input

(* yy_init_buffer and yy_flush_buffer. *)
Flushed(b) == [b EXCEPT !.ch = <<>>, !.fill = TRUE, !.status = "new"]

(* main of the corrector: an empty buffer, to be filled from stdin.         *)
ScanInput ==
    /\ prog = "correct"
    /\ Yylex(Flushed([NoBuffer EXCEPT !.size = BufSize]))
    /\ input' = Head(docs)

-----------------------------------------------------------------------------
ClassAt(p) == IF p < N /\ buffer.ch[p + 1] # "NUL" THEN A.class[buffer.ch[p + 1]] ELSE 0

(* An accepting state is remembered before it is left.                      *)
Remember(s, p, l) == IF A.accept[s] # 0 THEN [state |-> s, pos |-> p] ELSE l

(* yy_match: one character.                                                 *)
MatchCharacter ==
    /\ pc = "match"
    /\ last' = Remember(state, cp, last)
    /\ state' = A.next[<<state, ClassAt(cp)>>]
    /\ cp' = cp + 1
    /\ pc' = IF state' \in A.final THEN "find" ELSE "match"
    /\ UNCHANGED <<world, results, input, buffer, text>>

(* yy_find_action: the rule and the end of its text, backed up if need be.  *)
Found == IF A.accept[state] # 0
         THEN [rule |-> A.accept[state], end |-> cp]
         ELSE [rule |-> A.accept[last.state], end |-> last.pos]

DoRule ==
    /\ pc = "find" /\ Found.rule # A.endOfBuffer
    /\ LET w == SubSeq(buffer.ch, text + 1, Found.end) IN
       /\ files' = [files EXCEPT ![Len(files)] = @ \o Put(prog, Found.rule, w)]
       /\ fetched' = fetched \o Fetch(prog, Found.rule, w)
    /\ start' = NextCondition(prog, Found.rule, start)
    /\ text' = Found.end /\ cp' = Found.end
    /\ state' = A.start[start'] /\ pc' = "match"
    /\ UNCHANGED <<world, input, buffer, last>>

-----------------------------------------------------------------------------
(* The states of automaton a on the text w from state q on, where a zero is  *)
(* a character.                                                            *)
Course(a, q, w) ==
    LET f[k \in 0..Len(w)] == IF k = 0 THEN q ELSE a.next[<<f[k - 1], a.class[w[k]]>>]
    IN  f

(* The last accepting of the states f, with n characters to come, as they   *)
(* are left one by one from place p on.                                     *)
LastLeft(f, n, p) ==
    LET left[k \in 0..n] == IF k = 0 THEN last ELSE Remember(f[k - 1], p + k - 1, left[k - 1])
    IN  left[n]

(* Mutant: the text so far is looked at in the first start condition. *)
PreviousInitial(w, p) ==
    LET f == Course(A, A.start["INITIAL"], w) IN
    [state |-> f[Len(w)], last |-> LastLeft(f, Len(w), p)]

(* Mutant: the place remembered before the text was moved is kept. *)
PreviousStale(w, p) ==
    LET f == Course(A, A.start[start], w) IN
    [state |-> f[Len(w)], last |-> last]

(* yy_get_previous_state: the automaton on the text w from place p on.      *)
Previous(w, p) ==
    LET f == Course(A, A.start[start], w) IN
    [state |-> f[Len(w)], last |-> LastLeft(f, Len(w), p)]

(* The end of the buffer was matched, or a zero: YY_END_OF_BUFFER.          *)
EndOfBuffer == pc = "find" /\ Found.rule = A.endOfBuffer
Begun == [buffer EXCEPT !.status = IF @ = "new" THEN "normal" ELSE @]
TextSoFar == SubSeq(buffer.ch, text + 1, Found.end - 1)
MissedEnd == Found.end > N + 1

(* It was a zero: yy_try_NUL_trans goes on with it, or the text ends here.  *)
RealNul ==
    /\ EndOfBuffer /\ Found.end <= N
    /\ LET r == Previous(TextSoFar, text)
           next == A.next[<<r.state, A.class["NUL"]>>] IN
       /\ last' = Remember(r.state, Found.end - 1, r.last)
       /\ \/ /\ next # A.jam
             /\ cp' = Found.end /\ state' = next /\ pc' = "match"
          \/ /\ next = A.jam
             /\ cp' = Found.end - 1 /\ state' = r.state /\ pc' = "find"
    /\ buffer' = Begun
    /\ UNCHANGED <<world, results, input, text>>

(* EOB_ACT_LAST_MATCH: the text up to the end, of a buffer that holds ch    *)
(* from place p on, is looked at once more without that end.                *)
LastMatch(ch, p) ==
    LET r == Previous(ch, p) IN
    /\ cp' = p + Len(ch) /\ state' = r.state /\ last' = r.last /\ pc' = "find"

(* Mutant: what is left is matched again even if that is nothing. *)
EndOfBytesAgain ==
    /\ EndOfBuffer /\ Found.end > N /\ ~MissedEnd /\ ~buffer.fill
    /\ LastMatch(TextSoFar, text)
    /\ buffer' = Begun
    /\ UNCHANGED <<world, results, input, text>>

(* The buffer is not to be filled again.                                    *)
EndOfBytes ==
    /\ EndOfBuffer /\ Found.end > N /\ ~MissedEnd /\ ~buffer.fill
    /\ \/ /\ TextSoFar = <<>>
          /\ cp' = text /\ pc' = "idle" /\ UNCHANGED <<state, last>>
       \/ /\ TextSoFar # <<>>
          /\ LastMatch(TextSoFar, text)
    /\ buffer' = Begun
    /\ UNCHANGED <<world, results, input, text>>

Room == buffer.size - Len(TextSoFar) - 1
Filling == EndOfBuffer /\ Found.end > N /\ ~MissedEnd /\ buffer.fill

(* No room behind the text so far: the buffer is doubled.                   *)
GrowBuffer ==
    /\ Filling /\ buffer.status # "pending" /\ Room <= 0
    /\ buffer' = [Begun EXCEPT !.size = @ * 2]
    /\ UNCHANGED <<world, results, input, text, cp, state, last, pc>>

(* Mutant: the room in the buffer is not looked at. *)
GotBeyond == SubSeq(input, 1, Min({ReadSize, Len(input)}))

(* YY_INPUT: as much as there is room for, from a terminal a line at most.  *)
Line(w) == LET nl == SelectInSeq(w, LAMBDA c : c = "\n") IN
           IF interactive /\ nl # 0 THEN SubSeq(w, 1, nl) ELSE w
Got == IF buffer.status = "pending" THEN <<>>
       ELSE Line(SubSeq(input, 1, Min({Room, ReadSize, Len(input)})))

(* The text so far is moved to the front of the buffer and more is read; at *)
(* the end of the input it is matched as it is, or the buffer starts anew.  *)
FillBuffer ==
    /\ Filling /\ (buffer.status = "pending" \/ Room > 0)
    /\ text' = 0
    /\ input' = SubSeq(input, Len(Got) + 1, Len(input))
    /\ \/ /\ Got # <<>>
          /\ buffer' = [Begun EXCEPT !.ch = TextSoFar \o Got]
          /\ LET r == Previous(TextSoFar, 0) IN state' = r.state /\ last' = r.last
          /\ cp' = Len(TextSoFar) /\ pc' = "match"
       \/ /\ Got = <<>> /\ TextSoFar # <<>>
          /\ buffer' = [Begun EXCEPT !.ch = TextSoFar, !.status = "pending"]
          /\ LastMatch(TextSoFar, 0)
       \/ /\ Got = <<>> /\ TextSoFar = <<>>
          /\ buffer' = Flushed(buffer)
          /\ cp' = 0 /\ pc' = "idle" /\ UNCHANGED <<state, last>>
    /\ UNCHANGED <<world, results>>

Next ==
    \/ ScanBytes \/ ScanInput
    \/ MatchCharacter \/ DoRule
    \/ RealNul \/ EndOfBytes \/ GrowBuffer \/ FillBuffer

SafeSpec == Init /\ [][Next]_vars
Spec == SafeSpec /\ WF_vars(Next)

-----------------------------------------------------------------------------
(* Every place is in its buffer, whose texts fit the memory allocated for   *)
(* them.                                                                   *)
TypeOK ==
    /\ prog \in Programs /\ interactive \in BOOLEAN
    /\ docs \in Seq(Text) /\ input \in Text
    /\ buffer \in [ch : Text, size : Nat, fill : BOOLEAN, status : {"new", "normal", "pending"}]
    /\ text \in Nat /\ cp \in Nat
    /\ state \in States(A) /\ last \in [state : {0} \cup States(A), pos : Nat]
    /\ start \in Conditions(prog) /\ pc \in {"idle", "match", "find"}
    /\ files \in Seq(Seq(Characters \cup {"HOST", "LASTPATH"}))
    /\ fetched \in Seq([name : Text, remote : BOOLEAN])

(* yylex looks at no character behind the second end-of-buffer character,   *)
(* and what is read fits the buffer: flex's "end of buffer missed" does not *)
(* happen.                                                                 *)
InBuffer ==
    /\ N <= buffer.size
    /\ text <= N
    /\ pc = "match" => cp <= N + 1
    /\ EndOfBuffer => ~MissedEnd

(* Whenever yylex looks for a rule, the place it backs up to is the last    *)
(* one in the text at hand at which the automaton accepts, and the state is *)
(* the one it was in there: neither is of an earlier text, nor from before  *)
(* yy_get_next_buffer moved the text (yy_last_accepting_cpos).  The end of  *)
(* the buffer is found only where that end, or a zero, is.                 *)
BackedUpTo == IF A.accept[state] # 0 THEN state ELSE last.state

BacksUpInText ==
    pc = "find" =>
        IF Found.rule = A.endOfBuffer
        THEN Found.end \in (text + 1)..(N + 1) /\ ClassAt(Found.end - 1) = 0
        ELSE LET passed == Course(A, A.start[start], SubSeq(buffer.ch, text + 1, cp)) IN
             /\ cp <= N /\ Found.end \in (text + 1)..cp /\ Found.rule # 0
             /\ BackedUpTo = passed[Found.end - text]
             /\ \A k \in (Found.end - text + 1)..(cp - text) : A.accept[passed[k]] = 0

(* The scanner cuts each document into the longest texts that its rules     *)
(* match, whatever the reads, the buffer and the zeros in the text, and does *)
(* what the rules say.                                                     *)
Rest == SubSeq(buffer.ch, text + 1, N) \o input
Rules == INSTANCE Tokenizer WITH rest <- Rest
ScansByRules == Rules!Spec

(* The tables are those of the rules: the longest beginning of w that the   *)
(* automaton accepts is the token, with its rule.                          *)
AcceptsTokens(p, a, w) ==
    \A cond \in Conditions(p) :
        LET f == Course(a, a.start[cond], w)
            m == Rules!Token(p, cond, w)
        IN  /\ m[2] \in 1..Len(w) /\ a.accept[f[m[2]]] = m[1] /\ m[1] # 0
            /\ \A k \in (m[2] + 1)..Len(w) : a.accept[f[k]] = 0
Documents(p) == UNION {ToSet(i.docs) : i \in {j \in Inputs : j.prog = p}}
Leftovers(p) == UNION {Suffixes(d) : d \in Documents(p)}
ASSUME TokensAssumption ==
    \A p \in Programs : \A w \in Leftovers(p) \ {<<>>} : AcceptsTokens(p, Automata[p], w)

(* yylex comes to the end of every document, with nothing of it left.       *)
ScansToTheEnd == <>[](pc = "idle" /\ docs = <<>> /\ Rest = <<>>)

(* w3ClientDocToFile "also retrieves all images using the lexical analyzer" *)
(* (w3client.h): an image tag with a name behind its src, where it stands   *)
(* and whatever stood before it, is fetched.                               *)
ImageTag(s) ==
    \E e \in ImgEnds(1, s) :
        LET source == SubSeq(s, e + 1, Len(s)) IN
        \E f \in ImgEnds(3, source) :
            LET name == SubSeq(source, f + 1, Len(source)) IN
            ImgEnds(4, name) \cup ImgEnds(5, name) # {}
ImagesIn(w) == Cardinality({k \in DOMAIN w : ImageTag(Lower(SubSeq(w, k, Len(w))))})
ImagesFetched ==
    \A i \in Inputs :
        i.prog = "client" /\ i.docs = docs
        => <>(Len(fetched) >= FoldSeq(LAMBDA w, n : n + ImagesIn(w), 0, i.docs))
=============================================================================
