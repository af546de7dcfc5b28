------------------------------- MODULE FlexTables -------------------------------
(***************************************************************************)
(* The compressed automaton of a scanner that flex generated: the loop     *)
(* over yy_chk, yy_def and yy_meta that is in yylex, yy_get_previous_state  *)
(* and yy_try_NUL_trans of client/src/lex.yy.c and client/utils/lex.yy.c.   *)
(*                                                                         *)
(* A table is a record with the arrays of the C code as sequences, so that  *)
(* element i of an array is element i + 1 of the sequence; jam is the state *)
(* with no way out and template the first of the states that only share     *)
(* transitions.                                                            *)
(***************************************************************************)
EXTENDS Naturals, Sequences

(* Whether the transition of state s on class c is stored with s itself.    *)
Stored(t, s, c) == t.chk[t.base[s + 1] + c + 1] = s

(* The state after s on a character of class c: that of its default state   *)
(* if it is not stored, where classes are merged if that is a template.     *)
Transitions(t) ==
    LET next[s \in 1..(Len(t.base) - 1), c \in 0..(Len(t.meta) - 1)] ==
            IF Stored(t, s, c)
            THEN t.nxt[t.base[s + 1] + c + 1]
            ELSE LET d == t.def[s + 1] IN
                 next[d, IF d >= t.template THEN t.meta[c + 1] ELSE c]
    IN  [s \in 1..t.jam, c \in 0..(Len(t.meta) - 1) |-> next[s, c]]

(* The states in which the loop of yylex over the characters ends.          *)
Finals(t) == {s \in 1..t.jam : t.base[s + 1] = t.base[t.jam + 1]}
=============================================================================
