------------------------------- MODULE CorrectTables -------------------------------
(* The tables of client/utils/lex.yy.c, generated from correct.lex.         *)
EXTENDS FlexTables

yy_accept ==
    << 0,0,0,0,0,0,0,0,0,0,0,8,7,7,7,4,4,4,7,7,6,5,0,0,0,0,0,3,4,4,4,0,6,0,5,0,0,4,4,0,4,0,
       0,0,0,0,0,0,0,0,0,0,0,0,0,2,0,0,0,1,1,0,1,1,1,1,1,1,1,0,1,1,1,1,0 >>

yy_base ==
    << 0,139,138,0,0,0,0,29,31,44,0,148,659,75,139,35,77,78,78,83,659,0,142,0,127,111,130,
       129,81,87,90,90,659,100,0,113,102,98,104,132,108,162,192,222,252,282,107,312,342,372,
       402,106,88,70,432,659,83,59,462,492,522,117,0,0,36,121,552,582,612,128,642,139,0,0,
       659,654,38,37,35,656 >>

yy_def ==
    << 0,75,75,74,3,75,75,75,75,74,9,74,74,74,76,77,77,77,74,74,74,78,13,13,74,74,76,76,77,
       77,77,74,74,74,78,74,74,77,77,79,77,79,79,79,79,79,74,79,74,79,79,74,74,74,79,74,74,
       74,79,74,79,74,59,59,74,74,79,74,79,74,74,74,70,70,0,74,74,74,74,74 >>

yy_meta ==
    << 0,1,1,2,1,1,2,2,2,2,1,1,1,1,2,2,2,2,2,2,2,2,2,2,2,2,2,2,2,2,2,2,2 >>

yy_nxt ==
    << 0,12,12,14,12,12,15,15,14,15,12,12,12,12,15,15,16,15,15,15,15,15,15,15,15,15,17,15,
       15,15,15,15,15,18,19,18,19,34,26,28,26,64,20,27,20,12,12,21,12,12,21,21,21,21,12,12,
       12,12,21,21,21,21,21,21,21,21,21,21,21,21,21,21,21,21,21,21,21,22,22,23,26,26,31,61,
       26,27,27,31,33,27,26,32,24,26,31,27,32,61,27,29,57,26,25,32,31,33,27,26,56,37,30,26,
       27,32,55,51,27,40,46,69,70,69,38,71,71,71,64,39,39,65,69,70,69,40,42,43,42,27,27,36,
       65,71,71,71,64,35,22,27,74,13,13,74,74,44,74,74,74,74,74,74,74,74,74,45,47,48,47,74,
       74,74,74,74,74,74,74,74,74,74,74,74,74,74,74,44,74,74,74,74,74,74,74,74,74,45,42,43,
       42,74,74,74,74,74,74,74,74,74,74,74,74,74,74,74,74,44,74,74,74,74,74,74,74,74,74,45,
       42,43,42,74,74,74,74,74,74,74,74,74,74,74,74,74,74,74,74,44,74,74,74,74,74,74,74,74,
       74,45,47,48,47,74,74,74,74,74,74,74,74,74,74,74,74,74,74,74,49,44,74,74,74,74,74,74,
       74,74,74,45,47,48,47,74,74,74,74,74,74,74,74,74,74,74,74,74,74,74,74,44,74,74,74,74,
       74,74,74,74,50,45,47,48,47,74,74,74,74,74,74,74,74,74,74,74,74,74,74,74,74,44,74,74,
       74,74,74,74,74,74,74,45,48,48,48,74,74,74,74,74,74,74,74,74,74,74,74,74,74,74,74,52,
       74,74,74,74,74,74,74,74,74,53,47,48,47,74,74,74,74,74,74,74,74,74,54,74,74,74,74,74,
       74,44,74,74,74,74,74,74,74,74,74,45,47,48,47,74,74,74,74,74,74,74,74,74,74,74,74,74,
       74,74,74,44,74,74,54,74,74,74,74,74,74,45,58,59,58,74,74,74,74,74,74,74,60,74,74,74,
       74,74,74,74,74,44,74,74,74,74,74,74,74,74,74,45,58,59,58,74,74,74,74,74,74,74,60,74,
       74,74,74,74,74,74,74,44,74,74,74,74,74,74,74,74,74,45,62,63,62,64,74,74,74,74,74,74,
       65,74,74,74,74,74,74,74,74,52,74,74,74,74,74,74,74,74,74,53,66,67,66,68,74,74,74,74,
       74,74,74,74,74,74,74,74,74,74,74,44,74,74,74,74,74,74,74,74,74,45,66,67,66,68,74,74,
       74,74,74,74,74,74,74,74,74,74,74,74,74,44,74,74,74,74,74,74,74,74,74,45,67,67,67,64,
       74,74,74,74,74,74,74,74,74,74,74,74,74,74,74,52,74,74,74,74,74,74,74,74,74,53,47,48,
       47,68,74,74,74,74,74,74,74,74,74,74,74,74,74,74,74,44,74,74,74,74,74,74,74,74,74,45,
       72,73,72,64,74,74,74,74,74,74,65,12,12,41,41,11,74,74,74,74,74,74,74,74,74,74,74,74,
       74,74,74,74,74,74,74,74,74,74,74,74,74,74,74,74,74,74,74,74 >>

yy_chk ==
    << 0,3,3,3,3,3,3,3,3,3,3,3,3,3,3,3,3,3,3,3,3,3,3,3,3,3,3,3,3,3,3,3,3,7,7,8,8,78,15,77,
       76,64,7,15,8,9,9,9,9,9,9,9,9,9,9,9,9,9,9,9,9,9,9,9,9,9,9,9,9,9,9,9,9,9,9,9,9,13,13,
       13,16,17,18,57,28,16,17,19,19,28,29,18,13,30,31,29,19,56,30,16,53,37,13,31,33,33,37,
       38,52,29,17,40,38,33,51,46,40,37,40,61,61,61,30,65,65,65,65,36,35,61,69,69,69,38,39,
       39,39,27,26,25,69,71,71,71,71,24,22,14,11,2,1,0,0,39,0,0,0,0,0,0,0,0,0,39,41,41,41,0,
       0,0,0,0,0,0,0,0,0,0,0,0,0,0,0,41,0,0,0,0,0,0,0,0,0,41,42,42,42,0,0,0,0,0,0,0,0,0,0,0,
       0,0,0,0,0,42,0,0,0,0,0,0,0,0,0,42,43,43,43,0,0,0,0,0,0,0,0,0,0,0,0,0,0,0,0,43,0,0,0,
       0,0,0,0,0,0,43,44,44,44,0,0,0,0,0,0,0,0,0,0,0,0,0,0,0,44,44,0,0,0,0,0,0,0,0,0,44,45,
       45,45,0,0,0,0,0,0,0,0,0,0,0,0,0,0,0,0,45,0,0,0,0,0,0,0,0,45,45,47,47,47,0,0,0,0,0,0,
       0,0,0,0,0,0,0,0,0,0,47,0,0,0,0,0,0,0,0,0,47,48,48,48,0,0,0,0,0,0,0,0,0,0,0,0,0,0,0,0,
       48,0,0,0,0,0,0,0,0,0,48,49,49,49,0,0,0,0,0,0,0,0,0,49,0,0,0,0,0,0,49,0,0,0,0,0,0,0,0,
       0,49,50,50,50,0,0,0,0,0,0,0,0,0,0,0,0,0,0,0,0,50,0,0,50,0,0,0,0,0,0,50,54,54,54,0,0,
       0,0,0,0,0,54,0,0,0,0,0,0,0,0,54,0,0,0,0,0,0,0,0,0,54,58,58,58,0,0,0,0,0,0,0,58,0,0,0,
       0,0,0,0,0,58,0,0,0,0,0,0,0,0,0,58,59,59,59,59,0,0,0,0,0,0,59,0,0,0,0,0,0,0,0,59,0,0,
       0,0,0,0,0,0,0,59,60,60,60,60,0,0,0,0,0,0,0,0,0,0,0,0,0,0,0,60,0,0,0,0,0,0,0,0,0,60,
       66,66,66,66,0,0,0,0,0,0,0,0,0,0,0,0,0,0,0,66,0,0,0,0,0,0,0,0,0,66,67,67,67,67,0,0,0,
       0,0,0,0,0,0,0,0,0,0,0,0,67,0,0,0,0,0,0,0,0,0,67,68,68,68,68,0,0,0,0,0,0,0,0,0,0,0,0,
       0,0,0,68,0,0,0,0,0,0,0,0,0,68,70,70,70,70,0,0,0,0,0,0,70,75,75,79,79,74,74,74,74,74,
       74,74,74,74,74,74,74,74,74,74,74,74,74,74,74,74,74,74,74,74,74,74,74,74,74,74,74,
       74 >>

(* The classes of characters, from 1; class 0 is the end of the buffer.     *)
(* "x" stands for any other letter or digit, "?" for any other character.   *)
yy_ec ==
    << {"?", "NUL"}, {"\t"}, {"\n"}, {" "}, {"\""}, {"-"}, {"."}, {"/"},
       {"x", "a", "A", "e", "E", "f", "F"}, {":"}, {"<"}, {"="}, {">"}, {"C"}, {"G"}, {"H"}, {"I"},
       {"M"}, {"P"}, {"R"}, {"S"}, {"T"}, {"_"}, {"c"}, {"g"}, {"h"}, {"i"}, {"m"}, {"p"}, {"r"},
       {"s"}, {"t"} >>

Class == [c \in UNION {yy_ec[k] : k \in DOMAIN yy_ec} |-> CHOOSE k \in DOMAIN yy_ec : c \in yy_ec[k]]

table == [base |-> yy_base, def |-> yy_def, meta |-> yy_meta, nxt |-> yy_nxt, chk |-> yy_chk,
          jam |-> 74, template |-> 75]

(* BEGIN: the state that a start condition is scanned from.                 *)
Start == [INITIAL |-> 1, IMAGENAME |-> 3, IMAGEFILENAME |-> 5, IMAGETAIL |-> 7,
          IMAGEREMOTE |-> 9]

Automaton == [next |-> Transitions(table), accept |-> [s \in 0..74 |-> yy_accept[s + 1]],
              final |-> Finals(table), jam |-> 74, endOfBuffer |-> 8,
              class |-> Class, start |-> Start]
=============================================================================
