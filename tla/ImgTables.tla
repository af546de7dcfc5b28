------------------------------- MODULE ImgTables -------------------------------
(* The tables of client/src/lex.yy.c, generated from img.lex with flex -i.  *)
EXTENDS FlexTables

yy_accept ==
    << 0,0,0,0,0,0,0,0,0,0,0,0,0,0,0,0,0,13,11,11,11,11,5,5,11,11,7,6,11,10,10,0,2,0,0,0,0,
       5,5,0,7,0,6,0,10,10,0,0,5,0,10,1,0,3,5,0,10,1,3,3,0,0,8,0,0,8,8,0,4,9,0 >>

yy_base ==
    << 0,130,129,0,23,47,0,1,3,72,0,119,118,97,0,0,0,136,195,121,140,111,0,108,5,6,195,0,
       109,0,106,0,195,109,0,106,113,0,102,8,195,17,0,110,0,21,27,163,22,26,20,28,0,173,32,
       177,31,31,0,34,31,0,187,30,29,0,23,16,195,195,195,192,17,14,12 >>

yy_def ==
    << 0,71,71,71,71,70,5,71,71,70,9,71,71,70,13,71,71,70,70,70,70,70,72,72,70,70,70,73,70,
       74,74,19,70,70,20,70,70,72,72,70,70,70,73,70,74,74,70,70,72,70,74,70,47,70,72,70,74,
       70,53,70,70,55,70,70,70,62,70,70,70,70,0,70,70,70,70 >>

yy_meta ==
    << 0,1,1,2,1,1,2,2,2,1,1,1,1,2,2,2,2,2,2,2,2,2,2,2,2,2 >>

yy_nxt ==
    << 0,70,20,20,20,24,25,24,25,39,39,41,39,26,44,26,42,40,40,37,40,39,41,69,21,20,20,20,
       66,40,57,57,57,57,57,57,68,67,64,59,63,60,56,55,54,51,50,21,18,18,22,18,18,22,22,22,
       18,18,18,18,22,22,22,22,22,22,23,22,22,22,22,22,22,18,18,27,18,18,27,27,27,18,18,18,
       18,27,27,27,27,27,27,27,27,27,27,27,27,27,18,18,29,18,18,29,29,29,18,18,18,18,29,29,
       29,29,29,29,30,29,29,29,29,29,29,31,31,31,49,48,47,36,46,45,43,38,36,32,70,28,28,19,
       19,33,34,34,34,70,70,70,70,70,70,70,70,70,70,70,70,70,70,70,70,70,70,70,35,52,52,52,
       70,70,70,70,70,70,53,58,58,58,59,61,61,61,70,70,70,70,70,70,62,65,65,65,66,18,18,17,
       70,70,70,70,70,70,70,70,70,70,70,70,70,70,70,70,70,70,70,70,70,70,70,70,70 >>

yy_chk ==
    << 0,0,3,3,3,7,7,8,8,24,25,25,39,7,74,8,73,24,25,72,39,41,41,67,3,4,4,4,66,41,51,51,51,
       57,57,57,64,63,60,59,56,54,50,49,48,46,45,4,5,5,5,5,5,5,5,5,5,5,5,5,5,5,5,5,5,5,5,5,
       5,5,5,5,5,9,9,9,9,9,9,9,9,9,9,9,9,9,9,9,9,9,9,9,9,9,9,9,9,9,13,13,13,13,13,13,13,13,
       13,13,13,13,13,13,13,13,13,13,13,13,13,13,13,13,13,19,19,19,43,38,36,35,33,30,28,23,
       21,19,17,12,11,2,1,19,20,20,20,0,0,0,0,0,0,0,0,0,0,0,0,0,0,0,0,0,0,0,20,47,47,47,0,0,
       0,0,0,0,47,53,53,53,53,55,55,55,0,0,0,0,0,0,55,62,62,62,62,71,71,70,70,70,70,70,70,
       70,70,70,70,70,70,70,70,70,70,70,70,70,70,70,70,70,70,70,70 >>

(* The classes of characters, from 1; class 0 is the end of the buffer.     *)
(* "x" stands for any other letter or digit, "?" for any other character.   *)
yy_ec ==
    << {"?", "-", "NUL"}, {"\t"}, {"\n"}, {" "}, {"\""}, {"."}, {"/"}, {"x"}, {":"}, {"<"}, {"="},
       {">"}, {"_"}, {"a", "A"}, {"c", "C"}, {"e", "E"}, {"f", "F"}, {"g", "G"}, {"h", "H"},
       {"i", "I"}, {"m", "M"}, {"p", "P"}, {"r", "R"}, {"s", "S"}, {"t", "T"} >>

Class == [c \in UNION {yy_ec[k] : k \in DOMAIN yy_ec} |-> CHOOSE k \in DOMAIN yy_ec : c \in yy_ec[k]]

table == [base |-> yy_base, def |-> yy_def, meta |-> yy_meta, nxt |-> yy_nxt, chk |-> yy_chk,
          jam |-> 70, template |-> 71]

(* BEGIN: the state that a start condition is scanned from.                 *)
Start == [INITIAL |-> 1, SOURCEFRONT |-> 3, IMAGENAME |-> 5, IMAGETAIL |-> 7,
          IMAGEREMOTE |-> 9, ATAGFOUND |-> 11, HREFTAGFOUND |-> 13, ATAGENDFOUND |-> 15]

Automaton == [next |-> Transitions(table), accept |-> [s \in 0..70 |-> yy_accept[s + 1]],
              final |-> Finals(table), jam |-> 70, endOfBuffer |-> 13,
              class |-> Class, start |-> Start]
=============================================================================
