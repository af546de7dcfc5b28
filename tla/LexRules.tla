-------------------------------- MODULE LexRules --------------------------------
(***************************************************************************)
(* What the rules of the two scanners match and do: client/src/img.lex, the *)
(* scanner of w3ClientDocToFile, and client/utils/correct.lex, the program  *)
(* that corrects the tags of a downloaded file.  The actions of correct.lex *)
(* are those of the generated client/utils/lex.yy.c, which is compiled.     *)
(*                                                                         *)
(* An expression takes the places of a text s where it may begin to those   *)
(* where it may end: a sequence of expressions is a composition.  Place p   *)
(* is behind the p-th character.                                           *)
(***************************************************************************)
EXTENDS Naturals, Sequences, SequencesExt

One(s, C, P) == {p + 1 : p \in {q \in P \ {Len(s)} : s[q + 1] \in C}}

Run(s, C, p) == {q \in p..Len(s) : \A k \in (p + 1)..q : s[k] \in C}
Many(s, C, P) == UNION {Run(s, C, p) : p \in P}

Some(s, C, P) == Many(s, C, One(s, C, P))

At(s, w, p) == IsPrefix(w, SubSeq(s, p + 1, Len(s)))
Word(s, w, P) == {p + Len(w) : p \in {q \in P : At(s, w, q)}}

-----------------------------------------------------------------------------
Spaces == {" ", "\t", "\n"}
Letters == {"a", "c", "e", "f", "g", "h", "i", "m", "p", "r", "s", "t", "x"}
Capitals == {"A", "C", "E", "F", "G", "H", "I", "M", "P", "R", "S", "T"}
Signs == {"\"", "-", ".", "/", ":", "<", "=", ">", "_", "?", "NUL"}
Characters == Letters \cup Capitals \cup Signs \cup Spaces

http == <<"h", "t", "t", "p", ":", "/", "/">>
src == <<"s", "r", "c">>
img == <<"i", "m", "g">>
href == <<"h", "r", "e", "f">>

(* flex -i: the scanner of the client takes capitals for small letters.     *)
Small == [c \in Characters |->
            CASE c = "A" -> "a" [] c = "C" -> "c" [] c = "E" -> "e" [] c = "F" -> "f"
              [] c = "G" -> "g" [] c = "H" -> "h" [] c = "I" -> "i" [] c = "M" -> "m"
              [] c = "P" -> "p" [] c = "R" -> "r" [] c = "S" -> "s" [] c = "T" -> "t"
              [] OTHER -> c]
Lower(w) == [k \in DOMAIN w |-> Small[w[k]]]

Gap(s, P) == Many(s, Spaces, P)
Quotes(s, P) == Many(s, {"\""}, P)

(* The rules of img.lex.  IMGTAIL (rule 7) belongs to a start condition that *)
(* no action begins.                                                       *)
ImgNames == Letters \cup {".", "/", "\n", "_"}
Equals(s, P) == Quotes(s, Gap(s, Word(s, <<"=">>, Gap(s, P))))
ImgEnds(r, s) ==
    LET tag == Gap(s, Word(s, <<"<">>, {0})) IN
    CASE r = 1 -> Gap(s, Word(s, img, tag))
      [] r = 2 -> Word(s, <<"a">>, tag)
      [] r = 3 -> Equals(s, Word(s, src, Gap(s, {0})))
      [] r \in {4, 9} -> Word(s, http, {0})
      [] r \in {5, 6, 10} -> Some(s, ImgNames, {0})
      [] r = 8 -> Equals(s, Word(s, href, {0}))
      [] r = 11 -> One(s, Characters, {0})
ImgActive ==
    [INITIAL |-> {1, 2, 11}, SOURCEFRONT |-> {3, 11}, IMAGENAME |-> {4, 5, 11},
     IMAGEREMOTE |-> {6, 11}, ATAGFOUND |-> {8, 11}, HREFTAGFOUND |-> {9, 10, 11}]
ImgBegins == << "SOURCEFRONT", "ATAGFOUND", "IMAGENAME", "IMAGEREMOTE", "INITIAL", "INITIAL",
                "INITIAL", "HREFTAGFOUND", "INITIAL", "INITIAL" >>

(* The rules of correct.lex; IMAGEFILENAME is a start condition without     *)
(* rules that no action begins.  Rule 7 is flex's own: it echoes.           *)
CorrectNames == (Letters \cup Capitals \cup {".", "_", "-"})
AnyCase(s, w, W, P) == {p + Len(w) : p \in {q \in P : At(s, w, q) \/ At(s, W, q)}}
CorrectEnds(r, s) ==
    LET tag == Gap(s, Many(s, {" "}, Word(s, <<"<">>, {0})))
        image == Gap(s, AnyCase(s, img, <<"I", "M", "G">>, tag))
        line == Gap(s, Many(s, Characters \ {"\n"}, image))
        source == Gap(s, AnyCase(s, src, <<"S", "R", "C">>, line))
        path == Some(s, CorrectNames \cup {"/", "\n"}, {0}) IN
    CASE r = 1 -> Quotes(s, Gap(s, One(s, {"=", "\n"}, source)))
      [] r = 2 -> AnyCase(s, http, <<"H", "T", "T", "P", ":", "/", "/">>, {0})
      [] r = 3 -> Word(s, <<"/">>, path)
      [] r = 4 -> Some(s, CorrectNames, {0})
      [] r = 5 -> path
      [] r = 6 -> Word(s, <<">">>, Many(s, {" "}, Quotes(s, {0})))
      [] r = 7 -> One(s, Characters, {0})
CorrectActive ==
    [INITIAL |-> {1, 7}, IMAGENAME |-> {2, 3, 4, 7}, IMAGEREMOTE |-> {5, 7}, IMAGETAIL |-> {6, 7}]
CorrectBegins == << "IMAGENAME", "IMAGEREMOTE", "IMAGENAME", "IMAGETAIL", "IMAGETAIL", "INITIAL" >>

-----------------------------------------------------------------------------
(* The scanner of a program p: "client" or "correct".                       *)
Ends(p, r, s) == IF p = "client" THEN ImgEnds(r, Lower(s)) ELSE CorrectEnds(r, s)
Active(p, cond) == IF p = "client" THEN ImgActive[cond] ELSE CorrectActive[cond]
Begins(p) == IF p = "client" THEN ImgBegins ELSE CorrectBegins

(* Mutant: the end of an image's tag is awaited, as the scanner once did. *)
NextConditionTail(p, r, cond) ==
    IF p = "client" /\ r \in {5, 6} THEN "IMAGETAIL"
    ELSE IF r \in DOMAIN Begins(p) THEN Begins(p)[r] ELSE cond

(* BEGIN: the start condition after rule r.                                 *)
NextCondition(p, r, cond) == IF r \in DOMAIN Begins(p) THEN Begins(p)[r] ELSE cond

(* What a rule writes for the text w; the server's name and the directory   *)
(* of the document stand as one mark each.                                 *)
Base(w) == IF w[1] = "/" THEN <<"HOST">> ELSE <<"HOST", "LASTPATH">>
ImgPut(r, w) ==
    CASE r = 4 -> <<>>
      [] r = 5 -> Base(w) \o w
      [] r = 10 -> http \o Base(w) \o w
      [] OTHER -> w

(* printf("%s") writes up to the first zero.                                *)
CString(w) == SelectInSubSeq(w, 1, Len(w), LAMBDA c : c = "NUL")
Printed(w) == IF CString(w) = 0 THEN w ELSE SubSeq(w, 1, CString(w) - 1)
CorrectPut(r, w) ==
    CASE r \in {2, 3} -> <<>>
      [] r = 7 -> w
      [] OTHER -> Printed(w)

Put(p, r, w) == IF p = "client" THEN ImgPut(r, w) ELSE CorrectPut(r, w)

(* The images that w3ClientGetImagePath is called for.                      *)
Fetch(p, r, w) ==
    IF p = "client" /\ r \in {5, 6} THEN << [name |-> w, remote |-> r = 6] >> ELSE <<>>

=============================================================================
