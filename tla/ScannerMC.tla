------------------------------ MODULE ScannerMC ------------------------------
(* Documents for the two scanners.  Mixtures are all sequences of three      *)
(* fragments of tags: whole tags, tags that other text, zeros or the end    *)
(* cut short, texts longer than the buffer.  Pages are pairs of documents   *)
(* for the client, of which the first may end within a tag.                 *)
EXTENDS Scanner

Img == INSTANCE ImgTables
Correct == INSTANCE CorrectTables
MCAutomata == [client |-> Img!Automaton, correct |-> Correct!Automaton]

Chars(s) == [k \in 1..Len(s) |-> SubSeq(s, k, k)]
Nul == <<"NUL">>

ImgFragments ==
    {Nul} \cup {Chars(s) : s \in {"<img", " SRC\n=\"", "http://", "/x.e", "a\"", "<a", "\nhref=", "-> "}}
CorrectFragments ==
    {Nul} \cup {Chars(s) : s \in {"<img", " xsrc=\"", "SRC\n", "http://", "/x-e", "\n", "a \">"}}
Mixtures(fragments) == {f \o g \o h : f \in fragments, g \in fragments, h \in fragments}

Tags == { Chars("<img src=\"a/i.gif\">x"), Chars("?< IMG\n Src = http://t.ch/i.gif><a") }
Pages == Tags \cup
    { <<>>,
      Chars("<im") \o Nul \o Chars("g<img sr"),
      Chars("<a href=/x>") \o Nul \o Chars("<A HREF=\"xx\">"),
      Chars("<a x><img src=a-i>"),
      Chars("<img src=http:/x><img\n") }
Downloads ==
    { <<>>,
      Chars("x<img src=\"a/e.gif\" >\nx"),
      Chars("<IMG x SRC\n=http://t.ch/i-x.gif><im"),
      Chars("<img x") \o Nul \o Chars("xsrc=a/ \n-.gif\""),
      Chars("< img src=a/") \o Nul \o Chars("src=http://x<img"),
      Chars("<img src=x\n.\n<img sr\nx>") }

Given(p, ds, b) == [prog |-> p, docs |-> ds, interactive |-> b]
MCInputs ==
    {Given("client", <<d>>, FALSE) : d \in Mixtures(ImgFragments)}
    \cup {Given("client", <<d, e>>, FALSE) : d \in Pages, e \in Pages}
    \cup {Given("correct", <<d>>, b) : d \in Downloads \cup Mixtures(CorrectFragments), b \in BOOLEAN}

(* Pages with one image each; behind an anchor, too.                        *)
MCTags == {Given("client", <<d>>, FALSE) : d \in Tags \cup {Chars("<a x>\n<img src=a/i.gif>")}}
=============================================================================
