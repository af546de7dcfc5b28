------------------------------- MODULE MailFileMC -------------------------------
(***************************************************************************)
(* Mail files for TLC: bodies shorter and longer than several blocks, with  *)
(* lines that end a mail, begin with a dot or spell commands; headers with  *)
(* one line of a block or more; files that end within the header.          *)
(***************************************************************************)
EXTENDS MailFile

MCBodies == UNION {[1..n -> BodyLines] : n \in 0..3}

Chars(s) == [k \in 1..Len(s) |-> SubSeq(s, k, k)]
Headers(line) ==
    {[k \in 1..4 |-> IF k = j THEN line ELSE "c\n"] : j \in 1..4}
HeaderText(h) == Chars(h[1]) \o Chars(h[2]) \o Chars(h[3]) \o Chars(h[4])

Short == Chars("c\nc\nc\nc\n")
MCFiles ==
    {Short \o Chars(s) : s \in {"", ".", "c\n", "c\n.\nc", "cc\ncc.", "cc\n\ncccc", "cccccccccc"}}
    \cup {Short \o s : s \in {<<".", "c">>, <<".", "\r", "\n", "c">>, <<"c", "\r", "\n", ".", "\r">>,
                            <<"RCPT", "c", "\n", "DATA", "\n", "c">>, <<"c", "\n", "QUIT">>}}
    \cup {HeaderText(h) \o <<"c">> : h \in UNION {Headers(l) : l \in {"\n", "cc\n", "cccc\n"}}}
    \cup {SubSeq(Short, 1, n) : n \in 0..7}
=============================================================================
