----------------------------- MODULE MailFileProofs -----------------------------
(***************************************************************************)
(* Proofs about MailFile, for any mail files and any size of a block: what *)
(* was read so far is always the header, the string in the block and       *)
(* nothing else, and the blocks of a well formed file hold it.             *)
(***************************************************************************)
EXTENDS MailFile, SmtpClientProofs, Induction

USE BlockAssumption

Strings == Seq(Characters)
Lists == Seq(Strings) \ {<<>>}

-----------------------------------------------------------------------------
(* A character more gives a line more, or makes the last line longer.       *)
LEMMA Adding ==
    ASSUME NEW ls \in Lists, NEW c \in Characters
    PROVE  /\ AddCharacter(ls, c) \in Lists
           /\ c = "\n" => AddCharacter(ls, c) = Append(ls, <<>>)
           /\ c # "\n" => /\ Len(AddCharacter(ls, c)) = Len(ls)
                          /\ AddCharacter(ls, c)[Len(ls)] = Append(ls[Len(ls)], c)
                          /\ \A k \in 1..(Len(ls) - 1) : AddCharacter(ls, c)[k] = ls[k]
<1>1. ls \in Seq(Strings) /\ Len(ls) \in Nat \ {0}
  BY DEF Lists
<1>2. ls[Len(ls)] \in Strings
  BY <1>1
<1>3. Append(ls[Len(ls)], c) \in Strings /\ <<>> \in Strings
  BY <1>2 DEF Strings
<1>4. CASE c = "\n"
  BY <1>1, <1>3, <1>4 DEF AddCharacter, Lists
<1>5. CASE c # "\n"
  <2>1. AddCharacter(ls, c) = [ls EXCEPT ![Len(ls)] = Append(ls[Len(ls)], c)]
    BY <1>5 DEF AddCharacter
  <2> HIDE DEF Strings
  <2> QED
    BY <1>1, <1>3, <1>5, <2>1 DEF Lists
<1> QED
  BY <1>4, <1>5

(* The function that LinesOf computes.                                      *)
LinesBy(f, s) ==
    /\ f \in [0..Len(s) -> Lists] /\ f[0] = << <<>> >>
    /\ \A n \in 1..Len(s) : f[n] = AddCharacter(f[n - 1], s[n])

(* There is one, and LinesOf is its last value.                            *)
LEMMA LinesFunction ==
    ASSUME NEW s \in Strings
    PROVE  \E f : LinesBy(f, s) /\ LinesOf(s) = f[Len(s)]
<1> DEFINE N == Len(s)
           added == [x \in Lists \X (1..N) |-> AddCharacter(x[1], s[x[2]])]
           OfLines(g) == g = [n \in 0..N |-> IF n = 0 THEN << <<>> >> ELSE AddCharacter(g[n - 1], s[n])]
<1>1. N \in Nat /\ \A n \in 1..N : s[n] \in Characters
  BY DEF Strings
<1>2. << <<>> >> \in Lists
  BY DEF Lists, Strings
<1>3. added \in [Lists \X (1..N) -> Lists]
  <2>1. ASSUME NEW x \in Lists \X (1..N) PROVE AddCharacter(x[1], s[x[2]]) \in Lists
    BY <1>1, Adding
  <2> QED
    BY <2>1
<1>4. \A ls \in Lists, n \in 1..N : added[<<ls, n>>] = AddCharacter(ls, s[n])
  OBVIOUS
<1> HIDE DEF added, N
<1>5. PICK f \in [0..N -> Lists] : Recursive(f, << <<>> >>, added, N)
  BY <1>1, <1>2, <1>3, RecursiveFunction
<1>6. ASSUME NEW n \in 0..N
      PROVE  f[n] = IF n = 0 THEN << <<>> >> ELSE AddCharacter(f[n - 1], s[n])
  <2>1. f[n] = IF n = 0 THEN << <<>> >> ELSE added[<<f[n - 1], n>>]
    BY <1>5 DEF Recursive
  <2>2. n # 0 => n - 1 \in 0..N /\ n \in 1..N
    BY <1>1
  <2>3. n # 0 => f[n - 1] \in Lists
    BY <1>5, <2>2
  <2> QED
    BY <1>4, <2>1, <2>2, <2>3
<1>7. OfLines(f)
  BY <1>5, <1>6
<1> DEFINE g == CHOOSE h : OfLines(h)
<1>8. OfLines(g)
  BY <1>7
<1>9. LinesOf(s) = g[N]
  BY DEF LinesOf, N
<1> HIDE DEF g
<1>10. g[0] = f[0] /\ \A n \in 1..N : g[n - 1] = f[n - 1] => g[n] = f[n]
  <2>1. g[0] = << <<>> >> /\ f[0] = << <<>> >>
    BY <1>1, <1>6, <1>8
  <2>2. ASSUME NEW n \in 1..N, g[n - 1] = f[n - 1] PROVE g[n] = f[n]
    <3>1. n \in 0..N /\ n # 0
      BY <1>1
    <3>2. g[n] = AddCharacter(g[n - 1], s[n]) /\ f[n] = AddCharacter(f[n - 1], s[n])
      BY <1>6, <1>8, <3>1
    <3> QED
      BY <2>2, <3>2
  <2> QED
    BY <2>1, <2>2
<1>11. \A n \in 0..N : g[n] = f[n]
  BY ONLY <1>1, <1>10, SameValues
<1>12. LinesBy(f, s)
  <2>1. \A n \in 1..N : f[n] = AddCharacter(f[n - 1], s[n])
    BY <1>1, <1>6
  <2>2. f[0] = << <<>> >>
    BY <1>1, <1>6
  <2> QED
    BY <1>5, <2>1, <2>2 DEF LinesBy, N
<1> QED
  BY <1>1, <1>9, <1>11, <1>12 DEF N

(* There is always a last line, and no text has one empty line.             *)
LEMMA LinesAre ==
    /\ \A s \in Strings : LinesOf(s) \in Lists
    /\ LinesOf(<<>>) = << <<>> >>
<1>1. ASSUME NEW s \in Strings PROVE LinesOf(s) \in Lists
  <2>1. PICK f : LinesBy(f, s) /\ LinesOf(s) = f[Len(s)]
    BY LinesFunction
  <2>2. Len(s) \in 0..Len(s)
    BY DEF Strings
  <2> QED
    BY <2>1, <2>2 DEF LinesBy
<1>2. LinesOf(<<>>) = << <<>> >>
  <2>1. <<>> \in Strings /\ Len(<<>>) = 0
    BY DEF Strings
  <2>2. PICK f : LinesBy(f, <<>>) /\ LinesOf(<<>>) = f[Len(<<>>)]
    BY <2>1, LinesFunction
  <2> QED
    BY <2>1, <2>2 DEF LinesBy
<1> QED
  BY <1>1, <1>2

(* The lines of a text are those of the text without its last character,    *)
(* and that character added.                                               *)
LEMMA LinesStep ==
    ASSUME NEW s \in Strings, NEW c \in Characters
    PROVE  /\ Append(s, c) \in Strings
           /\ LinesOf(Append(s, c)) = AddCharacter(LinesOf(s), c)
<1> DEFINE t == Append(s, c)
           N == Len(s)
<1>1. /\ t \in Strings /\ N \in Nat /\ Len(t) = N + 1 /\ t[N + 1] = c
      /\ \A n \in 1..N : t[n] = s[n]
  BY DEF Strings
<1> HIDE DEF t
<1>2. PICK f : LinesBy(f, s) /\ LinesOf(s) = f[N]
  BY LinesFunction
<1>3. PICK g : LinesBy(g, t) /\ LinesOf(t) = g[N + 1]
  BY <1>1, LinesFunction
<1> HIDE DEF N
<1>4. f[0] = g[0] /\ \A n \in 1..N : f[n - 1] = g[n - 1] => f[n] = g[n]
  <2>1. f[0] = << <<>> >> /\ g[0] = << <<>> >>
    BY <1>2, <1>3 DEF LinesBy
  <2>2. ASSUME NEW n \in 1..N PROVE f[n] = AddCharacter(f[n - 1], s[n]) /\ g[n] = AddCharacter(g[n - 1], s[n])
    <3>1. n \in 1..Len(s) /\ n \in 1..Len(t) /\ t[n] = s[n]
      BY <1>1 DEF N
    <3> QED
      BY <1>2, <1>3, <3>1 DEF LinesBy
  <2> QED
    BY <2>1, <2>2
<1>5. \A n \in 0..N : f[n] = g[n]
  <2>1. N \in Nat
    BY <1>1
  <2> QED
    BY ONLY <2>1, <1>4, SameValues
<1>6. N \in 0..N /\ N + 1 \in 1..Len(t) /\ N + 1 - 1 = N
  BY <1>1
<1>7. g[N + 1] = AddCharacter(g[N], c)
  BY <1>1, <1>3, <1>6 DEF LinesBy
<1> QED
  BY <1>1, <1>2, <1>3, <1>5, <1>6, <1>7 DEF t

(* The beginnings of a text.                                                *)
LEMMA Beginnings ==
    ASSUME NEW s \in Strings
    PROVE  /\ Len(s) \in Nat
           /\ SubSeq(s, 1, 0) = <<>> /\ SubSeq(s, 1, Len(s)) = s
           /\ \A n \in 0..Len(s) : SubSeq(s, 1, n) \in Strings
           /\ \A n \in 0..(Len(s) - 1) :
                 s[n + 1] \in Characters /\ SubSeq(s, 1, n + 1) = Append(SubSeq(s, 1, n), s[n + 1])
<1> USE DEF Strings
<1>1. Len(s) \in Nat /\ SubSeq(s, 1, 0) = <<>> /\ SubSeq(s, 1, Len(s)) = s
  OBVIOUS
<1>2. ASSUME NEW n \in 0..Len(s) PROVE SubSeq(s, 1, n) \in Seq(Characters)
  OBVIOUS
<1>3. ASSUME NEW n \in 0..(Len(s) - 1)
      PROVE  s[n + 1] \in Characters /\ SubSeq(s, 1, n + 1) = Append(SubSeq(s, 1, n), s[n + 1])
  OBVIOUS
<1> QED
  BY <1>1, <1>2, <1>3

(* The lines of a text are at least as many and as long as those of its     *)
(* beginnings.                                                             *)
LEMMA LinesGrow ==
    ASSUME NEW s \in Strings, NEW n \in 0..Len(s)
    PROVE  LET p == LinesOf(SubSeq(s, 1, n)) IN
           /\ Len(p) <= Len(LinesOf(s))
           /\ \A k \in 1..Len(p) : Len(p[k]) <= Len(LinesOf(s)[k])
<1> DEFINE L(m) == LinesOf(SubSeq(s, 1, m))
           S == {m \in n..Len(s) : /\ Len(L(n)) <= Len(L(m))
                                   /\ \A k \in 1..Len(L(n)) : Len(L(n)[k]) <= Len(L(m)[k])}
<1>1. Len(s) \in Nat /\ \A m \in 0..Len(s) : L(m) \in Lists
  BY Beginnings, LinesAre
<1>2. ASSUME NEW m \in 0..Len(s)
      PROVE  L(m) \in Seq(Strings) /\ Len(L(m)) \in Nat /\ \A k \in 1..Len(L(m)) : Len(L(m)[k]) \in Nat
  <2>1. L(m) \in Seq(Strings)
    BY <1>1 DEF Lists
  <2> HIDE DEF L
  <2>2. \A k \in 1..Len(L(m)) : L(m)[k] \in Strings
    BY <2>1
  <2> QED
    BY <2>1, <2>2 DEF Strings
<1>3. ASSUME NEW m \in 0..(Len(s) - 1)
      PROVE  /\ Len(L(m)) <= Len(L(m + 1))
             /\ \A k \in 1..Len(L(m)) : Len(L(m)[k]) <= Len(L(m + 1)[k])
  <2> DEFINE ls == L(m)
             c == s[m + 1]
  <2>1. ls \in Lists /\ c \in Characters /\ L(m + 1) = AddCharacter(ls, c)
    <3>1. m \in 0..Len(s)
      BY <1>1
    <3>2. SubSeq(s, 1, m) \in Strings /\ c \in Characters /\ SubSeq(s, 1, m + 1) = Append(SubSeq(s, 1, m), c)
      BY <3>1, Beginnings
    <3> QED
      BY <1>1, <3>1, <3>2, LinesStep
  <2>2. ls \in Seq(Strings) /\ Len(ls) \in Nat \ {0} /\ \A k \in 1..Len(ls) : ls[k] \in Seq(Characters)
    BY <2>1 DEF Lists, Strings
  <2> HIDE DEF ls, c
  <2>3. CASE c = "\n"
    <3>1. L(m + 1) = Append(ls, <<>>)
      BY <2>1, <2>3, Adding
    <3>2. Len(Append(ls, <<>>)) = Len(ls) + 1 /\ \A k \in 1..Len(ls) : Append(ls, <<>>)[k] = ls[k]
      BY <2>2
    <3>3. \A k \in 1..Len(ls) : Len(ls[k]) \in Nat
      BY <2>2
    <3>4. Len(L(m + 1)) = Len(ls) + 1 /\ \A k \in 1..Len(ls) : L(m + 1)[k] = ls[k]
      BY <3>1, <3>2
    <3>5. L(m) = ls
      BY DEF ls
    <3> HIDE DEF L
    <3> QED
      BY ONLY <2>2, <3>3, <3>4, <3>5
  <2>4. CASE c # "\n"
    <3>1. /\ Len(L(m + 1)) = Len(ls) /\ L(m + 1)[Len(ls)] = Append(ls[Len(ls)], c)
          /\ \A k \in 1..(Len(ls) - 1) : L(m + 1)[k] = ls[k]
      BY <2>1, <2>4, Adding
    <3>2. \A k \in 1..Len(ls) : Len(ls[k]) \in Nat /\ Len(Append(ls[k], c)) = Len(ls[k]) + 1
      BY <2>1, <2>2
    <3> HIDE DEF L
    <3>3. ASSUME NEW k \in 1..Len(ls) PROVE Len(ls[k]) <= Len(L(m + 1)[k])
      <4>1. CASE k = Len(ls)
        BY <2>2, <3>1, <3>2, <4>1
      <4>2. CASE k \in 1..(Len(ls) - 1)
        BY <2>2, <3>1, <3>2, <4>2
      <4> QED
        BY <2>2, <4>1, <4>2
    <3> QED
      BY <2>2, <3>1, <3>3 DEF ls
  <2> QED
    BY <2>3, <2>4
<1> HIDE DEF L
<1>4. n \in S
  BY <1>1, <1>2
<1>5. ASSUME NEW m \in n..Len(s), m \in S, m < Len(s) PROVE m + 1 \in S
  <2>1. m \in 0..(Len(s) - 1) /\ m \in 0..Len(s) /\ m + 1 \in 0..Len(s) /\ m + 1 \in n..Len(s) /\ n \in 0..Len(s)
    BY <1>1, <1>5
  <2>2. Len(L(n)) \in Nat /\ Len(L(m)) \in Nat /\ Len(L(m + 1)) \in Nat
    BY <1>2, <2>1
  <2>3. Len(L(n)) <= Len(L(m + 1))
    BY <1>3, <1>5, <2>1, <2>2
  <2>4. ASSUME NEW k \in 1..Len(L(n)) PROVE Len(L(n)[k]) <= Len(L(m + 1)[k])
    <3>1. k \in 1..Len(L(m)) /\ k \in 1..Len(L(m + 1))
      BY <1>5, <2>2, <2>3
    <3>2. Len(L(n)[k]) \in Nat /\ Len(L(m)[k]) \in Nat /\ Len(L(m + 1)[k]) \in Nat
      BY <1>2, <2>1, <3>1
    <3>3. Len(L(n)[k]) <= Len(L(m)[k]) /\ Len(L(m)[k]) <= Len(L(m + 1)[k])
      BY <1>3, <1>5, <2>1, <3>1
    <3> QED
      BY <3>2, <3>3
  <2> QED
    BY <2>1, <2>3, <2>4
<1> HIDE DEF S
<1>6. n..Len(s) \subseteq S
  <2>1. n \in Nat /\ Len(s) \in Nat
    BY <1>1
  <2> QED
    BY ONLY <1>4, <1>5, <2>1, SetInduction
<1>7. Len(s) \in S
  BY <1>1, <1>6
<1>8. L(Len(s)) = LinesOf(s)
  BY Beginnings DEF L
<1> QED
  BY <1>7, <1>8 DEF S, L

(* Adding to the last lines leaves those before them alone.                 *)
LEMMA HeaderLines ==
    ASSUME NEW h \in Seq(Strings), NEW ls \in Lists, NEW c \in Characters
    PROVE  /\ h \o ls \in Lists
           /\ AddCharacter(h \o ls, c) = h \o AddCharacter(ls, c)
<1> DEFINE a == h \o ls
<1>1. /\ ls \in Seq(Strings) /\ Len(ls) \in Nat \ {0} /\ Len(h) \in Nat
      /\ a \in Lists /\ Len(a) = Len(h) + Len(ls)
  BY DEF Lists
<1>2. <<>> \in Strings
  BY DEF Strings
<1>3. CASE c = "\n"
  <2>1. AddCharacter(a, c) = Append(a, <<>>) /\ AddCharacter(ls, c) = Append(ls, <<>>)
    BY <1>3 DEF AddCharacter
  <2>2. Append(h \o ls, <<>>) = h \o Append(ls, <<>>)
    BY <1>1, <1>2
  <2> QED
    BY <1>1, <2>1, <2>2
<1>4. CASE c # "\n"
  <2> DEFINE x == AddCharacter(a, c)
             y == AddCharacter(ls, c)
  <2>1. /\ y \in Seq(Strings) /\ Len(y) = Len(ls) /\ y[Len(ls)] = Append(ls[Len(ls)], c)
        /\ \A k \in 1..(Len(ls) - 1) : y[k] = ls[k]
    BY <1>4, Adding DEF Lists
  <2>2. /\ x \in Seq(Strings) /\ Len(x) = Len(a) /\ x[Len(a)] = Append(a[Len(a)], c)
        /\ \A k \in 1..(Len(a) - 1) : x[k] = a[k]
    BY <1>1, <1>4, Adding DEF Lists
  <2>3. /\ \A k \in 1..(Len(h) + Len(ls)) : a[k] = IF k <= Len(h) THEN h[k] ELSE ls[k - Len(h)]
    BY <1>1, ConcatProperties
  <2> HIDE DEF x, y, a
  <2>4. /\ h \o y \in Seq(Strings) /\ Len(h \o y) = Len(h) + Len(y)
        /\ \A k \in 1..(Len(h) + Len(y)) : (h \o y)[k] = IF k <= Len(h) THEN h[k] ELSE y[k - Len(h)]
    BY <2>1, ConcatProperties
  <2>5. ASSUME NEW k \in 1..Len(a) PROVE x[k] = (h \o y)[k]
    <3>1. k \in 1..(Len(h) + Len(ls)) /\ k \in 1..(Len(h) + Len(y))
      BY <1>1, <2>1
    <3>2. CASE k = Len(a)
      <4>1. ~ (k <= Len(h)) /\ k - Len(h) = Len(ls)
        BY <1>1, <3>2
      <4> QED
        BY <2>1, <2>2, <2>3, <2>4, <3>1, <3>2, <4>1
    <3>3. CASE k \in 1..(Len(a) - 1) /\ k <= Len(h)
      BY <2>2, <2>3, <2>4, <3>1, <3>3
    <3>4. CASE k \in 1..(Len(a) - 1) /\ ~ (k <= Len(h))
      <4>1. k - Len(h) \in 1..(Len(ls) - 1)
        BY <1>1, <3>4
      <4> QED
        BY <2>1, <2>2, <2>3, <2>4, <3>1, <3>4, <4>1
    <3>5. Len(a) \in Nat /\ Len(h) \in Nat
      BY <1>1
    <3>6. k = Len(a) \/ k \in 1..(Len(a) - 1)
      BY <3>5
    <3> QED
      BY <3>2, <3>3, <3>4, <3>6
  <2>6. x = h \o y
    <3>1. x \in Seq(Strings) /\ h \o y \in Seq(Strings) /\ Len(x) = Len(h \o y)
          /\ \A k \in 1..Len(x) : x[k] = (h \o y)[k]
      BY <1>1, <2>1, <2>2, <2>4, <2>5
    <3> QED
      BY ONLY <3>1, SeqEqual
  <2> QED
    BY <1>1, <2>6 DEF x, y, a
<1> QED
  BY <1>1, <1>3, <1>4

(* A character that ends no line goes to the string of the last line.       *)
LEMMA LongerLine ==
    ASSUME NEW h \in Seq(Strings), NEW w \in Strings, NEW c \in Characters
    PROVE  /\ Append(h, w) \in Lists /\ Append(w, c) \in Strings
           /\ AddCharacter(Append(h, w), c) =
                 IF c = "\n" THEN Append(Append(h, w), <<>>) ELSE Append(h, Append(w, c))
<1>1. <<w>> \in Lists /\ Append(w, c) \in Strings
  BY DEF Lists, Strings
<1>2. Append(h, w) \in Lists
  <2>1. Append(h, w) \in Seq(Strings) /\ Len(Append(h, w)) = Len(h) + 1 /\ Len(h) \in Nat
    BY AppendProperties
  <2>2. Append(h, w) # <<>>
    BY <2>1
  <2> QED
    BY <2>1, <2>2 DEF Lists
<1>3. c # "\n" => AddCharacter(<<w>>, c) = <<Append(w, c)>>
  <2>1. Len(<<w>>) = 1 /\ [<<w>> EXCEPT ![1] = Append(@, c)] = <<Append(w, c)>>
    OBVIOUS
  <2> QED
    BY <2>1 DEF AddCharacter
<1>4. \A v \in Strings : h \o <<v>> = Append(h, v)
  <2> HIDE DEF Strings
  <2> QED
    OBVIOUS
<1>5. h \o <<w>> = Append(h, w) /\ h \o <<Append(w, c)>> = Append(h, Append(w, c))
  BY <1>1, <1>4
<1>6. CASE c = "\n"
  BY <1>1, <1>2, <1>6 DEF AddCharacter
<1>7. CASE c # "\n"
  <2>1. AddCharacter(h \o <<w>>, c) = h \o AddCharacter(<<w>>, c)
    BY <1>1, HeaderLines
  <2> QED
    BY <1>1, <1>2, <1>3, <1>5, <1>7, <2>1
<1> QED
  BY <1>6, <1>7

(* The first four lines, and what the mail server sees of the others.       *)
LEMMA HeaderAndBody ==
    ASSUME NEW h \in Seq(Strings), Len(h) = 4, NEW ls \in Lists
    PROVE  /\ Len(h \o ls) > 4
           /\ SubSeq(h \o ls, 1, 4) = h
           /\ SubSeq(h \o ls, 5, Len(h \o ls)) = ls
           /\ SubSeq(Seen(h \o ls), 5, Len(h \o ls)) = Seen(ls)
<1> DEFINE a == h \o ls
<1>1. /\ ls \in Seq(Strings) /\ Len(ls) \in Nat \ {0}
      /\ a \in Seq(Strings) /\ Len(a) = 4 + Len(ls)
      /\ \A k \in 1..4 : a[k] = h[k]
      /\ \A k \in 1..Len(ls) : a[4 + k] = ls[k]
  <2>1. ls \in Seq(Strings) /\ Len(ls) \in Nat \ {0}
    BY DEF Lists
  <2>2. h \in Seq(Strings) /\ ls \in Seq(Strings)
    BY <2>1
  <2>3. /\ a \in Seq(Strings) /\ Len(a) = Len(h) + Len(ls)
        /\ \A k \in 1..(Len(h) + Len(ls)) : a[k] = IF k <= Len(h) THEN h[k] ELSE ls[k - Len(h)]
    BY ONLY <2>2, ConcatProperties
  <2> HIDE DEF a
  <2>4. ASSUME NEW k \in 1..Len(ls) PROVE a[4 + k] = ls[k]
    <3>1. 4 + k \in 1..(Len(h) + Len(ls)) /\ ~ (4 + k <= Len(h)) /\ 4 + k - Len(h) = k
      BY <2>1
    <3> QED
      BY <2>3, <3>1
  <2> QED
    BY <2>1, <2>3, <2>4
<1> HIDE DEF a
<1>2. SubSeq(a, 1, 4) = h
  <2>1. SubSeq(a, 1, 4) \in Seq(Strings) /\ Len(SubSeq(a, 1, 4)) = 4 /\ \A k \in 1..4 : SubSeq(a, 1, 4)[k] = a[k]
    BY <1>1
  <2>2. \A k \in 1..Len(h) : SubSeq(a, 1, 4)[k] = h[k]
    BY <1>1, <2>1
  <2> QED
    BY <2>1, <2>2, SeqEqual
<1>3. SubSeq(a, 5, Len(a)) = ls
  <2> DEFINE t == SubSeq(a, 5, Len(a))
  <2>1. t \in Seq(Strings) /\ Len(t) = Len(ls) /\ \A k \in 1..Len(ls) : t[k] = a[4 + k]
    BY <1>1
  <2> HIDE DEF t
  <2>2. \A k \in 1..Len(t) : t[k] = ls[k]
    BY <1>1, <2>1
  <2>3. t = ls
    BY <1>1, <2>1, <2>2, SeqEqual
  <2> QED
    BY <2>3 DEF t
<1>4. ASSUME NEW x \in Seq(Strings)
      PROVE  /\ Seen(x) \in Seq(BodyLines) /\ Len(Seen(x)) = Len(x)
             /\ \A k \in 1..Len(x) : Seen(x)[k] = SeenLine(Ended(x, k))
  <2>1. \A l : SeenLine(l) \in BodyLines
    BY DEF SeenLine, BodyLines
  <2> HIDE DEF SeenLine
  <2>2. DOMAIN x = 1..Len(x) /\ Len(x) \in Nat
    OBVIOUS
  <2>3. Seen(x) = [k \in 1..Len(x) |-> SeenLine(Ended(x, k))]
    BY <2>2 DEF Seen
  <2> QED
    BY <2>1, <2>2, <2>3
<1>5. ASSUME NEW k \in 1..Len(ls) PROVE Ended(a, 4 + k) = Ended(ls, k)
  <2>1. a[4 + k] = ls[k] /\ (4 + k < Len(a) <=> k < Len(ls))
    BY <1>1
  <2> QED
    BY <2>1 DEF Ended
<1> DEFINE b == SubSeq(Seen(a), 5, Len(a))
<1>6. b \in Seq(BodyLines) /\ Len(b) = Len(ls) /\ \A k \in 1..Len(ls) : b[k] = Seen(a)[4 + k]
  <2>1. Seen(a) \in Seq(BodyLines) /\ Len(Seen(a)) = Len(a)
    BY <1>1, <1>4
  <2> QED
    BY <1>1, <2>1
<1> HIDE DEF b
<1>7. b = Seen(ls)
  <2>1. ASSUME NEW k \in 1..Len(ls) PROVE b[k] = Seen(ls)[k]
    <3>1. 4 + k \in 1..Len(a)
      BY <1>1
    <3>2. Seen(a)[4 + k] = SeenLine(Ended(a, 4 + k)) /\ Seen(ls)[k] = SeenLine(Ended(ls, k))
      BY <1>1, <1>4, <3>1
    <3> QED
      BY <1>5, <1>6, <3>2
  <2>2. Seen(ls) \in Seq(BodyLines) /\ Len(b) = Len(Seen(ls)) /\ \A k \in 1..Len(b) : b[k] = Seen(ls)[k]
    BY <1>1, <1>4, <1>6, <2>1
  <2> QED
    BY <1>6, <2>2, SeqEqual
<1> QED
  BY <1>1, <1>2, <1>3, <1>7 DEF a, b

-----------------------------------------------------------------------------
(* What was read of the file.                                               *)
SoFar == SubSeq(file, 1, at)

(* Only the last character of the string can be the end of the file.        *)
TextRead ==
    /\ ~eof => text \in Strings
    /\ text # <<>> => Front(text) \in Strings

(* The lines read so far are those of the header and the string.            *)
LinesRead ==
    /\ Len(header) < 4 /\ ~eof =>
          LinesOf(SoFar) = IF text # <<>> /\ Last(text) = "\n"
                           THEN Append(Append(header, Front(text)), <<>>)
                           ELSE Append(header, text)
    /\ Len(header) = 4 /\ ~eof => LinesOf(SoFar) = header \o LinesOf(text)
    /\ Len(header) = 4 /\ eof /\ text # <<>> => LinesOf(file) = header \o LinesOf(Front(text))

(* The block holds one character more; that of a header's line does in a    *)
(* well formed file, which does not end there.                             *)
BlockHolds ==
    /\ Len(text) < size
    /\ Len(header) = 4 => size <= room
    /\ WellFormed(file) => /\ Len(header) < 4 => ~eof /\ size = Block /\ room = Block
                           /\ eof => text # <<>>

FileInv ==
    /\ FileTypeOK /\ MailAsInFile /\ DefinedIfWellFormed
    /\ phase = "open" => at = 0 /\ header = <<>> /\ ~eof
    /\ phase = "read" => TextRead /\ LinesRead /\ BlockHolds

-----------------------------------------------------------------------------
(* What fgetc gives is added to the string: the next character of the file, *)
(* or at its end the mark of the end.                                      *)
LEMMA GetcStep ==
    ASSUME FileTypeOK, Getc, text \in Strings, file' = file
    PROVE  /\ text' \in Seq(Characters \cup {"EOF"}) /\ Len(text') = Len(text) + 1
           /\ text' # <<>> /\ Front(text') = text
           /\ at' \in 0..Len(file) /\ eof' \in BOOLEAN
           /\ \/ /\ at < Len(file) /\ eof' = eof
                 /\ file[at + 1] \in Characters /\ text' = Append(text, file[at + 1])
                 /\ text' \in Strings /\ Last(text') = file[at + 1]
                 /\ LinesOf(SoFar)' = AddCharacter(LinesOf(SoFar), file[at + 1])
              \/ at = Len(file) /\ SoFar = file /\ eof'
<1>1. file \in Strings /\ at \in 0..Len(file) /\ Len(file) \in Nat /\ Len(text) \in Nat
  BY FilesAssumption DEF FileTypeOK, Strings
<1>2. ASSUME NEW S, NEW w \in Seq(S), NEW c \in S
      PROVE  /\ Append(w, c) \in Seq(S) /\ Len(Append(w, c)) = Len(w) + 1 /\ Append(w, c) # <<>>
             /\ SubSeq(Append(w, c), 1, Len(w) + 1 - 1) = w /\ Append(w, c)[Len(w) + 1] = c
  OBVIOUS
<1>3. ASSUME NEW c \in Characters \cup {"EOF"}
      PROVE  /\ Append(text, c) \in Seq(Characters \cup {"EOF"}) /\ Len(Append(text, c)) = Len(text) + 1
             /\ Append(text, c) # <<>> /\ Front(Append(text, c)) = text /\ Last(Append(text, c)) = c
  <2>1. text \in Seq(Characters \cup {"EOF"})
    BY DEF Strings
  <2> QED
    BY <1>2, <2>1 DEF Front, Last
<1>4. CASE at < Len(file)
  <2> DEFINE c == file[at + 1]
  <2>1. at \in 0..(Len(file) - 1) /\ at \in 0..Len(file) /\ at + 1 \in 0..Len(file)
    BY <1>1, <1>4
  <2>2. c \in Characters /\ SubSeq(file, 1, at + 1) = Append(SoFar, c) /\ SoFar \in Strings
    BY <1>1, <2>1, Beginnings DEF SoFar
  <2>3. c # "EOF"
    BY <2>2 DEF Characters, Commands
  <2>4. text' = Append(text, c) /\ eof' = eof /\ at' = at + 1
    BY <1>4, <2>3 DEF Getc, FileTypeOK
  <2>5. text' \in Strings
    BY <1>2, <2>2, <2>4 DEF Strings
  <2>6. LinesOf(SoFar)' = AddCharacter(LinesOf(SoFar), c)
    <3>1. SoFar' = Append(SoFar, c)
      BY <2>2, <2>4 DEF SoFar
    <3> QED
      BY <2>2, <3>1, LinesStep
  <2> HIDE DEF c
  <2> QED
    BY <1>3, <1>4, <2>1, <2>2, <2>4, <2>5, <2>6 DEF FileTypeOK, c
<1>5. CASE at = Len(file)
  <2>1. ~ (at < Len(file))
    BY <1>1, <1>5
  <2>2. text' = Append(text, "EOF") /\ eof' = TRUE /\ at' = at
    BY <2>1, Zenon DEF Getc
  <2>3. SoFar = file
    BY <1>1, <1>5, Beginnings DEF SoFar
  <2> QED
    BY <1>1, <1>3, <1>5, <2>2, <2>3
<1> QED
  BY <1>1, <1>4, <1>5

(* The sizes, and the strings of the header.                                *)
LEMMA FileFacts ==
    ASSUME FileTypeOK
    PROVE  /\ file \in Strings /\ Len(file) \in Nat /\ at \in 0..Len(file)
           /\ SoFar \in Strings /\ LinesOf(SoFar) \in Lists
           /\ header \in Seq(Strings) /\ Len(header) \in Nat /\ Len(header) <= 4
           /\ Len(text) \in Nat /\ size \in Nat /\ room \in Nat
<1>1. file \in Strings /\ header \in Seq(Strings) /\ at \in 0..Len(file)
  BY FilesAssumption DEF FileTypeOK, Strings
<1>2. Len(header) \in Nat /\ Len(text) \in Nat
  BY <1>1 DEF FileTypeOK
<1>3. Len(header) <= 4 /\ size \in Nat /\ room \in Nat
  BY <1>2 DEF FileTypeOK
<1> QED
  BY <1>1, <1>2, <1>3, Beginnings, LinesAre DEF SoFar

(* A character of a line of the header.                                     *)
LEMMA ReadLineStep == ASSUME FileInv, ReadLine PROVE FileInv'
<1>1. /\ FileTypeOK /\ TextRead /\ LinesRead /\ BlockHolds
      /\ phase = "read" /\ Len(header) < 4 /\ ~LineEnded
  BY DEF FileInv, ReadLine, ReadingHeader
<1>2. CASE Len(text) >= room /\ Undefined
  <2>1. ~ WellFormed(file)
    BY <1>1, <1>2, FileFacts DEF BlockHolds
  <2> QED
    BY <1>1, <1>2, <2>1 DEF Undefined, Goto, block, FileInv, FileTypeOK, MailAsInFile, DefinedIfWellFormed
<1>3. CASE /\ Len(text) < room /\ Getc
           /\ IF Len(text') < size
              THEN UNCHANGED <<size, room>>
              ELSE size' = size + Block /\ room' \in {0, size + Block}
           /\ UNCHANGED <<mail, phase, file, header>>
  <2>1. text \in Strings
    <3>1. eof => text = <<>>
      BY <1>1 DEF LineEnded
    <3>2. <<>> \in Strings
      BY DEF Strings
    <3> QED
      BY <1>1, <3>1, <3>2 DEF TextRead
  <2>2. /\ text' \in Seq(Characters \cup {"EOF"}) /\ Len(text') = Len(text) + 1
        /\ text' # <<>> /\ Front(text') = text
        /\ at' \in 0..Len(file) /\ eof' \in BOOLEAN
    BY <1>1, <1>3, <2>1, GetcStep
  <2>3. size' \in Nat /\ room' \in Nat /\ Len(text') < size'
    BY <1>1, <1>3, <2>2, FileFacts DEF BlockHolds
  <2>4. FileTypeOK'
    BY <1>1, <1>3, <2>2, <2>3 DEF FileTypeOK
  <2> DEFINE c == file[at + 1]
             read == /\ at < Len(file) /\ eof' = eof
                     /\ c \in Characters /\ text' = Append(text, c)
                     /\ text' \in Strings /\ Last(text') = c
                     /\ LinesOf(SoFar)' = AddCharacter(LinesOf(SoFar), c)
  <2>5. read \/ (SoFar = file /\ eof')
    BY <1>1, <1>3, <2>1, GetcStep
  <2>6. TextRead'
    BY <2>1, <2>2, <2>5 DEF TextRead
  <2>7. ~eof => LinesOf(SoFar) = Append(header, text)
    BY <1>1 DEF LinesRead, LineEnded
  <2>a. header \in Seq(Strings) /\ Len(header) \in Nat /\ Len(header) <= 3
    BY <1>1, FileFacts
  <2>8. ASSUME read, ~eof
        PROVE  LinesOf(SoFar)' = IF c = "\n" THEN Append(Append(header, text), <<>>)
                                 ELSE Append(header, text')
    <3>1. AddCharacter(Append(header, text), c) =
             IF c = "\n" THEN Append(Append(header, text), <<>>) ELSE Append(header, Append(text, c))
      BY <2>1, <2>8, <2>a, LongerLine
    <3> QED
      BY <2>7, <2>8, <3>1
  <2>9. LinesRead'
    <3>1. header' = header
      BY <1>3
    <3>2. Len(header') # 4
      <4>1. \A n \in Nat : n <= 3 => n # 4
        OBVIOUS
      <4>2. Len(header) # 4
        BY <2>a, <4>1, Zenon
      <4> QED
        BY <3>1, <4>2, Zenon
    <3> QED
      BY <2>2, <2>5, <2>8, <3>1, <3>2 DEF LinesRead
  <2>10. ASSUME WellFormed(file) PROVE ~eof' /\ size' = Block /\ room' = Block
    <3>1. ~eof /\ size = Block /\ room = Block
      BY <1>1, <2>10 DEF BlockHolds
    <3>2. header \in Seq(Strings) /\ Len(header) \in Nat /\ Len(header) <= 3 /\ Len(Append(header, text)) = Len(header) + 1
      <4>1. \A h \in Seq(Strings), w \in Strings : Len(Append(h, w)) = Len(h) + 1
        BY AppendProperties
      <4> QED
        BY <2>1, <2>a, <4>1
    <3>3. read
      <4>1. ASSUME SoFar = file PROVE FALSE
        <5>1. Len(LinesOf(file)) = Len(header) + 1
          BY <2>7, <3>1, <3>2, <4>1
        <5>2. Len(LinesOf(file)) > 4
          BY <2>10 DEF WellFormed
        <5> QED
          BY <3>2, <5>1, <5>2
      <4> QED
        BY <2>5, <4>1
    <3> DEFINE p == LinesOf(SoFar')
               k == Len(header) + 1
    <3>4. p = IF c = "\n" THEN Append(Append(header, text), <<>>) ELSE Append(header, text')
      BY <2>8, <3>1, <3>3
    <3>5. SoFar' = SubSeq(file, 1, at') /\ at' \in 0..Len(file)
      BY <1>3, <2>2 DEF SoFar
    <3>6. Len(p) <= Len(LinesOf(file)) /\ \A j \in 1..Len(p) : Len(p[j]) <= Len(LinesOf(file)[j])
      BY <1>1, <3>5, FileFacts, LinesGrow
    <3> HIDE DEF p
    <3>7. k \in 1..Len(p) /\ p[k] = IF c = "\n" THEN text ELSE text'
      <4>1. ASSUME NEW h \in Seq(Strings), NEW w \in Strings
            PROVE  /\ Append(h, w) \in Seq(Strings) /\ Len(Append(h, w)) = Len(h) + 1
                   /\ Append(h, w)[Len(h) + 1] = w /\ Len(h) \in Nat
                   /\ \A j \in 1..Len(h) : Append(h, w)[j] = h[j]
        BY AppendProperties
      <4>2. <<>> \in Strings
        BY DEF Strings
      <4>3. /\ Append(header, text) \in Seq(Strings) /\ Len(Append(header, text)) = k
            /\ Append(header, text)[k] = text
        BY <2>1, <3>2, <4>1
      <4>4. CASE c = "\n"
        <5>1. Len(p) = k + 1 /\ p[k] = text
          BY <3>2, <3>4, <4>1, <4>2, <4>3, <4>4
        <5> QED
          BY <3>2, <4>4, <5>1
      <4>5. CASE c # "\n"
        <5>1. Len(p) = k /\ p[k] = text'
          BY <3>2, <3>3, <3>4, <4>1, <4>5
        <5> QED
          BY <3>2, <4>5, <5>1
      <4> QED
        BY <4>4, <4>5
    <3>8. k \in 1..4 /\ Len(LinesOf(file)[k]) < Block - 1
      <4>1. \A j \in 1..4 : Len(LinesOf(file)[j]) < Block - 1
        BY <2>10 DEF WellFormed
      <4>2. k \in 1..4
        BY <3>2
      <4> QED
        BY <4>1, <4>2
    <3>9. Len(p[k]) <= Len(LinesOf(file)[k])
      BY <3>6, <3>7
    <3>10. Len(p[k]) \in Nat /\ Len(LinesOf(file)[k]) \in Nat
      <4>1. Len(LinesOf(file)) > 4 /\ LinesOf(file) \in Seq(Strings)
        BY <1>1, <2>10, FileFacts, LinesAre DEF WellFormed, Lists
      <4>2. LinesOf(file)[k] \in Strings
        BY <3>8, <4>1
      <4>3. p[k] \in Strings
        BY <2>1, <3>3, <3>7
      <4> QED
        BY <4>2, <4>3 DEF Strings
    <3>11. Len(text) \in Nat /\ Len(text') = Len(text) + 1
      BY <1>1, <2>2, FileFacts
    <3>12. Len(text') < Block
      BY <3>7, <3>8, <3>9, <3>10, <3>11
    <3> QED
      BY <1>3, <3>1, <3>3, <3>12
  <2>11. BlockHolds'
    <3>1. header' = header /\ file' = file
      BY <1>3
    <3>2. Len(header') # 4
      <4>1. \A n \in Nat : n <= 3 => n # 4
        OBVIOUS
      <4>2. Len(header) # 4
        BY <2>a, <4>1, Zenon
      <4> QED
        BY <3>1, <4>2, Zenon
    <3> QED
      BY <2>2, <2>3, <2>10, <3>1, <3>2 DEF BlockHolds
  <2> QED
    BY <1>1, <1>3, <2>4, <2>6, <2>9, <2>11 DEF FileInv, MailAsInFile, DefinedIfWellFormed
<1> QED
  BY <1>2, <1>3 DEF ReadLine

(* The end of a line of the header.                                         *)
LEMMA EndLineStep == ASSUME FileInv, EndLine PROVE FileInv'
<1>1. /\ FileTypeOK /\ TextRead /\ LinesRead /\ BlockHolds
      /\ phase = "read" /\ Len(header) < 4 /\ text # <<>> /\ (Last(text) = "\n" \/ eof)
  BY DEF FileInv, EndLine, ReadingHeader, LineEnded
<1>2. CASE Len(text) > room /\ Undefined
  <2>1. ~ WellFormed(file)
    BY <1>1, <1>2, FileFacts DEF BlockHolds
  <2> QED
    BY <1>1, <1>2, <2>1 DEF Undefined, Goto, block, FileInv, FileTypeOK, MailAsInFile, DefinedIfWellFormed
<1>3. CASE /\ Len(text) <= room
           /\ header' = Append(header, Front(text))
           /\ Allocate(IF Len(header) = 3 THEN Block + 1 ELSE Block)
           /\ UNCHANGED <<mail, phase, file, at, eof>>
  <2>1. <<>> \in Strings /\ Front(text) \in Strings
    BY <1>1 DEF Strings, TextRead
  <2>2. header' \in Seq(Strings) /\ Len(header') = Len(header) + 1 /\ Len(header) \in Nat /\ Len(header) <= 3
    BY <1>1, <1>3, <2>1, FileFacts, AppendProperties
  <2>3. /\ text' = <<>> /\ Len(text') = 0 /\ size' = Block /\ UNCHANGED <<eof, file, SoFar>>
        /\ room' = IF Len(header) = 3 THEN Block + 1 ELSE Block
    BY <1>3 DEF Allocate, SoFar
  <2>4. FileTypeOK'
    <3>1. text' \in Seq(Characters \cup {"EOF"})
      BY <2>3
    <3>2. header' \in Seq(Seq(Characters))
      BY <2>2 DEF Strings
    <3> QED
      BY <1>1, <1>3, <2>2, <2>3, <3>1, <3>2 DEF FileTypeOK
  <2>5. TextRead'
    BY <2>1, <2>3 DEF TextRead
  <2>6. ~eof => LinesOf(SoFar) = Append(header', <<>>)
    BY <1>1, <1>3 DEF LinesRead
  <2>7. header' \o LinesOf(<<>>) = Append(header', <<>>)
    <3>1. ASSUME NEW S, NEW h \in Seq(S), NEW w \in S PROVE h \o <<w>> = Append(h, w)
      OBVIOUS
    <3> QED
      BY <2>1, <2>2, <3>1, LinesAre
  <2>8. LinesRead'
    BY <2>3, <2>6, <2>7 DEF LinesRead
  <2>9. BlockHolds'
    <3>1. Len(text') < size' /\ (Len(header') = 4 => size' <= room')
          /\ (Len(header') < 4 => size' = Block /\ room' = Block)
      <4>1. ASSUME NEW n \in Nat, NEW k, n <= 3, k = n + 1
            PROVE  k < 4 => n # 3
        BY <4>1
      <4>2. Len(header') < 4 => Len(header) # 3
        BY <2>2, <4>1
      <4>3. room' \in {Block, Block + 1} /\ (Len(header) # 3 => room' = Block)
        BY <2>3
      <4> QED
        BY ONLY <2>3, <4>2, <4>3, BlockAssumption
    <3>2. WellFormed(file') => ~eof'
      BY <1>1, <2>3 DEF BlockHolds
    <3> QED
      BY <3>1, <3>2 DEF BlockHolds
  <2> QED
    BY <1>1, <1>3, <2>4, <2>5, <2>8, <2>9 DEF FileInv, MailAsInFile, DefinedIfWellFormed
<1> QED
  BY <1>2, <1>3 DEF EndLine

(* A character of the body.                                                 *)
LEMMA ReadBodyStep == ASSUME FileInv, ReadBody PROVE FileInv'
<1>1. /\ FileTypeOK /\ TextRead /\ LinesRead /\ BlockHolds
      /\ phase = "read" /\ Len(header) = 4 /\ ~eof /\ text \in Strings
  BY DEF FileInv, ReadBody, ReadingBody, TextRead
<1>2. /\ Len(text) < room /\ Getc
      /\ IF Len(text') < size
         THEN UNCHANGED <<size, room>>
         ELSE size' = size + Block /\ room' = size + Block
      /\ UNCHANGED <<mail, phase, file, header>>
  <2>1. Len(text) < room /\ ~ (Len(text) >= room)
    BY <1>1, FileFacts DEF BlockHolds
  <2> QED
    BY <2>1 DEF ReadBody
<1>3. /\ text' \in Seq(Characters \cup {"EOF"}) /\ Len(text') = Len(text) + 1
      /\ text' # <<>> /\ Front(text') = text
      /\ at' \in 0..Len(file) /\ eof' \in BOOLEAN
  BY <1>1, <1>2, GetcStep
<1>4. size' \in Nat /\ room' \in Nat /\ Len(text') < size' /\ size' <= room'
  BY <1>1, <1>2, <1>3, FileFacts DEF BlockHolds
<1>5. FileTypeOK'
  <2>1. Len(text') <= size'
    BY <1>1, <1>3, <1>4, FileFacts
  <2> QED
    BY <1>1, <1>2, <1>3, <1>4, <2>1 DEF FileTypeOK
<1> DEFINE c == file[at + 1]
           read == /\ at < Len(file) /\ eof' = eof
                   /\ c \in Characters /\ text' = Append(text, c)
                   /\ text' \in Strings /\ Last(text') = c
                   /\ LinesOf(SoFar)' = AddCharacter(LinesOf(SoFar), c)
<1>6. read \/ (SoFar = file /\ eof')
  BY <1>1, <1>2, GetcStep
<1>7. TextRead'
  BY <1>1, <1>3, <1>6 DEF TextRead
<1>8. LinesOf(SoFar) = header \o LinesOf(text)
  BY <1>1 DEF LinesRead
<1>9. read => LinesOf(SoFar)' = header \o LinesOf(text')
  <2>1. LinesOf(text) \in Lists /\ header \in Seq(Strings)
    BY <1>1, LinesAre, FileFacts
  <2>2. c \in Characters => AddCharacter(header \o LinesOf(text), c) = header \o AddCharacter(LinesOf(text), c)
    BY <2>1, HeaderLines
  <2>3. c \in Characters => LinesOf(Append(text, c)) = AddCharacter(LinesOf(text), c)
    BY <1>1, LinesStep
  <2>4. ASSUME read PROVE LinesOf(SoFar)' = header \o LinesOf(text')
    <3>1. /\ c \in Characters /\ text' = Append(text, c)
          /\ LinesOf(SoFar)' = AddCharacter(LinesOf(SoFar), c)
      BY <2>4, Zenon
    <3> HIDE DEF c
    <3> QED
      BY ONLY <1>8, <2>2, <2>3, <3>1, Zenon
  <2> QED
    BY <2>4
<1>10. LinesRead'
  <2>1. Len(header') = 4 /\ ~ (Len(header') < 4) /\ header' = header /\ file' = file
    BY <1>1, <1>2
  <2>2. ~eof' => LinesOf(SoFar)' = header \o LinesOf(text')
    BY <1>6, <1>9
  <2>3. eof' => LinesOf(file) = header \o LinesOf(text)
    BY <1>1, <1>6, <1>8
  <2> QED
    BY <1>3, <2>1, <2>2, <2>3 DEF LinesRead
<1>11. BlockHolds'
  <2>1. Len(header') = 4 /\ ~ (Len(header') < 4)
    BY <1>1, <1>2
  <2> QED
    BY <1>3, <1>4, <2>1 DEF BlockHolds
<1> QED
  BY <1>1, <1>2, <1>5, <1>7, <1>10, <1>11 DEF FileInv, MailAsInFile, DefinedIfWellFormed

(* The mail is handed over.                                                 *)
LEMMA SendMailStep == ASSUME FileInv, SendMail PROVE FileInv'
<1>1. /\ FileTypeOK /\ TextRead /\ LinesRead /\ BlockHolds
      /\ phase = "read" /\ Len(header) = 4 /\ eof
  BY DEF FileInv, SendMail, ReadingBody
<1>2. CASE text = <<>> /\ Undefined
  <2>1. ~ WellFormed(file)
    BY <1>1, <1>2 DEF BlockHolds
  <2> QED
    BY <1>1, <1>2, <2>1 DEF Undefined, Goto, block, FileInv, FileTypeOK, MailAsInFile, DefinedIfWellFormed
<1>3. CASE /\ text # <<>>
           /\ mail' = Seen(LinesOf(Front(text))) /\ Goto("sent")
           /\ UNCHANGED <<file, at, eof, header, block>>
  <2>1. LinesOf(file) = header \o LinesOf(Front(text)) /\ Front(text) \in Strings
    BY <1>1, <1>3 DEF LinesRead, TextRead
  <2>2. LinesOf(Front(text)) \in Lists /\ header \in Seq(Strings)
    BY <1>1, <2>1, LinesAre, FileFacts
  <2>3. /\ Len(LinesOf(file)) > 4 /\ header = SubSeq(LinesOf(file), 1, 4)
        /\ LinesOf(Front(text)) = SubSeq(LinesOf(file), 5, Len(LinesOf(file)))
        /\ mail' = Body(file)
    BY <1>1, <1>3, <2>1, <2>2, HeaderAndBody DEF Body
  <2> QED
    BY <1>1, <1>3, <2>3 DEF Goto, block, FileInv, FileTypeOK, MailAsInFile, DefinedIfWellFormed
<1> QED
  BY <1>2, <1>3 DEF SendMail

(* The file is opened, with a block for the first line.                     *)
LEMMA OpenStep == ASSUME FileInv, Open PROVE FileInv'
<1>1. FileTypeOK /\ phase = "open" /\ at = 0 /\ header = <<>> /\ ~eof /\ UNCHANGED <<mail, file, at, eof, header>>
  BY DEF FileInv, Open
<1>2. CASE Goto("nofile") /\ UNCHANGED block
  BY <1>1, <1>2 DEF Goto, block, FileInv, FileTypeOK, MailAsInFile, DefinedIfWellFormed
<1>3. CASE Goto("read") /\ Allocate(Block)
  <2>1. text' = <<>> /\ Len(text') = 0 /\ size' = Block /\ room' = Block /\ phase' = "read"
    BY <1>3 DEF Goto, Allocate
  <2>2. FileTypeOK'
    <3>1. text' \in Seq(Characters \cup {"EOF"})
      BY <2>1
    <3> QED
      BY <1>1, <2>1, <3>1 DEF FileTypeOK
  <2>3. <<>> \in Strings /\ Len(header) = 0
    BY <1>1 DEF Strings
  <2>4. LinesOf(SoFar)' = << <<>> >> /\ Append(header, <<>>) = << <<>> >>
    <3>1. SoFar' = <<>>
      BY <1>1, FileFacts, Beginnings DEF SoFar
    <3> QED
      BY <1>1, <3>1, LinesAre
  <2>5. TextRead' /\ LinesRead' /\ BlockHolds'
    BY <1>1, <2>1, <2>3, <2>4 DEF TextRead, LinesRead, BlockHolds
  <2> QED
    BY <1>1, <2>1, <2>2, <2>5 DEF FileInv, MailAsInFile, DefinedIfWellFormed
<1> QED
  BY <1>1, <1>2, <1>3 DEF Open

(* The dialogue changes neither the mail nor what was read.                 *)
LEMMA FileStep == FileInv /\ [FileNext]_<<vars, reader>> => FileInv'
<1> SUFFICES ASSUME FileInv, [FileNext]_<<vars, reader>> PROVE FileInv'
  OBVIOUS
<1>1. CASE Read
  BY <1>1, OpenStep, ReadLineStep, EndLineStep, ReadBodyStep, SendMailStep DEF Read
<1>2. CASE UNCHANGED <<mail, reader>>
  BY <1>2 DEF reader, block, FileInv, FileTypeOK, MailAsInFile, DefinedIfWellFormed,
              TextRead, LinesRead, BlockHolds, SoFar
<1>3. CASE Dialogues(Next)
  <2>1. UNCHANGED mail
    BY <1>3 DEF Dialogues, Next, ClientStep, ServerStep, Connect, SendData, ReceiveMailReply,
                Disconnect, Greet, AcceptCommand, RefuseCommand, TakeLine, TakeEnd, Quit, GiveUp, Close
  <2> QED
    BY <1>2, <1>3, <2>1 DEF Dialogues
<1>4. CASE UNCHANGED <<vars, reader>>
  BY <1>2, <1>4 DEF vars
<1> QED
  BY <1>1, <1>3, <1>4 DEF FileNext

(* Before the mail file is opened nothing is read.                         *)
LEMMA FileInitInv == FileInit => FileInv
<1> SUFFICES ASSUME FileInit PROVE FileInv
  OBVIOUS
<1>1. text = <<>> /\ header = <<>> /\ phase = "open" /\ file \in Files /\ at = 0 /\ eof = FALSE
      /\ size = 0 /\ room = 0
  BY Zenon DEF FileInit
<1>2. file \in Seq(Characters)
  BY <1>1, FilesAssumption
<1>3. at \in 0..Len(file)
  BY <1>1, <1>2
<1>4. text \in Seq(Characters \cup {"EOF"}) /\ Len(text) = 0
  BY <1>1
<1>5. header \in Seq(Seq(Characters)) /\ Len(header) = 0
  BY <1>1
<1>6. FileTypeOK
  <2>1. size = 0 /\ room = 0 /\ Len(text) = 0 /\ Len(header) = 0
    BY <1>1, <1>4, <1>5
  <2>2. size \in Nat /\ room \in Nat /\ Len(text) <= size /\ Len(header) <= 4
    BY <2>1
  <2>3. eof \in BOOLEAN /\ phase \in {"open", "read", "sent", "nofile", "undefined"} /\ file \in Files
    BY <1>1, Zenon
  <2> QED
    BY <1>3, <1>4, <1>5, <2>2, <2>3, Zenon DEF FileTypeOK
<1> QED
  BY <1>1, <1>6 DEF FileInv, MailAsInFile, DefinedIfWellFormed

(* Reading keeps to the file, in every reachable state.                    *)
LEMMA FileInvariant == FileSafeSpec => []FileInv
  BY FileInitInv, FileStep, PTL DEF FileSafeSpec

(* Reading stays in the file, and a string in what its block is taken for.  *)
THEOREM FileTypeCorrect == FileSafeSpec => []FileTypeOK
<1>1. FileInv => FileTypeOK
  BY DEF FileInv
<1> QED
  BY <1>1, FileInvariant, PTL

(* Whatever the file and the size of a block: the header is its first four  *)
(* lines and the mail all the others.                                       *)
THEOREM SentAsInFile == FileSafeSpec => []MailAsInFile
<1>1. FileInv => MailAsInFile
  BY DEF FileInv
<1> QED
  BY <1>1, FileInvariant, PTL

(* Nothing is written outside of a block if the header has lines that are   *)
(* shorter than one, however long the body is.                              *)
THEOREM WellFormedIsDefined == FileSafeSpec => []DefinedIfWellFormed
<1>1. FileInv => DefinedIfWellFormed
  BY DEF FileInv
<1> QED
  BY <1>1, FileInvariant, PTL

-----------------------------------------------------------------------------
(* Until the mail is handed over the dialogue has not begun.                *)
Unsent == phase # "sent" => Init

(* The dialogue is about the mail of the file from its beginning on.        *)
LEMMA DialogueStep ==
    ASSUME FileInv, FileInv', Unsent, IInv, (Init => IInv)', [FileNext]_<<vars, reader>>
    PROVE  Unsent' /\ IInv'
<1>a. ASSUME UNCHANGED vars, phase' # "sent" => phase # "sent" PROVE Unsent' /\ IInv'
  <2>1. Init => Init'
    BY <1>a DEF vars, Init
  <2> QED
    BY <1>a, <2>1, OrderStep DEF Unsent
<1>1. CASE Read
  <2>1. CASE Open \/ ReadLine \/ EndLine \/ ReadBody
    <3>1. phase # "sent" /\ UNCHANGED mail
      BY <2>1 DEF Open, ReadLine, EndLine, ReadBody, ReadingHeader, ReadingBody, Undefined
    <3> QED
      BY <1>a, <1>1, <3>1 DEF Read, smtp, atServer, vars
  <2>2. CASE SendMail /\ Undefined
    BY <1>a, <1>1, <2>2 DEF Read, smtp, atServer, vars, Undefined, Goto, SendMail, ReadingBody
  <2>3. CASE SendMail /\ Goto("sent")
    <3>1. phase' = "sent" /\ mail' = Body(file') /\ file' \in Files /\ Len(LinesOf(file')) > 4
      BY <2>3 DEF Goto, FileInv, MailAsInFile, FileTypeOK
    <3>2. mail' \in Bodies
      BY <3>1, FileBodiesAssumption
    <3>3. phase # "sent" /\ Init /\ UNCHANGED smtp
      BY <1>1, <2>3 DEF SendMail, ReadingBody, Unsent, Read
    <3>4. Init'
      BY <3>2, <3>3 DEF Init, smtp, atServer
    <3> QED
      BY <3>1, <3>4 DEF Unsent
  <2> QED
    BY <1>1, <2>1, <2>2, <2>3 DEF Read, SendMail
<1>2. CASE Dialogues(Next)
  <2>1. phase = "sent" /\ phase' = phase /\ Next
    BY <1>2 DEF Dialogues, reader
  <2> QED
    BY <2>1, OrderStep DEF Unsent
<1>3. CASE UNCHANGED <<vars, reader>>
  BY <1>a, <1>3 DEF reader
<1> QED
  BY <1>1, <1>2, <1>3 DEF FileNext

(* The invariant of the dialogue holds of the mail that was read.          *)
LEMMA DialogueInvariant == FileSafeSpec => []IInv
<1>1. FileInit => Unsent /\ IInv
  BY InitInv DEF FileInit, Unsent
<1> QED
  BY <1>1, InitInv, FileInvariant, DialogueStep, PTL DEF FileSafeSpec

(* The types of the dialogue, with the mail of a file.                      *)
THEOREM FileDialogueTypes == FileSafeSpec => []TypeOK
<1>1. IInv => TypeOK
  BY DEF IInv
<1> QED
  BY <1>1, DialogueInvariant, PTL

(* The server delivers what is in the mail file behind its fourth line, or  *)
(* nothing: unless one of these lines is a dot, or one spells a command and *)
(* the server refused something.                                           *)
FileDelivered ==
    Single /\ phase = "sent" => delivered \in {<<>>, <<AsRead(Body(file))>>}

(* So the mail is delivered whole and once, as it is in the file, or not.  *)
THEOREM FileDeliveredWhole == FileSafeSpec => []OnlyTheMail /\ []FileDelivered
<1>1. IInv => OnlyTheMail
  BY DEF IInv, OnlyTheMail, Single
<1>2. FileInv /\ OnlyTheMail => FileDelivered
  BY DEF FileInv, MailAsInFile, OnlyTheMail, FileDelivered, Single
<1> QED
  BY <1>1, <1>2, DialogueInvariant, FileInvariant, PTL
=============================================================================
