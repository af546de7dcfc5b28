----------------------------- MODULE ScannerProofs -----------------------------
(***************************************************************************)
(* Proofs about Scanner, for all documents and automata, every buffer size  *)
(* and any reads.                                                          *)
(***************************************************************************)
EXTENDS Scanner, Induction, SequenceTheorems

(* What the tables of the running program give.                             *)
LEMMA Tables ==
    ASSUME prog \in Programs
    PROVE  /\ \A s \in States(A), c \in Characters :
                 /\ A.next[<<s, A.class[c]>>] \in States(A)
                 /\ A.accept[A.next[<<s, A.class[c]>>]] # A.endOfBuffer
           /\ \A s \in States(A) : A.next[<<s, 0>>] \in States(A)
           /\ \A s \in {0} \cup States(A) : A.accept[s] \in Nat
           /\ A.jam \in States(A) /\ A.jam \in A.final /\ A.accept[0] = 0 /\ A.accept[A.jam] = 0
           /\ A.endOfBuffer # 0
<1>1. IsAutomaton(prog, A) /\ EndsAtEnd(prog, A)
  BY AutomataAssumption DEF A
<1>2. \A s \in States(A), c \in {0} \cup {A.class[d] : d \in Characters} :
         A.next[<<s, c>>] \in States(A)
  BY <1>1 DEF IsAutomaton
<1>3. A.jam \in Nat \ {0} /\ A.accept[0] = 0 /\ \A s \in States(A) : A.accept[s] \in Nat
  BY <1>1 DEF IsAutomaton
<1>4. /\ \A s \in States(A), c \in Characters : A.accept[A.next[<<s, A.class[c]>>]] # A.endOfBuffer
      /\ A.jam \in A.final /\ A.accept[A.jam] = 0 /\ A.endOfBuffer # 0
  BY <1>1 DEF EndsAtEnd
<1>5. A.jam \in States(A)
  BY <1>3 DEF States
<1> QED
  BY <1>2, <1>3, <1>4, <1>5

(* How they end: what follows a final state is the jam, and so is what      *)
(* follows the end of the buffer.                                          *)
LEMMA TablesEnd ==
    ASSUME prog \in Programs
    PROVE  /\ \A s \in A.final, c \in Characters : A.next[<<s, A.class[c]>>] = A.jam
           /\ \A s \in States(A) : A.accept[s] # A.endOfBuffer =>
                 A.next[<<s, 0>>] \notin A.final /\ A.accept[A.next[<<s, 0>>]] = A.endOfBuffer
           /\ \A s \in States(A) : A.accept[s] = A.endOfBuffer =>
                 A.next[<<s, 0>>] = A.jam /\ \A c \in Characters : A.next[<<s, A.class[c]>>] = A.jam
  BY AutomataAssumption, Zenon DEF A, EndsAtEnd

(* How they begin: nothing is accepted before a character, and every first  *)
(* character is.                                                           *)
LEMMA TablesBegin ==
    ASSUME prog \in Programs, NEW cond \in Conditions(prog)
    PROVE  /\ A.start[cond] \in States(A) /\ A.start[cond] \notin A.final
           /\ A.accept[A.start[cond]] = 0
           /\ \A c \in Characters : A.accept[A.next[<<A.start[cond], A.class[c]>>]] # 0
  BY AutomataAssumption, Zenon DEF A, EndsAtEnd, IsAutomaton

-----------------------------------------------------------------------------
(* The function that Course computes.                                       *)
CourseBy(a, q, w, f) ==
    /\ f \in [0..Len(w) -> States(a)] /\ f[0] = q
    /\ \A n \in 1..Len(w) : f[n] = a.next[<<f[n - 1], a.class[w[n]]>>]

(* Course is that function.                                                 *)
LEMMA CourseIs ==
    ASSUME prog \in Programs, NEW q \in States(A), NEW w \in Text
    PROVE  CourseBy(A, q, w, Course(A, q, w))
<1> DEFINE N0 == Len(w)
           Q == States(A)
           added == [x \in Q \X (1..N0) |-> A.next[<<x[1], A.class[w[x[2]]]>>]]
           OfStates(g) == g = [n \in 0..N0 |-> IF n = 0 THEN q
                                               ELSE A.next[<<g[n - 1], A.class[w[n]]>>]]
<1>1. N0 \in Nat /\ \A n \in 1..N0 : w[n] \in Characters
  BY DEF Text
<1>2. \A s \in Q, c \in Characters : A.next[<<s, A.class[c]>>] \in Q
  BY Tables
<1>3. added \in [Q \X (1..N0) -> Q]
  <2>1. ASSUME NEW x \in Q \X (1..N0) PROVE A.next[<<x[1], A.class[w[x[2]]]>>] \in Q
    BY <1>1, <1>2
  <2> QED
    BY <2>1
<1>4. \A s \in Q, n \in 1..N0 : added[<<s, n>>] = A.next[<<s, A.class[w[n]]>>]
  OBVIOUS
<1>a. q \in Q
  OBVIOUS
<1> HIDE DEF added, N0, Q
<1>5. PICK f \in [0..N0 -> Q] : Recursive(f, q, added, N0)
  BY <1>1, <1>3, <1>a, RecursiveFunction
<1>6. ASSUME NEW n \in 0..N0
      PROVE  f[n] = IF n = 0 THEN q ELSE A.next[<<f[n - 1], A.class[w[n]]>>]
  <2>1. f[n] = IF n = 0 THEN q ELSE added[<<f[n - 1], n>>]
    BY <1>5 DEF Recursive
  <2>2. n # 0 => n - 1 \in 0..N0 /\ n \in 1..N0
    BY <1>1
  <2>3. n # 0 => f[n - 1] \in Q
    BY <1>5, <2>2
  <2> QED
    BY <1>4, <2>1, <2>2, <2>3
<1>7. OfStates(f)
  BY <1>5, <1>6
<1> DEFINE g == CHOOSE h : OfStates(h)
<1>8. OfStates(g)
  BY <1>7
<1>9. Course(A, q, w) = g
  BY DEF Course, N0
<1> HIDE DEF g
<1>10. g[0] = f[0] /\ \A n \in 1..N0 : g[n - 1] = f[n - 1] => g[n] = f[n]
  <2>1. g[0] = q /\ f[0] = q
    <3>1. 0 \in 0..N0
      BY <1>1
    <3>2. g[0] = q
      BY <1>8, <3>1
    <3>3. f[0] = q
      BY <1>6, <3>1
    <3> QED
      BY <3>2, <3>3
  <2>2. ASSUME NEW n \in 1..N0, g[n - 1] = f[n - 1] PROVE g[n] = f[n]
    <3>1. n \in 0..N0 /\ n # 0
      BY <1>1
    <3>2. g[n] = A.next[<<g[n - 1], A.class[w[n]]>>] /\ f[n] = A.next[<<f[n - 1], A.class[w[n]]>>]
      BY <1>6, <1>8, <3>1
    <3> QED
      BY <2>2, <3>2
  <2> QED
    BY <2>1, <2>2
<1>11. \A n \in 0..N0 : g[n] = f[n]
  <2> DEFINE T == {n \in 0..N0 : g[n] = f[n]}
  <2>1. N0 \in Nat /\ 0 \in T
    BY <1>1, <1>10
  <2>2. ASSUME NEW n \in 0..N0, n \in T, n < N0 PROVE n + 1 \in T
    <3>1. n + 1 \in 1..N0 /\ n + 1 \in 0..N0 /\ n + 1 - 1 = n
      BY <2>1, <2>2
    <3> QED
      BY <1>10, <2>2, <3>1
  <2> HIDE DEF T
  <2>3. 0..N0 \subseteq T
    BY <2>1, <2>2, SetInduction
  <2> QED
    BY <2>3 DEF T
<1>12. g \in [0..N0 -> Q]
  BY <1>5, <1>8, <1>11
<1>13. g[0] = q /\ \A n \in 1..N0 : g[n] = A.next[<<g[n - 1], A.class[w[n]]>>]
  BY <1>1, <1>8
<1> QED
  BY <1>9, <1>12, <1>13 DEF CourseBy, N0, Q

-----------------------------------------------------------------------------
(* Of the states f before the n-th, the last that accepts is l, if any does; *)
(* the first is at place p.                                                *)
Passed(accept, f, n, p, l) ==
    \A j \in 0..(n - 1) :
        accept[f[j]] # 0 /\ (\A i \in (j + 1)..(n - 1) : accept[f[i]] = 0)
        => l = [state |-> f[j], pos |-> p + j]

(* Remember keeps that as a state is left.                                  *)
LEMMA PassedStep ==
    ASSUME NEW f, NEW n \in Nat, NEW p, NEW l, Passed(A.accept, f, n, p, l)
    PROVE  Passed(A.accept, f, n + 1, p, Remember(f[n], p + n, l))
<1> SUFFICES ASSUME NEW j \in 0..n, A.accept[f[j]] # 0, \A i \in (j + 1)..n : A.accept[f[i]] = 0
             PROVE  Remember(f[n], p + n, l) = [state |-> f[j], pos |-> p + j]
  <2>1. n + 1 - 1 = n
    OBVIOUS
  <2> QED
    BY <2>1 DEF Passed
<1>1. CASE j = n
  BY <1>1 DEF Remember
<1>2. CASE j # n
  <2>1. A.accept[f[n]] = 0
    BY <1>2
  <2>2. j \in 0..(n - 1) /\ \A i \in (j + 1)..(n - 1) : A.accept[f[i]] = 0
    BY <1>2
  <2>3. l = [state |-> f[j], pos |-> p + j]
    BY <2>2 DEF Passed
  <2> QED
    BY <2>1, <2>3 DEF Remember
<1> QED
  BY <1>1, <1>2

(* A state that does not accept may be left without being remembered.       *)
LEMMA PassedOver ==
    ASSUME NEW accept, NEW f, NEW n \in Nat, NEW p, NEW l, Passed(accept, f, n, p, l),
           accept[f[n]] = 0
    PROVE  Passed(accept, f, n + 1, p, l)
<1> SUFFICES ASSUME NEW j \in 0..n, accept[f[j]] # 0, \A i \in (j + 1)..n : accept[f[i]] = 0
             PROVE  l = [state |-> f[j], pos |-> p + j]
  <2>1. n + 1 - 1 = n
    OBVIOUS
  <2> QED
    BY <2>1 DEF Passed
<1>1. j # n
  OBVIOUS
<1>2. j \in 0..(n - 1) /\ \A i \in (j + 1)..(n - 1) : accept[f[i]] = 0
  BY <1>1
<1> QED
  BY <1>2 DEF Passed

(* What is remembered.                                                      *)
Lasts == [state : {0} \cup States(A), pos : Nat]

(* yy_get_previous_state finds the last accepting state anew, whatever was  *)
(* remembered before.                                                      *)
LEMMA LastLeftIs ==
    ASSUME prog \in Programs, last \in Lasts, NEW n \in Nat, NEW f \in [0..n -> States(A)],
           NEW p \in Nat
    PROVE  LastLeft(f, n, p) \in Lasts /\ Passed(A.accept, f, n, p, LastLeft(f, n, p))
<1> DEFINE L == Lasts
           added == [x \in L \X (1..n) |-> Remember(f[x[2] - 1], p + x[2] - 1, x[1])]
           OfLasts(g) == g = [k \in 0..n |-> IF k = 0 THEN last
                                             ELSE Remember(f[k - 1], p + k - 1, g[k - 1])]
<1>1. ASSUME NEW l \in L, NEW k \in 1..n PROVE Remember(f[k - 1], p + k - 1, l) \in L
  <2>1. k - 1 \in 0..n /\ p + k - 1 \in Nat
    OBVIOUS
  <2>2. f[k - 1] \in States(A)
    BY <2>1
  <2> QED
    BY <1>1, <2>1, <2>2 DEF Remember, Lasts
<1>2. added \in [L \X (1..n) -> L]
  <2>1. ASSUME NEW x \in L \X (1..n) PROVE Remember(f[x[2] - 1], p + x[2] - 1, x[1]) \in L
    BY <1>1
  <2> QED
    BY <2>1
<1>3. \A l \in L, k \in 1..n : added[<<l, k>>] = Remember(f[k - 1], p + k - 1, l)
  OBVIOUS
<1>4. last \in L
  OBVIOUS
<1> HIDE DEF added, L
<1>5. PICK h \in [0..n -> L] : Recursive(h, last, added, n)
  BY <1>2, <1>4, RecursiveFunction
<1>6. ASSUME NEW k \in 0..n
      PROVE  h[k] = IF k = 0 THEN last ELSE Remember(f[k - 1], p + k - 1, h[k - 1])
  <2>1. h[k] = IF k = 0 THEN last ELSE added[<<h[k - 1], k>>]
    BY <1>5 DEF Recursive
  <2>2. k # 0 => k - 1 \in 0..n /\ k \in 1..n
    OBVIOUS
  <2>3. k # 0 => h[k - 1] \in L
    BY <1>5, <2>2
  <2> QED
    BY <1>3, <2>1, <2>2, <2>3
<1>7. OfLasts(h)
  BY <1>5, <1>6
<1> DEFINE g == CHOOSE e : OfLasts(e)
<1>8. OfLasts(g)
  BY <1>7
<1>9. LastLeft(f, n, p) = g[n]
  BY DEF LastLeft
<1> HIDE DEF g
<1>10. g[0] = last /\ h[0] = last
  <2>1. 0 \in 0..n
    OBVIOUS
  <2>2. g[0] = last
    BY <1>8, <2>1
  <2>3. h[0] = last
    BY <1>6, <2>1
  <2> QED
    BY <2>2, <2>3
<1>11. ASSUME NEW k \in 1..n PROVE g[k] = Remember(f[k - 1], p + k - 1, g[k - 1])
                                  /\ h[k] = Remember(f[k - 1], p + k - 1, h[k - 1])
  <2>1. k \in 0..n /\ k # 0
    OBVIOUS
  <2> QED
    BY <1>6, <1>8, <2>1
<1>12. \A k \in 0..n : g[k] = h[k]
  <2> DEFINE T == {k \in 0..n : g[k] = h[k]}
  <2>1. 0 \in T
    BY <1>10
  <2>2. ASSUME NEW k \in 0..n, k \in T, k < n PROVE k + 1 \in T
    <3>1. k + 1 \in 1..n /\ k + 1 \in 0..n /\ k + 1 - 1 = k
      BY <2>2
    <3> QED
      BY <1>11, <2>2, <3>1
  <2> HIDE DEF T
  <2>3. 0..n \subseteq T
    BY <2>1, <2>2, SetInduction
  <2> QED
    BY <2>3 DEF T
<1> DEFINE S == {k \in 0..n : Passed(A.accept, f, k, p, h[k])}
<1>13. 0 \in S
  BY DEF Passed
<1>14. ASSUME NEW k \in 0..n, k \in S, k < n PROVE k + 1 \in S
  <2>1. k + 1 \in 1..n /\ k + 1 - 1 = k /\ p + (k + 1) - 1 = p + k /\ k \in Nat
    BY <1>14
  <2>2. h[k + 1] = Remember(f[k], p + k, h[k])
    BY <1>11, <2>1
  <2> QED
    BY <1>14, <2>1, <2>2, PassedStep
<1> HIDE DEF S
<1>15. n \in S
  <2>1. 0..n \subseteq S
    BY <1>13, <1>14, SetInduction
  <2> QED
    BY <2>1
<1>16. n \in 0..n
  OBVIOUS
<1> QED
  BY <1>5, <1>9, <1>12, <1>15, <1>16 DEF S, L

(* The states on the beginning v of a text w are those on w.                *)
LEMMA CourseBegins ==
    ASSUME prog \in Programs, start \in Conditions(prog), NEW w \in Text,
           NEW v \in Text, Len(v) <= Len(w), \A k \in 1..Len(v) : v[k] = w[k]
    PROVE  \A k \in 0..Len(v) : Course(A, A.start[start], v)[k] = Course(A, A.start[start], w)[k]
<1> DEFINE q == A.start[start]
           f == Course(A, q, w)
           g == Course(A, q, v)
           n == Len(v)
<1>1. q \in States(A)
  BY TablesBegin
<1>2. CourseBy(A, q, w, f) /\ CourseBy(A, q, v, g) /\ n \in Nat
  BY <1>1, CourseIs DEF Text
<1> HIDE DEF f, g, q
<1> DEFINE T == {k \in 0..n : g[k] = f[k]}
<1>3. 0 \in T
  BY <1>2 DEF CourseBy
<1>4. ASSUME NEW k \in 0..n, k \in T, k < n PROVE k + 1 \in T
  <2>1. k + 1 \in 1..Len(v) /\ k + 1 \in 1..Len(w) /\ k + 1 \in 0..n /\ k + 1 - 1 = k
    BY <1>2, <1>4 DEF Text
  <2>2. /\ g[k + 1] = A.next[<<g[k], A.class[v[k + 1]]>>]
        /\ f[k + 1] = A.next[<<f[k], A.class[w[k + 1]]>>]
    BY <1>2, <2>1 DEF CourseBy
  <2> QED
    BY <1>4, <2>1, <2>2
<1> HIDE DEF T
<1>5. 0..n \subseteq T
  BY <1>2, <1>3, <1>4, SetInduction
<1>6. \A k \in 0..n : g[k] = f[k]
  BY <1>5 DEF T
<1> QED
  BY <1>6 DEF f, g, q

(* yy_get_previous_state on the first n characters of a text w: the state   *)
(* behind them, and the last one that accepts before it.                    *)
LEMMA PreviousIs ==
    ASSUME prog \in Programs, last \in Lasts, start \in Conditions(prog), NEW w \in Text,
           NEW v \in Text, Len(v) <= Len(w), \A k \in 1..Len(v) : v[k] = w[k], NEW p \in Nat
    PROVE  LET f == Course(A, A.start[start], w)
               r == Previous(v, p)
           IN  /\ r.state = f[Len(v)] /\ r.state \in States(A)
               /\ r.last \in Lasts /\ Passed(A.accept, f, Len(v), p, r.last)
<1> DEFINE q == A.start[start]
           f == Course(A, q, w)
           g == Course(A, q, v)
           n == Len(v)
<1>1. q \in States(A)
  BY TablesBegin
<1>2. CourseBy(A, q, w, f) /\ CourseBy(A, q, v, g)
  BY <1>1, CourseIs
<1>3. n \in Nat /\ Previous(v, p) = [state |-> g[n], last |-> LastLeft(g, n, p)]
  BY DEF Previous, Text
<1> HIDE DEF f, g, q
<1>4. \A k \in 0..n : g[k] = f[k]
  BY CourseBegins DEF f, g, q
<1>5. g \in [0..n -> States(A)]
  BY <1>2 DEF CourseBy
<1> HIDE DEF n
<1>6. LastLeft(g, n, p) \in Lasts /\ Passed(A.accept, g, n, p, LastLeft(g, n, p))
  BY <1>3, <1>5, LastLeftIs
<1>7. Passed(A.accept, f, n, p, LastLeft(g, n, p))
  <2>1. ASSUME NEW j \in 0..(n - 1) PROVE j \in 0..n /\ \A i \in (j + 1)..(n - 1) : i \in 0..n
    BY <1>3
  <2> QED
    BY <1>4, <1>6, <2>1 DEF Passed
<1>8. n \in 0..n
  BY <1>3
<1> QED
  BY <1>3, <1>4, <1>5, <1>6, <1>7, <1>8 DEF f, g, q, n

-----------------------------------------------------------------------------
(* What is left, w, of a text that is in part in a buffer, from place t on,  *)
(* and how a token that ends at place e cuts it.                           *)
IsRest(C, ch, in, t, w) ==
    /\ w \in Seq(C) /\ Len(w) = Len(ch) - t + Len(in)
    /\ \A k \in 1..(Len(ch) - t) : w[k] = ch[t + k]
    /\ \A e \in t..Len(ch) :
          /\ SubSeq(ch, t + 1, e) \in Seq(C) /\ Len(SubSeq(ch, t + 1, e)) = e - t
          /\ \A k \in 1..(e - t) : SubSeq(ch, t + 1, e)[k] = w[k]
          /\ SubSeq(ch, t + 1, e) = SubSeq(w, 1, e - t)
          /\ SubSeq(ch, e + 1, Len(ch)) \o in = SubSeq(w, e - t + 1, Len(w))

(* It is the text in the buffer and the input behind it.                    *)
LEMMA Remainder ==
    ASSUME NEW C, NEW ch \in Seq(C), NEW in \in Seq(C), NEW t \in 0..Len(ch)
    PROVE  IsRest(C, ch, in, t, SubSeq(ch, t + 1, Len(ch)) \o in)
<1> DEFINE M == Len(ch)
           w == SubSeq(ch, t + 1, M) \o in
<1>1. M \in Nat /\ Len(in) \in Nat /\ t \in 0..M
  OBVIOUS
<1>2. ASSUME NEW e \in t..M
      PROVE  /\ SubSeq(ch, t + 1, e) \in Seq(C) /\ Len(SubSeq(ch, t + 1, e)) = e - t
             /\ \A k \in 1..(e - t) : SubSeq(ch, t + 1, e)[k] = ch[t + k]
             /\ SubSeq(ch, e + 1, M) \in Seq(C) /\ Len(SubSeq(ch, e + 1, M)) = M - e
             /\ \A k \in 1..(M - e) : SubSeq(ch, e + 1, M)[k] = ch[e + k]
  OBVIOUS
<1>3. M \in t..M /\ t \in t..M
  BY <1>1
<1>4. SubSeq(ch, t + 1, M) \in Seq(C) /\ Len(SubSeq(ch, t + 1, M)) = M - t
      /\ \A k \in 1..(M - t) : SubSeq(ch, t + 1, M)[k] = ch[t + k]
  BY <1>2, <1>3
<1>5. w \in Seq(C) /\ Len(w) = M - t + Len(in)
      /\ \A k \in 1..(M - t + Len(in)) : w[k] = IF k <= M - t THEN ch[t + k] ELSE in[k - (M - t)]
  <2> DEFINE u == SubSeq(ch, t + 1, M)
  <2>1. u \in Seq(C) /\ Len(u) = M - t /\ \A k \in 1..(M - t) : u[k] = ch[t + k]
    BY <1>4
  <2> HIDE DEF u
  <2>2. /\ u \o in \in Seq(C) /\ Len(u \o in) = Len(u) + Len(in)
        /\ \A k \in 1..(Len(u) + Len(in)) :
              (u \o in)[k] = IF k <= Len(u) THEN u[k] ELSE in[k - Len(u)]
    BY <2>1, ConcatProperties
  <2>3. w = u \o in
    BY DEF u
  <2> HIDE DEF w
  <2> QED
    BY ONLY <2>1, <2>2, <2>3
<1> HIDE DEF w, M
<1>6. ASSUME NEW e \in t..M
      PROVE  /\ SubSeq(w, 1, e - t) \in Seq(C) /\ Len(SubSeq(w, 1, e - t)) = e - t
             /\ \A k \in 1..(e - t) : SubSeq(w, 1, e - t)[k] = w[k]
             /\ SubSeq(w, e - t + 1, Len(w)) \in Seq(C)
             /\ Len(SubSeq(w, e - t + 1, Len(w))) = M - e + Len(in)
             /\ \A k \in 1..(M - e + Len(in)) : SubSeq(w, e - t + 1, Len(w))[k] = w[e - t + k]
  <2> DEFINE d == e - t
  <2>1. d \in 0..Len(w) /\ Len(w) - d = M - e + Len(in)
    BY <1>1, <1>5
  <2> HIDE DEF d
  <2>2. /\ SubSeq(w, 1, d) \in Seq(C) /\ Len(SubSeq(w, 1, d)) = d
        /\ \A k \in 1..d : SubSeq(w, 1, d)[k] = w[k]
        /\ SubSeq(w, d + 1, Len(w)) \in Seq(C) /\ Len(SubSeq(w, d + 1, Len(w))) = Len(w) - d
        /\ \A k \in 1..(Len(w) - d) : SubSeq(w, d + 1, Len(w))[k] = w[d + k]
    BY <1>5, <2>1
  <2> QED
    BY ONLY <2>1, <2>2 DEF d
<1>7. ASSUME NEW e \in t..M
      PROVE  SubSeq(ch, t + 1, e) = SubSeq(w, 1, e - t)
             /\ \A k \in 1..(e - t) : SubSeq(ch, t + 1, e)[k] = w[k]
  <2> DEFINE u == SubSeq(ch, t + 1, e)
             v == SubSeq(w, 1, e - t)
  <2>1. u \in Seq(C) /\ Len(u) = e - t /\ \A k \in 1..(e - t) : u[k] = ch[t + k]
    BY <1>2
  <2>2. v \in Seq(C) /\ Len(v) = e - t /\ \A k \in 1..(e - t) : v[k] = w[k]
    BY <1>6
  <2>3. \A k \in 1..(e - t) : w[k] = ch[t + k]
    BY <1>1, <1>5
  <2> HIDE DEF u, v
  <2>4. u = v
    BY <2>1, <2>2, <2>3, SeqEqual
  <2> QED
    BY <2>2, <2>4 DEF u, v
<1>8. ASSUME NEW e \in t..M PROVE SubSeq(ch, e + 1, M) \o in = SubSeq(w, e - t + 1, Len(w))
  <2> DEFINE u == SubSeq(ch, e + 1, M)
             v == SubSeq(w, e - t + 1, Len(w))
  <2>1. u \in Seq(C) /\ Len(u) = M - e /\ \A k \in 1..(M - e) : u[k] = ch[e + k]
    BY <1>2
  <2>2. v \in Seq(C) /\ Len(v) = M - e + Len(in)
        /\ \A k \in 1..(M - e + Len(in)) : v[k] = w[e - t + k]
    BY <1>6
  <2> HIDE DEF u, v
  <2>3. /\ u \o in \in Seq(C) /\ Len(u \o in) = M - e + Len(in)
        /\ \A k \in 1..(M - e + Len(in)) :
              (u \o in)[k] = IF k <= M - e THEN u[k] ELSE in[k - (M - e)]
    <3>1. /\ u \o in \in Seq(C) /\ Len(u \o in) = Len(u) + Len(in)
          /\ \A k \in 1..(Len(u) + Len(in)) :
                (u \o in)[k] = IF k <= Len(u) THEN u[k] ELSE in[k - Len(u)]
      BY <2>1, ConcatProperties
    <3> QED
      BY ONLY <2>1, <3>1
  <2>4. ASSUME NEW k \in 1..(M - e + Len(in)) PROVE (u \o in)[k] = v[k]
    <3>1. e - t + k \in 1..(M - t + Len(in)) /\ (e - t + k) - (M - t) = k - (M - e)
          /\ (e - t + k <= M - t <=> k <= M - e) /\ t + (e - t + k) = e + k
          /\ (k <= M - e => k \in 1..(M - e))
      BY <1>1
    <3>2. v[k] = IF k <= M - e THEN ch[e + k] ELSE in[k - (M - e)]
      BY <1>5, <2>2, <3>1
    <3> QED
      BY <2>1, <2>3, <3>1, <3>2
  <2> QED
    BY <2>2, <2>3, <2>4, SeqEqual DEF u, v
<1>9. \A k \in 1..(M - t) : w[k] = ch[t + k]
  BY <1>1, <1>5
<1>10. /\ w \in Seq(C) /\ Len(w) = M - t + Len(in)
       /\ \A k \in 1..(M - t) : w[k] = ch[t + k]
       /\ \A e \in t..M :
             /\ SubSeq(ch, t + 1, e) \in Seq(C) /\ Len(SubSeq(ch, t + 1, e)) = e - t
             /\ \A k \in 1..(e - t) : SubSeq(ch, t + 1, e)[k] = w[k]
             /\ SubSeq(ch, t + 1, e) = SubSeq(w, 1, e - t)
             /\ SubSeq(ch, e + 1, M) \o in = SubSeq(w, e - t + 1, Len(w))
  BY <1>2, <1>5, <1>7, <1>8, <1>9
<1>11. IsRest(C, ch, in, t, w)
  BY <1>10 DEF M, IsRest
<1> QED
  BY <1>11 DEF w, M

(* g, the first m characters of the input, goes behind the text u that is   *)
(* left; rest is the input that remains.                                   *)
IsRefill(C, u, in, m, g, rest) ==
    /\ g \in Seq(C) /\ Len(g) = m /\ rest \in Seq(C)
    /\ u \o g \in Seq(C) /\ Len(u \o g) = Len(u) + m
    /\ SubSeq(u \o g, 1, Len(u \o g)) \o rest = u \o in

(* What is read goes behind the text that is left.                          *)
LEMMA Refilled ==
    ASSUME NEW C, NEW u \in Seq(C), NEW in \in Seq(C), NEW m \in 0..Len(in)
    PROVE  IsRefill(C, u, in, m, SubSeq(in, 1, m), SubSeq(in, m + 1, Len(in)))
<1> DEFINE g == SubSeq(in, 1, m)
           rest == SubSeq(in, m + 1, Len(in))
<1>1. g \in Seq(C) /\ Len(g) = m /\ rest \in Seq(C)
  OBVIOUS
<1>2. g \o rest = in
  <2>1. 1 \in 1..(Len(in) + 1) /\ m \in (1 - 1)..Len(in) /\ Len(in) \in m..Len(in)
    OBVIOUS
  <2>2. SubSeq(in, 1, m) \o SubSeq(in, m + 1, Len(in)) = SubSeq(in, 1, Len(in))
    BY <2>1, ConcatAdjacentSubSeq
  <2>3. SubSeq(in, 1, Len(in)) = in
    BY SubSeqFull
  <2> QED
    BY <2>2, <2>3
<1> HIDE DEF g, rest
<1>3. u \o g \in Seq(C) /\ Len(u \o g) = Len(u) + Len(g)
  BY <1>1, ConcatProperties
<1>4. SubSeq(u \o g, 1, Len(u \o g)) = u \o g
  BY <1>3, SubSeqFull
<1>5. (u \o g) \o rest = u \o (g \o rest)
  BY <1>1, ConcatAssociative
<1> QED
  BY <1>1, <1>2, <1>3, <1>4, <1>5 DEF g, rest, IsRefill

-----------------------------------------------------------------------------
(* The least of a set of places.                                            *)
LEMMA Least ==
    ASSUME NEW T \in SUBSET Nat, T # {}
    PROVE  Min(T) \in T /\ \A x \in T : Min(T) <= x
  BY LeastElement DEF Min

(* A line of a text is a beginning of it, and not empty if the text is not. *)
LEMMA LineIs ==
    ASSUME NEW w \in Text
    PROVE  \E m \in 0..Len(w) : Line(w) = SubSeq(w, 1, m) /\ (m = 0 => Len(w) = 0)
<1> DEFINE T == {i \in 1..Len(w) : w[i] = "\n"}
<1>1. Line(w) = LET nl == IF T # {} THEN Min(T) ELSE 0 IN
                IF interactive /\ nl # 0 THEN SubSeq(w, 1, nl) ELSE w
  BY DEF Line, SelectInSeq
<1>2. T \in SUBSET Nat /\ Len(w) \in Nat /\ \A i \in T : i \in 1..Len(w)
  BY DEF Text
<1> HIDE DEF T
<1>3. CASE T # {} /\ Line(w) = SubSeq(w, 1, Min(T))
  <2>1. Min(T) \in 1..Len(w)
    BY <1>2, <1>3, Least
  <2> QED
    BY <1>2, <1>3, <2>1
<1>4. CASE Line(w) = w
  <2>1. SubSeq(w, 1, Len(w)) = w
    BY SubSeqFull DEF Text
  <2>2. Line(w) = SubSeq(w, 1, Len(w)) /\ Len(w) \in 0..Len(w)
    BY <1>2, <1>4, <2>1
  <2> QED
    BY ONLY <2>2, Zenon
<1> QED
  BY <1>1, <1>3, <1>4

(* YY_INPUT takes a beginning of the input that there is room for: nothing  *)
(* only at its end, or when the end was met before.                         *)
LEMMA GotIs ==
    ASSUME input \in Text, Room \in Int, buffer.status # "pending" => Room > 0
    PROVE  \E m \in 0..Len(input) :
              /\ Got = SubSeq(input, 1, m)
              /\ buffer.status = "pending" => m = 0
              /\ buffer.status # "pending" => m <= Room /\ (m = 0 => Len(input) = 0)
<1>1. Len(input) \in Nat /\ input \in Seq(Characters)
  BY DEF Text
<1>2. CASE buffer.status = "pending"
  <2>1. Got = <<>> /\ SubSeq(input, 1, 0) = <<>>
    BY <1>1, <1>2 DEF Got
  <2>2. 0 \in 0..Len(input)
    BY <1>1
  <2> QED
    BY <1>2, <2>1, <2>2
<1>3. CASE buffer.status # "pending"
  <2> DEFINE T == {Room, ReadSize, Len(input)}
             n == Min(T)
             w == SubSeq(input, 1, n)
  <2>1. T \in SUBSET Nat /\ T # {} /\ ReadSize > 0 /\ Room > 0
    BY <1>1, <1>3, SizesAssumption
  <2>2. n \in T /\ n <= Room /\ n <= Len(input)
    BY <2>1, Least
  <2>3. n \in 0..Len(input) /\ n <= Room /\ (n = 0 => Len(input) = 0)
    BY <1>1, <2>1, <2>2
  <2>4. Got = Line(w)
    BY <1>3 DEF Got
  <2> HIDE DEF n
  <2>5. w \in Text /\ Len(w) = n /\ \A m \in 0..n : SubSeq(w, 1, m) = SubSeq(input, 1, m)
    <3>1. w \in Text /\ Len(w) = n
      BY <1>1, <2>3 DEF Text
    <3>2. ASSUME NEW m \in 0..n PROVE SubSeq(w, 1, m) = SubSeq(input, 1, m)
      BY <1>1, <2>3
    <3> QED
      BY <3>1, <3>2
  <2> HIDE DEF w
  <2>6. PICK m \in 0..Len(w) : Line(w) = SubSeq(w, 1, m) /\ (m = 0 => Len(w) = 0)
    BY <2>5, LineIs
  <2> QED
    BY <1>1, <1>3, <2>3, <2>4, <2>5, <2>6
<1> QED
  BY <1>2, <1>3

(* The marks that a rule writes for a link.                                 *)
Marks == Characters \cup {"HOST", "LASTPATH"}

(* What a rule does keeps the types.                                        *)
LEMMA RuleTypes ==
    ASSUME NEW p \in Programs, NEW r, NEW w \in Text, w # <<>>, NEW cond \in Conditions(p)
    PROVE  /\ Put(p, r, w) \in Seq(Marks)
           /\ Fetch(p, r, w) \in Seq([name : Text, remote : BOOLEAN])
           /\ NextCondition(p, r, cond) \in Conditions(p)
<1>1. w \in Seq(Marks) /\ Base(w) \in Seq(Marks) /\ http \in Seq(Marks)
  <2>1. w \in Seq(Marks)
    BY DEF Text, Marks
  <2>2. Base(w) \in Seq(Marks)
    BY DEF Base, Marks
  <2>3. http \in Seq(Marks)
    BY DEF http, Marks, Characters, Letters, Signs
  <2> QED
    BY <2>1, <2>2, <2>3
<1>2. Printed(w) \in Seq(Marks)
  <2> DEFINE T == {i \in 1..Len(w) : w[i] = "NUL"}
  <2>1. CString(w) = IF T # {} THEN Min(T) ELSE 0
    BY DEF CString, SelectInSubSeq
  <2>2. T \in SUBSET Nat /\ Len(w) \in Nat /\ \A i \in T : i \in 1..Len(w)
    BY DEF Text
  <2> HIDE DEF T
  <2>3. T # {} => Min(T) \in 1..Len(w)
    BY <2>2, Least
  <2>4. \A m \in 1..Len(w) : SubSeq(w, 1, m - 1) \in Seq(Marks)
    BY <1>1, <2>2
  <2> QED
    BY <1>1, <2>1, <2>3, <2>4 DEF Printed
<1>3. Put(p, r, w) \in Seq(Marks)
  <2>1. Base(w) \o w \in Seq(Marks) /\ http \o Base(w) \o w \in Seq(Marks) /\ <<>> \in Seq(Marks)
    BY <1>1, ConcatProperties
  <2> HIDE DEF Marks
  <2>2. ImgPut(r, w) \in Seq(Marks)
    BY <1>1, <2>1 DEF ImgPut
  <2>3. CorrectPut(r, w) \in Seq(Marks)
    BY <1>1, <1>2, <2>1 DEF CorrectPut
  <2> QED
    BY <2>2, <2>3 DEF Put
<1>4. Fetch(p, r, w) \in Seq([name : Text, remote : BOOLEAN])
  <2>1. [name |-> w, remote |-> r = 6] \in [name : Text, remote : BOOLEAN]
    OBVIOUS
  <2>2. ASSUME NEW S, NEW x \in S PROVE <<x>> \in Seq(S) /\ <<>> \in Seq(S)
    OBVIOUS
  <2>3. << [name |-> w, remote |-> r = 6] >> \in Seq([name : Text, remote : BOOLEAN])
        /\ <<>> \in Seq([name : Text, remote : BOOLEAN])
    BY <2>1, <2>2
  <2> QED
    BY <2>3, Zenon DEF Fetch
<1>5. NextCondition(p, r, cond) \in Conditions(p)
  BY DEF NextCondition, Conditions, ToSet
<1> QED
  BY <1>3, <1>4, <1>5

-----------------------------------------------------------------------------
(* The states of the automaton on what is left of the document.             *)
Path == Course(A, A.start[start], Rest)

(* Place e is the end of the buffer or a zero in it.                        *)
EndAt(e) == e \in text..N /\ (e = N \/ buffer.ch[e + 1] = "NUL")

(* yylex is where the automaton is behind the characters up to yy_cp.       *)
OnPath == cp \in text..N /\ state = Path[cp - text]

(* While it matches, either that, with the last accepting state in mind, or *)
(* it took the end of the buffer or a zero for the last character.          *)
Matching ==
    pc = "match" =>
        \/ OnPath /\ Passed(A.accept, Path, cp - text, text, last)
        \/ EndAt(cp - 1) /\ A.accept[state] = A.endOfBuffer

(* When it looks for the rule, no longer text is accepted, or it is behind  *)
(* the end of the buffer or a zero.                                         *)
Finding ==
    pc = "find" =>
        \/ /\ OnPath /\ text < cp
           /\ A.accept[state] = 0 => Passed(A.accept, Path, cp - text, text, last)
           /\ \A k \in (cp - text + 1)..Len(Rest) : A.accept[Path[k]] = 0
        \/ EndAt(last.pos - 1) /\ state = A.jam /\ A.accept[last.state] = A.endOfBuffer

(* The buffer: it is not waited for more at the end of the input.           *)
Reading ==
    /\ N <= buffer.size /\ text <= N
    /\ buffer.status = "pending" \/ ~buffer.fill => input = <<>>
    /\ pc = "idle" => Rest = <<>>
    /\ pc # "idle" => files # <<>>

ScanInv == TypeOK /\ Reading /\ Matching /\ Finding

(* The types that the following needs most.                                 *)
LEMMA Basics ==
    ASSUME TypeOK, text <= N
    PROVE  /\ prog \in Programs /\ start \in Conditions(prog) /\ last \in Lasts
           /\ buffer.ch \in Seq(Characters) /\ input \in Seq(Characters)
           /\ N \in Nat /\ text \in 0..N /\ buffer.size \in Nat /\ cp \in Nat
           /\ last.pos \in Nat /\ state \in States(A) /\ Len(input) \in Nat
           /\ Rest \in Text /\ Rest \in Seq(Characters) /\ Len(Rest) = N - text + Len(input)
           /\ \A k \in 1..(N - text) : Rest[k] = buffer.ch[text + k]
<1>1. /\ prog \in Programs /\ start \in Conditions(prog) /\ last \in Lasts
      /\ buffer.ch \in Seq(Characters) /\ input \in Seq(Characters)
      /\ buffer.size \in Nat /\ text \in Nat /\ cp \in Nat /\ last.pos \in Nat
      /\ state \in States(A)
  BY DEF TypeOK, Text, Lasts
<1>2. N \in Nat /\ text \in 0..N /\ Len(input) \in Nat
  BY <1>1 DEF N
<1> DEFINE ch == buffer.ch
<1>3. ch \in Seq(Characters) /\ input \in Seq(Characters) /\ text \in 0..Len(ch)
      /\ Rest = SubSeq(ch, text + 1, Len(ch)) \o input
  BY <1>1, <1>2 DEF N, Rest
<1>4. N = Len(ch)
  BY DEF N
<1> HIDE DEF ch
<1>5. /\ Rest \in Seq(Characters) /\ Len(Rest) = N - text + Len(input)
      /\ \A k \in 1..(N - text) : Rest[k] = ch[text + k]
  <2>1. IsRest(Characters, ch, input, text, Rest)
    BY ONLY <1>3, Remainder
  <2> QED
    BY ONLY <1>4, <2>1 DEF IsRest
<1> QED
  BY <1>1, <1>2, <1>5 DEF Text, ch

(* The path follows what is left; it never meets the end of the buffer; the *)
(* first character is accepted, and behind a final state nothing is.        *)
LEMMA PathIs ==
    ASSUME TypeOK, text <= N
    PROVE  /\ \A k \in 0..Len(Rest) : Path[k] \in States(A) /\ A.accept[Path[k]] # A.endOfBuffer
           /\ Path[0] = A.start[start] /\ A.accept[Path[0]] = 0
           /\ \A k \in 1..Len(Rest) : Path[k] = A.next[<<Path[k - 1], A.class[Rest[k]]>>]
           /\ Len(Rest) > 0 => A.accept[Path[1]] # 0
           /\ \A m \in 0..Len(Rest) : Path[m] \in A.final =>
                 \A k \in (m + 1)..Len(Rest) : A.accept[Path[k]] = 0
<1> DEFINE q == A.start[start]
           n == Len(Rest)
<1>1. /\ prog \in Programs /\ q \in States(A) /\ A.accept[q] = 0 /\ Rest \in Text /\ n \in Nat
      /\ \A k \in 1..n : Rest[k] \in Characters
      /\ \A c \in Characters : A.accept[A.next[<<q, A.class[c]>>]] # 0
  BY Basics, TablesBegin DEF Text
<1>2. CourseBy(A, q, Rest, Path)
  BY <1>1, CourseIs DEF Path
<1>3. /\ Path[0] = q /\ \A k \in 0..n : Path[k] \in States(A)
      /\ \A k \in 1..n : Path[k] = A.next[<<Path[k - 1], A.class[Rest[k]]>>]
  BY <1>2 DEF CourseBy
<1> HIDE DEF q, n
<1>4. ASSUME NEW k \in 0..n PROVE A.accept[Path[k]] # A.endOfBuffer
  <2>1. CASE k = 0
    BY <1>1, <1>3, <2>1, Tables
  <2>2. CASE k # 0
    <3>1. k \in 1..n /\ k - 1 \in 0..n
      BY <1>1, <2>2
    <3>2. Path[k - 1] \in States(A) /\ Rest[k] \in Characters
      BY <1>1, <1>3, <3>1
    <3> QED
      BY <1>1, <1>3, <3>1, <3>2, Tables
  <2> QED
    BY <2>1, <2>2
<1>5. n > 0 => A.accept[Path[1]] # 0
  <2>1. n > 0 => 1 \in 1..n /\ 1 - 1 = 0
    BY <1>1
  <2>2. n > 0 => Path[1] = A.next[<<q, A.class[Rest[1]]>>] /\ Rest[1] \in Characters
    BY <1>1, <1>3, <2>1
  <2> QED
    BY <1>1, <2>2
<1>6. ASSUME NEW m \in 0..n, Path[m] \in A.final, NEW k \in (m + 1)..n PROVE A.accept[Path[k]] = 0
  <2> DEFINE S == {i \in m..n : Path[i] \in A.final /\ (i > m => Path[i] = A.jam)}
  <2>1. m \in S
    BY <1>1, <1>6
  <2>2. ASSUME NEW i \in m..n, i \in S, i < n PROVE i + 1 \in S
    <3>1. i + 1 \in 1..n /\ i + 1 - 1 = i /\ i + 1 \in m..n
      BY <1>1, <2>2
    <3>2. Path[i] \in A.final /\ Rest[i + 1] \in Characters
          /\ Path[i + 1] = A.next[<<Path[i], A.class[Rest[i + 1]]>>]
      BY <1>1, <1>3, <2>2, <3>1
    <3>3. Path[i + 1] = A.jam
      BY <1>1, <3>2, TablesEnd
    <3>4. A.jam \in A.final
      BY <1>1, Tables
    <3> QED
      BY <3>1, <3>3, <3>4
  <2> HIDE DEF S
  <2>3. m \in Nat /\ m..n \subseteq S
    BY <1>1, <2>1, <2>2, SetInduction
  <2>4. k \in m..n /\ k > m
    BY <1>1, <2>3
  <2>5. Path[k] = A.jam
    BY <2>3, <2>4 DEF S
  <2> QED
    BY <1>1, <2>5, Tables
<1> QED
  BY <1>1, <1>3, <1>4, <1>5, <1>6 DEF q, n

(* The first j characters are the longest text accepted, and were found.    *)
Longest(j) ==
    /\ j \in 1..(N - text) /\ Found.end = text + j
    /\ Found.rule = A.accept[Path[j]] /\ Found.rule # 0
    /\ BackedUpTo = Path[j] /\ text + j <= cp /\ cp <= N
    /\ \A k \in (j + 1)..Len(Rest) : A.accept[Path[k]] = 0

(* What yy_find_action finds: the longest text that is accepted and its     *)
(* rule, or the end of the buffer or a zero.                                *)
LEMMA FoundIs ==
    ASSUME ScanInv, pc = "find"
    PROVE  \/ ~EndOfBuffer /\ \E j \in 1..(N - text) : Longest(j)
           \/ EndOfBuffer /\ Found.end = last.pos /\ EndAt(last.pos - 1)
<1>1. TypeOK /\ text <= N /\ Finding
  BY DEF ScanInv, Reading
<1>2. /\ prog \in Programs /\ N \in Nat /\ text \in 0..N /\ cp \in Nat /\ last \in Lasts
      /\ Len(Rest) \in Nat /\ N - text <= Len(Rest)
  BY <1>1, Basics DEF Text
<1>3. CASE /\ OnPath /\ text < cp
           /\ A.accept[state] = 0 => Passed(A.accept, Path, cp - text, text, last)
           /\ \A k \in (cp - text + 1)..Len(Rest) : A.accept[Path[k]] = 0
  <2> DEFINE n == cp - text
  <2>1. n \in 1..(N - text) /\ text + n = cp /\ state = Path[n]
    BY <1>2, <1>3 DEF OnPath
  <2>2. \A k \in 1..Len(Rest) : A.accept[Path[k]] # A.endOfBuffer
    BY <1>1, PathIs
  <2>3. CASE A.accept[state] # 0
    <3>1. Found = [rule |-> A.accept[state], end |-> cp]
      BY <2>3 DEF Found
    <3>2. Longest(n)
      BY <1>2, <1>3, <2>1, <2>3, <3>1 DEF Longest, BackedUpTo
    <3>3. ~EndOfBuffer
      BY <1>2, <2>1, <2>2, <3>1 DEF EndOfBuffer
    <3> QED
      BY <2>1, <3>2, <3>3
  <2>4. CASE A.accept[state] = 0
    <3> DEFINE T == {i \in 0..n : n - i \in 1..n /\ A.accept[Path[n - i]] # 0}
    <3>1. n - 1 \in T
      <4>1. A.accept[Path[1]] # 0
        BY <1>1, <1>2, <2>1, PathIs
      <4>2. n - 1 \in 0..n /\ n - (n - 1) = 1 /\ 1 \in 1..n
        BY <1>2, <2>1
      <4> QED
        BY <4>1, <4>2
    <3>2. PICK i \in T : \A k \in T : i <= k
      <4>1. T \in SUBSET Nat /\ T # {}
        BY <3>1
      <4> HIDE DEF T
      <4> QED
        BY <4>1, LeastElement
    <3> DEFINE j == n - i
    <3>3. j \in 1..n /\ A.accept[Path[j]] # 0 /\ j # n
      BY <2>1, <2>4, <3>2
    <3>4. ASSUME NEW k \in (j + 1)..n PROVE A.accept[Path[k]] = 0
      <4>1. n - k \in 0..n /\ n - (n - k) = k /\ k \in 1..n /\ ~ (i <= n - k)
        BY <1>2, <2>1, <3>2, <3>3
      <4> QED
        BY <3>2, <4>1
    <3> HIDE DEF j, T
    <3>5. last = [state |-> Path[j], pos |-> text + j]
      <4>1. j \in 0..(n - 1) /\ \A k \in (j + 1)..(n - 1) : k \in (j + 1)..n
        BY <1>2, <2>1, <3>3
      <4> QED
        BY <1>3, <2>4, <3>3, <3>4, <4>1 DEF Passed
    <3>6. Found = [rule |-> A.accept[Path[j]], end |-> text + j]
      BY <2>4, <3>5 DEF Found
    <3>7. ASSUME NEW k \in (j + 1)..Len(Rest) PROVE A.accept[Path[k]] = 0
      <4>1. k \in (j + 1)..n \/ k \in (n + 1)..Len(Rest)
        BY <1>2, <2>1, <3>3
      <4> QED
        BY <1>3, <3>4, <4>1
    <3>8. j \in 1..(N - text) /\ j \in 1..Len(Rest)
      BY <1>2, <2>1, <3>3
    <3>9. Longest(j)
      <4>1. BackedUpTo = Path[j] /\ text + j <= cp /\ cp <= N
        BY <1>2, <2>1, <2>4, <3>3, <3>5 DEF BackedUpTo
      <4> QED
        BY <3>3, <3>6, <3>7, <3>8, <4>1 DEF Longest
    <3>10. ~EndOfBuffer
      BY <2>2, <3>6, <3>8 DEF EndOfBuffer
    <3> QED
      BY <3>8, <3>9, <3>10
  <2> QED
    BY <2>3, <2>4
<1>4. CASE EndAt(last.pos - 1) /\ state = A.jam /\ A.accept[last.state] = A.endOfBuffer
  <2>1. Found = [rule |-> A.endOfBuffer, end |-> last.pos]
    BY <1>2, <1>4, Tables DEF Found
  <2> QED
    BY <1>4, <2>1 DEF EndOfBuffer
<1> QED
  BY <1>1, <1>3, <1>4 DEF Finding
(* A step that leaves the document as it is leaves the path as it is.       *)
LEMMA KeptPath ==
    ASSUME Rest' = Rest, prog' = prog, start' = start
    PROVE  A' = A /\ Path' = Path
  BY DEF Path, A

(* Nor does it change what is left if the buffer stays and its place.       *)
LEMMA KeptRest ==
    ASSUME buffer'.ch = buffer.ch, input' = input, text' = text
    PROVE  Rest' = Rest /\ N' = N
  BY DEF Rest, N

(* The initial states.                                                      *)
LEMMA ScanInit == Init => ScanInv
<1> SUFFICES ASSUME Init PROVE ScanInv
  OBVIOUS
<1>1. prog \in Programs /\ interactive \in BOOLEAN /\ docs \in Seq(Text)
  BY InputsAssumption DEF Init
<1>2. 1 \in States(A)
  BY <1>1, AutomataAssumption DEF IsAutomaton, States, A
<1>3. Rest = <<>> /\ N = 0
  BY DEF Init, NoBuffer, Rest, N
<1>4. TypeOK
  <2>1. buffer \in [ch : Text, size : Nat, fill : BOOLEAN, status : {"new", "normal", "pending"}]
    BY DEF Init, NoBuffer, Text
  <2>2. input \in Text /\ start \in Conditions(prog)
        /\ last \in [state : {0} \cup States(A), pos : Nat]
    BY DEF Init, Text, Conditions
  <2>3. files \in Seq(Seq(Characters \cup {"HOST", "LASTPATH"}))
        /\ fetched \in Seq([name : Text, remote : BOOLEAN])
    BY DEF Init
  <2>4. text \in Nat /\ cp \in Nat /\ pc \in {"idle", "match", "find"} /\ state \in States(A)
    BY <1>2 DEF Init
  <2> QED
    BY <1>1, <2>1, <2>2, <2>3, <2>4 DEF TypeOK
<1> QED
  BY <1>3, <1>4 DEF ScanInv, Reading, Matching, Finding, Init, NoBuffer

(* A new document is begun when nothing is left of the one before.          *)
LEMMA YylexKeeps ==
    ASSUME ScanInv, NEW b, Yylex(b), NEW size \in Nat,
           b \in [ch : Text, size : {size}, fill : BOOLEAN, status : {"new"}],
           Len(b.ch) <= size, input' \in Text, ~b.fill => input' = <<>>
    PROVE  ScanInv'
<1>1. TypeOK /\ docs # <<>> /\ pc' = "match" /\ text' = 0 /\ cp' = 0 /\ buffer' = b
      /\ state' = A.start[start] /\ start' = start /\ prog' = prog /\ last' = last
      /\ docs' = Tail(docs) /\ files' = Append(files, <<>>)
      /\ UNCHANGED <<interactive, fetched>>
  BY DEF ScanInv, Yylex, SwitchToBuffer
<1>2. prog \in Programs /\ start \in Conditions(prog) /\ docs \in Seq(Text)
      /\ files \in Seq(Seq(Characters \cup {"HOST", "LASTPATH"}))
  BY <1>1 DEF TypeOK
<1>3. A' = A
  BY <1>1 DEF A
<1>4. state' \in States(A)
  BY <1>1, <1>2, TablesBegin
<1>5. docs' \in Seq(Text)
  BY <1>1, <1>2
<1>6. files' \in Seq(Seq(Characters \cup {"HOST", "LASTPATH"})) /\ files' # <<>>
  <2>1. <<>> \in Seq(Characters \cup {"HOST", "LASTPATH"})
    OBVIOUS
  <2>2. ASSUME NEW S, NEW f \in Seq(S), NEW x \in S
        PROVE  Append(f, x) \in Seq(S) /\ Append(f, x) # <<>>
    OBVIOUS
  <2> QED
    BY <1>1, <1>2, <2>1, <2>2
<1>7. buffer' \in [ch : Text, size : Nat, fill : BOOLEAN, status : {"new", "normal", "pending"}]
      /\ buffer'.status = "new" /\ buffer'.ch \in Text /\ buffer'.size = size
  BY <1>1
<1>8. N' = Len(b.ch) /\ N' \in Nat
  BY <1>1 DEF N, Text
<1>9. TypeOK'
  BY <1>1, <1>2, <1>3, <1>4, <1>5, <1>6, <1>7 DEF TypeOK
<1>10. Reading'
  BY <1>1, <1>6, <1>7, <1>8 DEF Reading
<1>11. Rest' \in Text
  <2>1. Rest' = SubSeq(b.ch, 1, Len(b.ch)) \o input'
    BY <1>1 DEF Rest, N
  <2>2. b.ch \in Seq(Characters) /\ input' \in Seq(Characters) /\ SubSeq(b.ch, 1, Len(b.ch)) = b.ch
    BY SubSeqFull DEF Text
  <2> QED
    BY <2>1, <2>2, ConcatProperties DEF Text
<1>12. Path'[0] = A.start[start]
  <2>1. Path' = Course(A, A.start[start], Rest')
    BY <1>1, <1>3 DEF Path
  <2>2. A.start[start] \in States(A)
    BY <1>2, TablesBegin
  <2>3. CourseBy(A, A.start[start], Rest', Course(A, A.start[start], Rest'))
    BY <1>2, <1>11, <2>2, CourseIs
  <2> QED
    BY <2>1, <2>3 DEF CourseBy
<1>13. OnPath' /\ cp' - text' = 0
  BY <1>1, <1>8, <1>12 DEF OnPath
<1>14. Matching'
  BY <1>1, <1>13 DEF Matching, Passed
<1>15. Finding'
  BY <1>1 DEF Finding
<1> QED
  BY <1>9, <1>10, <1>14, <1>15 DEF ScanInv

(* The client's document, whole in its buffer.                              *)
LEMMA ScanBytesKeeps == ASSUME ScanInv, ScanBytes PROVE ScanInv'
<1> DEFINE b == [ch |-> Head(docs), size |-> Len(Head(docs)), fill |-> FALSE, status |-> "new"]
<1>1. TypeOK /\ Reading /\ Yylex(b) /\ input' = input /\ pc = "idle" /\ docs # <<>>
  BY DEF ScanInv, ScanBytes, Yylex
<1>2. docs \in Seq(Text) /\ input \in Text
  BY <1>1 DEF TypeOK
<1>3. Head(docs) \in Text
  BY <1>1, <1>2
<1>4. Len(Head(docs)) \in Nat
  BY <1>3 DEF Text
<1>5. input = <<>>
  <2>1. text <= N /\ Rest = <<>>
    BY <1>1 DEF Reading
  <2>2. Len(Rest) = N - text + Len(input) /\ N \in Nat /\ text \in 0..N /\ Len(input) \in Nat
        /\ input \in Seq(Characters)
    BY <1>1, <2>1, Basics
  <2>3. Len(input) = 0
    BY <2>1, <2>2
  <2> QED
    BY <2>2, <2>3
<1>6. b \in [ch : Text, size : {Len(Head(docs))}, fill : BOOLEAN, status : {"new"}]
      /\ Len(b.ch) <= Len(Head(docs))
  BY <1>3, <1>4
<1> HIDE DEF b
<1> QED
  BY <1>1, <1>2, <1>4, <1>5, <1>6, YylexKeeps

(* The corrector's empty buffer, its input still to be read.                *)
LEMMA ScanInputKeeps == ASSUME ScanInv, ScanInput PROVE ScanInv'
<1> DEFINE b == Flushed([NoBuffer EXCEPT !.size = BufSize])
<1>1. TypeOK /\ Yylex(b) /\ input' = Head(docs) /\ docs # <<>>
  BY DEF ScanInv, ScanInput, Yylex
<1>2. docs \in Seq(Text)
  BY <1>1 DEF TypeOK
<1>3. Head(docs) \in Text
  BY <1>1, <1>2
<1> DEFINE empty == [NoBuffer EXCEPT !.size = BufSize]
<1>4. /\ BufSize \in Nat /\ <<>> \in Text
      /\ NoBuffer \in [ch : Text, size : Nat, fill : BOOLEAN, status : {"new"}]
  BY SizesAssumption DEF NoBuffer, Text
<1>5. empty \in [ch : Text, size : {BufSize}, fill : BOOLEAN, status : {"new"}]
  BY <1>4
<1> HIDE DEF empty
<1>6. b \in [ch : Text, size : {BufSize}, fill : BOOLEAN, status : {"new"}]
  BY <1>4, <1>5 DEF Flushed
<1>7. b.ch = <<>> /\ b.fill
  BY <1>5 DEF Flushed
<1>8. Len(b.ch) <= BufSize
  BY <1>4, <1>7
<1> HIDE DEF b
<1> QED
  BY <1>1, <1>3, <1>4, <1>6, <1>7, <1>8, YylexKeeps

-----------------------------------------------------------------------------
(* What MatchCharacter sees at place yy_cp.                                 *)
LEMMA ClassIs ==
    ASSUME TypeOK, text <= N, cp \in text..N
    PROVE  \/ EndAt(cp) /\ ClassAt(cp) = 0
           \/ /\ cp < N /\ cp - text + 1 \in 1..Len(Rest)
              /\ ClassAt(cp) = A.class[Rest[cp - text + 1]]
<1>1. /\ N \in Nat /\ text \in 0..N /\ Len(Rest) = N - text + Len(input) /\ Len(input) \in Nat
      /\ \A k \in 1..(N - text) : Rest[k] = buffer.ch[text + k]
  BY Basics
<1>2. CASE cp = N \/ buffer.ch[cp + 1] = "NUL"
  BY <1>1, <1>2 DEF EndAt, ClassAt
<1>3. CASE cp # N /\ buffer.ch[cp + 1] # "NUL"
  <2>1. cp < N /\ cp - text + 1 \in 1..(N - text) /\ text + (cp - text + 1) = cp + 1
        /\ cp - text + 1 \in 1..Len(Rest)
    BY <1>1, <1>3
  <2>2. Rest[cp - text + 1] = buffer.ch[cp + 1]
    BY <1>1, <2>1
  <2> QED
    BY <1>3, <2>1, <2>2 DEF ClassAt
<1> QED
  BY <1>2, <1>3

(* A character more: on the path, or the end of the buffer or a zero.       *)
LEMMA MatchCharacterKeeps == ASSUME ScanInv, MatchCharacter PROVE ScanInv' /\ Rest' = Rest
<1>1. /\ TypeOK /\ Reading /\ Matching /\ text <= N /\ pc = "match"
      /\ last' = Remember(state, cp, last) /\ state' = A.next[<<state, ClassAt(cp)>>]
      /\ cp' = cp + 1 /\ pc' = IF state' \in A.final THEN "find" ELSE "match"
      /\ UNCHANGED <<prog, interactive, docs, start, files, fetched, input, buffer, text>>
  BY DEF ScanInv, Reading, MatchCharacter, world, results
<1>2. /\ prog \in Programs /\ N \in Nat /\ text \in 0..N /\ cp \in Nat /\ last \in Lasts
      /\ state \in States(A) /\ Rest \in Seq(Characters) /\ Len(Rest) \in Nat
      /\ buffer.ch \in Seq(Characters)
  BY <1>1, Basics
<1>3. Rest' = Rest /\ N' = N
  BY <1>1, KeptRest
<1>4. A' = A /\ Path' = Path
  BY <1>1, <1>3, KeptPath
<1>5. ClassAt(cp) = 0 \/ \E c \in Characters : ClassAt(cp) = A.class[c]
  <2>1. cp < N => cp + 1 \in 1..Len(buffer.ch)
    BY <1>2 DEF N
  <2>2. cp < N => buffer.ch[cp + 1] \in Characters
    BY <1>2, <2>1
  <2> QED
    BY <2>2 DEF ClassAt
<1>6. state' \in States(A) /\ cp' \in Nat /\ last' \in Lasts
  <2>1. state' \in States(A)
    BY <1>1, <1>2, <1>5, Tables
  <2>2. last' \in Lasts
    BY <1>1, <1>2 DEF Remember, Lasts
  <2> QED
    BY <1>1, <1>2, <2>1, <2>2
<1>7. TypeOK'
  <2>1. pc' \in {"idle", "match", "find"}
    BY <1>1
  <2> QED
    BY <1>1, <1>4, <1>6, <2>1 DEF TypeOK, Lasts
<1>8. Reading'
  BY <1>1, <1>3 DEF Reading
<1>9. Matching' /\ Finding'
  <2>1. CASE OnPath /\ Passed(A.accept, Path, cp - text, text, last)
    <3> DEFINE k == cp - text
    <3>1. cp \in text..N /\ state = Path[k] /\ k \in 0..Len(Rest) /\ k \in Nat /\ text + k = cp
      BY <1>1, <1>2, <2>1, Basics DEF OnPath
    <3>2. Passed(A.accept, Path, k, text, last)
      BY <2>1
    <3>3. CASE EndAt(cp) /\ ClassAt(cp) = 0
      <4>1. A.accept[state] # A.endOfBuffer
        BY <1>1, <3>1, PathIs
      <4>2. state' \notin A.final /\ A.accept[state'] = A.endOfBuffer
        BY <1>1, <1>2, <3>3, <4>1, TablesEnd
      <4>3. EndAt(cp - 1)'
        <5>1. cp' - 1 = cp
          BY <1>1, <1>2
        <5> QED
          BY <1>1, <1>3, <3>3, <5>1 DEF EndAt
      <4>4. pc' = "match"
        BY <1>1, <4>2
      <4> QED
        BY <1>4, <4>2, <4>3, <4>4 DEF Matching, Finding
    <3>4. CASE cp < N /\ k + 1 \in 1..Len(Rest) /\ ClassAt(cp) = A.class[Rest[k + 1]]
      <4>1. state' = Path[k + 1]
        <5>1. k + 1 - 1 = k
          BY <3>1
        <5>2. Path[k + 1] = A.next[<<Path[k + 1 - 1], A.class[Rest[k + 1]]>>]
          <6>1. \A i \in 1..Len(Rest) : Path[i] = A.next[<<Path[i - 1], A.class[Rest[i]]>>]
            BY <1>1, PathIs
          <6>2. k + 1 \in 1..Len(Rest) /\ k \in Nat
            BY <3>1, <3>4
          <6> HIDE DEF k
          <6> QED
            BY ONLY <6>1, <6>2
        <5> QED
          BY <1>1, <3>1, <3>4, <5>1, <5>2
      <4>2. cp' - text' = k + 1 /\ cp' \in text'..N' /\ text' < cp'
        BY <1>1, <1>2, <1>3, <3>1, <3>4
      <4>3. OnPath'
        BY <1>4, <4>1, <4>2 DEF OnPath
      <4>4. Passed(A.accept, Path, k + 1, text, last')
        <5>1. last' = Remember(Path[k], text + k, last)
          BY <1>1, <3>1
        <5> QED
          BY <3>1, <3>2, <5>1, PassedStep
      <4>5. Passed(A.accept, Path, cp - text, text, last)'
        BY <1>1, <1>4, <4>2, <4>4
      <4>6. state' \in A.final => \A i \in (k + 1 + 1)..Len(Rest) : A.accept[Path[i]] = 0
        <5>1. k + 1 \in 0..Len(Rest)
          BY <3>1, <3>4
        <5> QED
          BY <1>1, <4>1, <5>1, PathIs
      <4>7. Matching'
        BY <4>3, <4>5 DEF Matching
      <4>8. Finding'
        BY <1>1, <1>3, <1>4, <4>2, <4>3, <4>5, <4>6 DEF Finding
      <4> QED
        BY <4>7, <4>8
    <3> QED
      BY <1>1, <3>1, <3>3, <3>4, ClassIs
  <2>2. CASE EndAt(cp - 1) /\ A.accept[state] = A.endOfBuffer
    <3>1. ClassAt(cp) = 0 \/ \E c \in Characters : ClassAt(cp) = A.class[c]
      BY <1>5
    <3>2. state' = A.jam
      BY <1>1, <1>2, <2>2, <3>1, TablesEnd
    <3>3. pc' = "find"
      BY <1>1, <1>2, <3>2, Tables
    <3>4. last' = [state |-> state, pos |-> cp]
      BY <1>1, <1>2, <2>2, Tables DEF Remember
    <3>5. EndAt(last.pos - 1)'
      BY <1>1, <1>3, <2>2, <3>4 DEF EndAt
    <3> QED
      BY <1>4, <2>2, <3>2, <3>3, <3>4, <3>5 DEF Matching, Finding
  <2> QED
    BY <1>1, <2>1, <2>2 DEF Matching
<1> QED
  BY <1>3, <1>7, <1>8, <1>9 DEF ScanInv

(* A rule's text is cut off what is left, whose rest is then looked at.     *)
LEMMA DoRuleIs ==
    ASSUME ScanInv, DoRule
    PROVE  \E j \in 1..Len(Rest) :
              /\ Longest(j)
              /\ SubSeq(buffer.ch, text + 1, Found.end) = SubSeq(Rest, 1, j)
              /\ SubSeq(Rest, 1, j) \in Text /\ SubSeq(Rest, 1, j) # <<>>
              /\ Rest' = SubSeq(Rest, j + 1, Len(Rest)) /\ Rest' \in Text
<1>1. /\ TypeOK /\ Reading /\ text <= N /\ pc = "find" /\ ~EndOfBuffer
      /\ text' = Found.end /\ UNCHANGED <<input, buffer>>
  BY DEF ScanInv, Reading, DoRule, EndOfBuffer
<1>2. PICK j \in 1..(N - text) : Longest(j)
  BY <1>1, FoundIs
<1>3. /\ N \in Nat /\ text \in 0..N /\ Rest \in Seq(Characters) /\ Len(Rest) \in Nat
      /\ Len(Rest) >= N - text
      /\ buffer.ch \in Seq(Characters) /\ input \in Seq(Characters) /\ N = Len(buffer.ch)
  BY <1>1, Basics DEF N
<1>4. Found.end = text + j /\ Found.end \in text..N /\ Found.end - text = j
      /\ j \in 1..Len(Rest)
  BY <1>2, <1>3 DEF Longest
<1> DEFINE ch == buffer.ch
           e == Found.end
           u == SubSeq(Rest, 1, j)
<1>5. /\ SubSeq(ch, text + 1, e) \in Seq(Characters)
      /\ SubSeq(ch, text + 1, e) = SubSeq(Rest, 1, e - text)
      /\ Len(SubSeq(ch, text + 1, e)) = e - text
      /\ SubSeq(ch, e + 1, Len(ch)) \o input = SubSeq(Rest, e - text + 1, Len(Rest))
  <2>1. Rest = SubSeq(ch, text + 1, Len(ch)) \o input
    BY DEF Rest, N
  <2>2. /\ ch \in Seq(Characters) /\ input \in Seq(Characters)
        /\ text \in 0..Len(ch) /\ e \in text..Len(ch)
    BY <1>3, <1>4
  <2> HIDE DEF ch, e
  <2>3. IsRest(Characters, ch, input, text, Rest)
    BY ONLY <2>1, <2>2, Remainder
  <2> QED
    BY ONLY <2>2, <2>3 DEF IsRest
<1>6. Rest' = SubSeq(ch, e + 1, Len(ch)) \o input
  BY <1>1 DEF Rest, N
<1> HIDE DEF ch, e
<1>7. SubSeq(ch, text + 1, e) = u /\ u \in Seq(Characters) /\ Len(u) = j
  BY <1>4, <1>5 DEF e
<1>8. Rest' = SubSeq(Rest, j + 1, Len(Rest))
  BY <1>4, <1>5, <1>6 DEF e
<1>9. SubSeq(Rest, j + 1, Len(Rest)) \in Seq(Characters)
  BY <1>3, <1>4
<1>10. u # <<>>
  BY <1>4, <1>7
<1> HIDE DEF u
<1> QED
  BY <1>2, <1>4, <1>7, <1>8, <1>9, <1>10 DEF ch, e, u, Text

(* After a rule yylex is at the start of the path of what is left.          *)
LEMMA DoRuleKeeps == ASSUME ScanInv, DoRule PROVE ScanInv'
<1> DEFINE w == SubSeq(buffer.ch, text + 1, Found.end)
           r == Found.rule
<1>1. /\ TypeOK /\ Reading /\ text <= N /\ pc = "find" /\ files # <<>>
      /\ files' = [files EXCEPT ![Len(files)] = @ \o Put(prog, r, w)]
      /\ fetched' = fetched \o Fetch(prog, r, w)
      /\ start' = NextCondition(prog, r, start)
      /\ text' = Found.end /\ cp' = Found.end /\ state' = A.start[start'] /\ pc' = "match"
      /\ UNCHANGED <<prog, interactive, docs, input, buffer, last>>
  BY DEF ScanInv, Reading, DoRule, world
<1>2. PICK j \in 1..Len(Rest) :
         /\ Longest(j) /\ w = SubSeq(Rest, 1, j) /\ w \in Text /\ w # <<>> /\ Rest' \in Text
  BY DoRuleIs
<1>3. prog \in Programs /\ start \in Conditions(prog) /\ N \in Nat /\ text \in 0..N
  BY <1>1, Basics
<1>4. text' \in 0..N /\ cp' = text' /\ N' = N
  BY <1>1, <1>2, <1>3 DEF Longest, N
<1> HIDE DEF w, r
<1>5. /\ Put(prog, r, w) \in Seq(Marks)
      /\ Fetch(prog, r, w) \in Seq([name : Text, remote : BOOLEAN])
      /\ start' \in Conditions(prog)
  BY <1>1, <1>2, <1>3, RuleTypes
<1>6. files' \in Seq(Seq(Marks)) /\ files' # <<>>
  <2> DEFINE F == Seq(Marks)
             l == Len(files)
             x == files[l] \o Put(prog, r, w)
  <2>1. files \in Seq(F) /\ files # <<>>
    BY <1>1 DEF TypeOK, Marks
  <2>2. files[l] \in F
    BY <2>1
  <2>3. x \in F
    BY <1>5, <2>2, ConcatProperties
  <2>4. files' = [files EXCEPT ![l] = x]
    BY <1>1
  <2> HIDE DEF x, F, l
  <2>5. l \in 1..Len(files)
    BY <2>1 DEF l
  <2>6. files' \in Seq(F) /\ Len(files') = Len(files)
    BY <2>1, <2>3, <2>4, <2>5, ExceptSeq
  <2>7. files' # <<>>
    BY <2>1, <2>6
  <2> QED
    BY <2>6, <2>7 DEF F
<1>7. fetched' \in Seq([name : Text, remote : BOOLEAN])
  <2> DEFINE S == [name : Text, remote : BOOLEAN]
  <2>1. fetched \in Seq(S) /\ Fetch(prog, r, w) \in Seq(S)
    BY <1>1, <1>5 DEF TypeOK
  <2> HIDE DEF S
  <2>2. fetched' \in Seq(S)
    BY <1>1, <2>1, ConcatProperties
  <2> QED
    BY <2>2 DEF S
<1>8. A' = A /\ state' \in States(A)
  BY <1>1, <1>3, <1>5, TablesBegin DEF A
<1>9. TypeOK'
  <2>1. text' \in Nat /\ cp' \in Nat
    BY <1>3, <1>4
  <2> QED
    BY <1>1, <1>5, <1>6, <1>7, <1>8, <2>1 DEF TypeOK, Marks
<1>10. Reading'
  <2>1. N' <= buffer'.size /\ text' <= N'
    BY <1>1, <1>3, <1>4 DEF Reading
  <2> QED
    BY <1>1, <1>6, <2>1 DEF Reading
<1>11. Path'[0] = state'
  <2>1. Path' = Course(A, A.start[start'], Rest')
    BY <1>8 DEF Path
  <2>2. A.start[start'] \in States(A)
    BY <1>3, <1>5, TablesBegin
  <2>3. CourseBy(A, A.start[start'], Rest', Course(A, A.start[start'], Rest'))
    BY <1>2, <1>3, <2>2, CourseIs
  <2> QED
    BY <1>1, <2>1, <2>3 DEF CourseBy
<1>12. Matching'
  <2>1. cp' \in text'..N' /\ cp' - text' = 0
    <3>1. text' \in Int /\ cp' \in Int /\ N' \in Int /\ text' <= N'
      BY <1>3, <1>4
    <3>2. cp' = text'
      BY <1>4
    <3>3. cp' - text' = 0
      <4>1. \A a \in Int : a - a = 0
        OBVIOUS
      <4> QED
        BY <3>1, <3>2, <4>1
    <3>4. cp' \in text'..N'
      BY <3>1, <3>2
    <3> QED
      BY <3>3, <3>4
  <2>2. OnPath'
    BY <1>11, <2>1 DEF OnPath
  <2>3. Passed(A.accept, Path, cp - text, text, last)'
    BY <2>1 DEF Passed
  <2> QED
    BY <2>2, <2>3 DEF Matching
<1>13. Finding'
  BY <1>1 DEF Finding
<1> QED
  BY <1>9, <1>10, <1>12, <1>13 DEF ScanInv

-----------------------------------------------------------------------------
(* At the end of the buffer or at a zero in it: the text before it.         *)
LEMMA EndIs ==
    ASSUME ScanInv, EndOfBuffer
    PROVE  LET n == Len(TextSoFar) IN
           /\ Found.end \in 1..(N + 1) /\ ~MissedEnd
           /\ n \in Nat /\ text + n + 1 = Found.end /\ text + n <= N /\ n <= Len(Rest)
           /\ TextSoFar \in Seq(Characters) /\ \A k \in 1..n : TextSoFar[k] = Rest[k]
           /\ Found.end <= N =>
                 n + 1 \in 1..Len(Rest) /\ Rest[n + 1] = "NUL"
           /\ Found.end > N =>
                 Rest = TextSoFar \o input /\ n = N - text
<1>1. TypeOK /\ text <= N /\ pc = "find"
  BY DEF ScanInv, Reading, EndOfBuffer
<1> DEFINE e == Found.end
           ch == buffer.ch
           u == SubSeq(ch, text + 1, e - 1)
<1>2. EndAt(e - 1)
  BY <1>1, FoundIs
<1>3. /\ N \in Nat /\ text \in 0..N /\ Rest \in Seq(Characters) /\ Len(Rest) \in Nat
      /\ Len(Rest) >= N - text /\ \A k \in 1..(N - text) : Rest[k] = ch[text + k]
      /\ ch \in Seq(Characters) /\ input \in Seq(Characters) /\ N = Len(ch)
  BY <1>1, Basics DEF N
<1>4. e \in Int
  <2>1. last.pos \in Nat
    BY <1>1, Basics
  <2> QED
    BY <1>1, <2>1, FoundIs
<1>5. e - 1 \in text..N /\ (e - 1 = N \/ ch[e] = "NUL")
  <2>1. e - 1 + 1 = e
    BY <1>4
  <2> QED
    BY <1>2, <2>1 DEF EndAt
<1>6. TextSoFar = u
  BY DEF TextSoFar
<1>7. u \in Seq(Characters) /\ Len(u) = e - 1 - text
      /\ \A k \in 1..(e - 1 - text) : u[k] = ch[text + k]
  <2> DEFINE d == e - 1
  <2>1. d \in text..Len(ch) /\ text \in 0..Len(ch) /\ ch \in Seq(Characters)
    BY <1>3, <1>5
  <2> HIDE DEF d, ch
  <2>2. /\ SubSeq(ch, text + 1, d) \in Seq(Characters) /\ Len(SubSeq(ch, text + 1, d)) = d - text
        /\ \A k \in 1..(d - text) : SubSeq(ch, text + 1, d)[k] = ch[text + k]
    BY <2>1
  <2> QED
    BY <2>2 DEF d
<1>8. e > N => Rest = u \o input /\ Len(u) = N - text
  <2>1. e > N => e - 1 = N
    BY <1>3, <1>4, <1>5
  <2> QED
    BY <1>7, <2>1 DEF Rest
<1> HIDE DEF e, u, ch
<1>9. e <= N => Rest[Len(u) + 1] = "NUL" /\ Len(u) + 1 \in 1..Len(Rest)
  <2>1. e <= N => Len(u) + 1 \in 1..(N - text) /\ text + (Len(u) + 1) = e /\ e - 1 # N
    BY <1>3, <1>4, <1>5, <1>7
  <2> QED
    BY <1>3, <1>5, <2>1
<1>10. /\ e \in 1..(N + 1) /\ ~(e > N + 1) /\ Len(u) \in Nat /\ text + Len(u) + 1 = e
       /\ text + Len(u) <= N /\ Len(u) <= Len(Rest)
  BY <1>3, <1>4, <1>5, <1>7
<1>11. \A k \in 1..Len(u) : u[k] = Rest[k]
  <2>1. \A k \in 1..Len(u) : k \in 1..(N - text) /\ k \in 1..(e - 1 - text)
    BY <1>3, <1>4, <1>5, <1>7
  <2> QED
    BY <1>3, <1>7, <2>1
<1> QED
  BY <1>6, <1>7, <1>8, <1>9, <1>10, <1>11 DEF e, MissedEnd

(* What looking at it again from place p on finds.                          *)
LEMMA AgainIs ==
    ASSUME ScanInv, EndOfBuffer, NEW p \in Nat
    PROVE  LET r == Previous(TextSoFar, p)
               n == Len(TextSoFar)
           IN  /\ r.state = Path[n] /\ r.state \in States(A)
               /\ r.last \in Lasts /\ Passed(A.accept, Path, n, p, r.last)
<1>1. TypeOK /\ text <= N
  BY DEF ScanInv, Reading
<1>2. prog \in Programs /\ last \in Lasts /\ start \in Conditions(prog) /\ Rest \in Text
  BY <1>1, Basics
<1>3. /\ TextSoFar \in Text /\ Len(TextSoFar) <= Len(Rest)
      /\ \A k \in 1..Len(TextSoFar) : TextSoFar[k] = Rest[k]
  BY EndIs DEF Text
<1> QED
  BY <1>2, <1>3, PreviousIs DEF Path

(* The buffer once it is in use.                                            *)
LEMMA BegunIs ==
    ASSUME TypeOK
    PROVE  /\ Begun \in [ch : Text, size : Nat, fill : BOOLEAN, status : {"new", "normal", "pending"}]
           /\ Begun.ch = buffer.ch /\ Begun.size = buffer.size /\ Begun.fill = buffer.fill
           /\ Begun.status = "pending" <=> buffer.status = "pending"
<1>1. buffer \in [ch : Text, size : Nat, fill : BOOLEAN, status : {"new", "normal", "pending"}]
  BY DEF TypeOK
<1> QED
  BY <1>1 DEF Begun

(* A zero in the text: the path goes on through it, or the text ends there. *)
LEMMA RealNulKeeps == ASSUME ScanInv, RealNul PROVE ScanInv' /\ Rest' = Rest
<1> DEFINE r == Previous(TextSoFar, text)
           n == Len(TextSoFar)
           q == A.next[<<r.state, A.class["NUL"]>>]
<1>1. /\ TypeOK /\ Reading /\ text <= N /\ EndOfBuffer /\ Found.end <= N
      /\ last' = Remember(r.state, Found.end - 1, r.last)
      /\ \/ q # A.jam /\ cp' = Found.end /\ state' = q /\ pc' = "match"
         \/ q = A.jam /\ cp' = Found.end - 1 /\ state' = r.state /\ pc' = "find"
      /\ buffer' = Begun
      /\ UNCHANGED <<prog, interactive, docs, start, files, fetched, input, text>>
  BY DEF ScanInv, Reading, RealNul, world, results
<1>2. r.state = Path[n] /\ r.state \in States(A) /\ r.last \in Lasts
      /\ Passed(A.accept, Path, n, text, r.last)
  <2>1. text \in Nat
    BY <1>1 DEF TypeOK
  <2> QED
    BY <1>1, <2>1, AgainIs
<1>3. /\ n \in Nat /\ text + n + 1 = Found.end /\ n + 1 \in 1..Len(Rest) /\ Rest[n + 1] = "NUL"
      /\ Found.end - 1 = text + n
  <2>1. n \in Nat /\ text + n + 1 = Found.end /\ Found.end \in 1..(N + 1)
        /\ n + 1 \in 1..Len(Rest) /\ Rest[n + 1] = "NUL"
    BY <1>1, EndIs
  <2>2. text \in Nat
    BY <1>1 DEF TypeOK
  <2> QED
    BY <2>1, <2>2
<1>4. N \in Nat /\ text \in 0..N /\ Len(Rest) \in Nat /\ prog \in Programs
  BY <1>1, Basics
<1>5. buffer'.ch = buffer.ch /\ N' = N /\ Rest' = Rest /\ A' = A /\ Path' = Path
  <2>1. buffer'.ch = buffer.ch
    BY <1>1, BegunIs
  <2>2. N' = N /\ Rest' = Rest
    BY <1>1, <2>1, KeptRest
  <2> QED
    BY <1>1, <2>1, <2>2, KeptPath
<1> HIDE DEF r, n, q
<1>6. q = Path[n + 1] /\ q \in States(A)
  <2>1. \A k \in 1..Len(Rest) : Path[k] = A.next[<<Path[k - 1], A.class[Rest[k]]>>]
    BY <1>1, PathIs
  <2>2. Path[n + 1] = A.next[<<Path[n], A.class[Rest[n + 1]]>>]
    <3>1. n + 1 - 1 = n
      BY <1>3
    <3> QED
      BY ONLY <1>3, <2>1, <3>1
  <2>3. q = Path[n + 1]
    BY <1>2, <1>3, <2>2 DEF q
  <2>4. n + 1 \in 0..Len(Rest)
    BY <1>3, <1>4
  <2> QED
    BY <1>1, <2>3, <2>4, PathIs
<1>7. last' = Remember(Path[n], text + n, r.last) /\ last' \in Lasts
  <2>1. last' = Remember(Path[n], text + n, r.last)
    BY <1>1, <1>2, <1>3
  <2>2. text + n \in Nat
    BY <1>3, <1>4
  <2> QED
    BY <1>2, <2>1, <2>2 DEF Remember, Lasts
<1>8. TypeOK'
  <2>1. cp' \in Nat /\ state' \in States(A) /\ pc' \in {"idle", "match", "find"}
    BY <1>1, <1>2, <1>3, <1>4, <1>6
  <2>2. buffer' \in [ch : Text, size : Nat, fill : BOOLEAN, status : {"new", "normal", "pending"}]
    BY <1>1, BegunIs
  <2> QED
    BY <1>1, <1>5, <1>7, <2>1, <2>2 DEF TypeOK, Lasts
<1>9. Reading'
  <2>1. /\ buffer'.size = buffer.size /\ buffer'.fill = buffer.fill
        /\ buffer'.status = "pending" <=> buffer.status = "pending"
    BY <1>1, BegunIs
  <2>2. pc' # "idle" /\ files # <<>>
    BY <1>1 DEF Reading, EndOfBuffer
  <2> QED
    BY <1>1, <1>5, <2>1, <2>2 DEF Reading
<1>10. CASE q # A.jam
  <2>1. cp' = text + n + 1 /\ state' = Path[n + 1] /\ pc' = "match"
    BY <1>1, <1>3, <1>6, <1>10
  <2>2. cp' \in text'..N' /\ cp' - text' = n + 1
    BY <1>1, <1>3, <1>4, <1>5, <2>1
  <2>3. OnPath'
    BY <1>5, <2>1, <2>2 DEF OnPath
  <2>4. Passed(A.accept, Path, cp - text, text, last)'
    <3>1. Passed(A.accept, Path, n + 1, text, last')
      BY <1>2, <1>3, <1>7, PassedStep
    <3> QED
      BY <1>1, <1>5, <2>2, <3>1
  <2> QED
    BY <1>5, <1>8, <1>9, <2>1, <2>3, <2>4 DEF ScanInv, Matching, Finding
<1>11. CASE q = A.jam
  <2>1. cp' = text + n /\ state' = Path[n] /\ pc' = "find"
    BY <1>1, <1>2, <1>3, <1>11
  <2>2. n # 0
    <3>1. Len(Rest) > 0 => A.accept[Path[1]] # 0
      BY <1>1, PathIs
    <3>2. A.accept[Path[n + 1]] = 0
      BY <1>4, <1>6, <1>11, Tables
    <3>3. n = 0 => n + 1 = 1 /\ Len(Rest) > 0
      BY <1>3, <1>4
    <3> QED
      BY <3>1, <3>2, <3>3
  <2>3. cp' \in text'..N' /\ cp' - text' = n /\ text' < cp'
    BY <1>1, <1>3, <1>4, <1>5, <2>1, <2>2
  <2>4. OnPath'
    BY <1>5, <2>1, <2>3 DEF OnPath
  <2>5. A.accept[Path[n]] = 0 => Passed(A.accept, Path, n, text, last')
    BY <1>2, <1>7 DEF Remember
  <2>6. \A k \in (n + 1)..Len(Rest) : A.accept[Path[k]] = 0
    <3>1. n + 1 \in 0..Len(Rest) /\ Path[n + 1] \in A.final /\ A.accept[Path[n + 1]] = 0
      BY <1>3, <1>4, <1>6, <1>11, Tables
    <3>2. \A k \in (n + 1 + 1)..Len(Rest) : A.accept[Path[k]] = 0
      BY <1>1, <3>1, PathIs
    <3>3. \A k \in (n + 1)..Len(Rest) : k = n + 1 \/ k \in (n + 1 + 1)..Len(Rest)
      BY <1>3, <1>4
    <3> QED
      BY <3>1, <3>2, <3>3
  <2>7. Finding'
    BY <1>1, <1>5, <2>1, <2>3, <2>4, <2>5, <2>6 DEF Finding
  <2> QED
    BY <1>5, <1>8, <1>9, <2>1, <2>7 DEF ScanInv, Matching
<1> QED
  BY <1>10, <1>11

-----------------------------------------------------------------------------
(* At the end of the input what is left is looked at without that end.      *)
LEMMA LastMatchIs ==
    ASSUME ScanInv, EndOfBuffer, Found.end > N, input = <<>>, TextSoFar # <<>>,
           NEW p \in Nat, LastMatch(TextSoFar, p), text' = p, N' = p + Len(TextSoFar),
           Rest' = Rest, A' = A, Path' = Path
    PROVE  /\ pc' = "find" /\ cp' \in Nat /\ state' \in States(A) /\ last' \in Lasts
           /\ Finding'
<1> DEFINE n == Len(TextSoFar)
           r == Previous(TextSoFar, p)
<1>1. cp' = p + n /\ state' = r.state /\ last' = r.last /\ pc' = "find"
  BY DEF LastMatch
<1>2. r.state = Path[n] /\ r.state \in States(A) /\ r.last \in Lasts
      /\ Passed(A.accept, Path, n, p, r.last)
  BY AgainIs
<1>3. n \in Nat /\ n # 0 /\ Rest = TextSoFar /\ Len(Rest) = n
  <2>1. n \in Nat /\ TextSoFar \in Seq(Characters) /\ Rest = TextSoFar \o input
    BY EndIs
  <2>2. Rest = TextSoFar
    BY <2>1
  <2> QED
    BY <2>1, <2>2
<1> HIDE DEF n, r
<1>4. cp' \in text'..N' /\ cp' - text' = n /\ text' < cp' /\ cp' \in Nat
  BY <1>1, <1>3 DEF n
<1>5. OnPath'
  BY <1>1, <1>2, <1>4 DEF OnPath
<1>6. \A k \in (n + 1)..Len(Rest) : A.accept[Path[k]] = 0
  BY <1>3
<1>7. Passed(A.accept, Path, n, p, last')
  BY <1>1, <1>2
<1>8. Finding'
  BY <1>4, <1>5, <1>6, <1>7 DEF Finding
<1> QED
  BY <1>1, <1>2, <1>4, <1>8

(* The end of a buffer that is not filled: the text before it, or none.     *)
LEMMA EndOfBytesKeeps == ASSUME ScanInv, EndOfBytes PROVE ScanInv' /\ Rest' = Rest
<1>1. /\ TypeOK /\ Reading /\ text <= N /\ EndOfBuffer /\ Found.end > N /\ ~buffer.fill
      /\ \/ TextSoFar = <<>> /\ cp' = text /\ pc' = "idle" /\ UNCHANGED <<state, last>>
         \/ TextSoFar # <<>> /\ LastMatch(TextSoFar, text)
      /\ buffer' = Begun
      /\ UNCHANGED <<prog, interactive, docs, start, files, fetched, input, text>>
  BY DEF ScanInv, Reading, EndOfBytes, world, results
<1>2. /\ buffer'.ch = buffer.ch /\ buffer'.size = buffer.size /\ buffer'.fill = buffer.fill
      /\ buffer'.status = "pending" <=> buffer.status = "pending"
      /\ buffer' \in [ch : Text, size : Nat, fill : BOOLEAN, status : {"new", "normal", "pending"}]
  BY <1>1, BegunIs
<1>3. Rest' = Rest /\ N' = N
  BY <1>1, <1>2, KeptRest
<1>4. A' = A /\ Path' = Path
  BY <1>1, <1>3, KeptPath
<1>5. input = <<>> /\ input' = <<>>
  BY <1>1 DEF Reading
<1>6. Rest = TextSoFar \o input /\ Len(TextSoFar) = N - text /\ TextSoFar \in Seq(Characters)
  BY <1>1, EndIs
<1>7. N \in Nat /\ text \in 0..N /\ text \in Nat
  BY <1>1, Basics
<1>8. CASE TextSoFar = <<>> /\ cp' = text /\ pc' = "idle" /\ UNCHANGED <<state, last>>
  <2>1. Rest' = <<>>
    BY <1>3, <1>5, <1>6, <1>8
  <2>2. TypeOK'
    BY <1>1, <1>2, <1>4, <1>7, <1>8 DEF TypeOK
  <2>3. Reading'
    BY <1>1, <1>2, <1>3, <1>5, <1>8, <2>1 DEF Reading
  <2> QED
    BY <1>3, <1>8, <2>2, <2>3 DEF ScanInv, Matching, Finding
<1>9. CASE TextSoFar # <<>> /\ LastMatch(TextSoFar, text)
  <2>1. N' = text + Len(TextSoFar)
    BY <1>3, <1>6, <1>7
  <2>2. /\ pc' = "find" /\ cp' \in Nat /\ state' \in States(A) /\ last' \in Lasts
        /\ Finding'
    BY <1>1, <1>3, <1>4, <1>5, <1>7, <1>9, <2>1, LastMatchIs
  <2>3. TypeOK'
    BY <1>1, <1>2, <1>4, <2>2 DEF TypeOK, Lasts
  <2>4. Reading'
    BY <1>1, <1>2, <1>3, <1>5, <2>2 DEF Reading, EndOfBuffer
  <2> QED
    BY <1>3, <2>2, <2>3, <2>4 DEF ScanInv, Matching
<1> QED
  BY <1>1, <1>8, <1>9

(* Doubling the buffer changes nothing but its size.                        *)
LEMMA GrowBufferKeeps == ASSUME ScanInv, GrowBuffer PROVE ScanInv' /\ Rest' = Rest
<1>1. /\ TypeOK /\ Reading /\ Matching /\ Finding /\ text <= N
      /\ buffer' = [Begun EXCEPT !.size = @ * 2]
      /\ UNCHANGED <<prog, interactive, docs, start, files, fetched>>
      /\ UNCHANGED <<input, text, cp, state, last, pc>>
  BY DEF ScanInv, Reading, GrowBuffer, world, results
<1>2. /\ Begun \in [ch : Text, size : Nat, fill : BOOLEAN, status : {"new", "normal", "pending"}]
      /\ Begun.ch = buffer.ch /\ Begun.size = buffer.size /\ Begun.fill = buffer.fill
      /\ Begun.status = "pending" <=> buffer.status = "pending"
  BY <1>1, BegunIs
<1>3. /\ buffer' \in [ch : Text, size : Nat, fill : BOOLEAN, status : {"new", "normal", "pending"}]
      /\ buffer'.ch = buffer.ch /\ buffer'.fill = buffer.fill /\ buffer'.size = buffer.size * 2
      /\ buffer'.status = "pending" <=> buffer.status = "pending"
  BY <1>1, <1>2
<1>4. Rest' = Rest /\ N' = N
  BY <1>1, <1>3, KeptRest
<1>5. A' = A /\ Path' = Path
  BY <1>1, <1>4, KeptPath
<1>6. TypeOK'
  BY <1>1, <1>3, <1>5 DEF TypeOK
<1>7. Reading'
  <2>1. N' <= buffer'.size
    <3>1. N \in Nat /\ buffer.size \in Nat /\ N <= buffer.size
      BY <1>1, Basics DEF Reading
    <3> QED
      BY <1>3, <1>4, <3>1
  <2> QED
    BY <1>1, <1>3, <1>4, <2>1 DEF Reading
<1>8. Matching' /\ Finding'
  BY <1>1, <1>3, <1>4, <1>5 DEF Matching, Finding, OnPath, EndAt
<1> QED
  BY <1>4, <1>6, <1>7, <1>8 DEF ScanInv

(* Moving the text and reading more leaves the path, and the place in it.   *)
LEMMA FillBufferKeeps == ASSUME ScanInv, FillBuffer PROVE ScanInv' /\ Rest' = Rest
<1> DEFINE u == TextSoFar
           n == Len(u)
           Buffers == [ch : Text, size : Nat, fill : BOOLEAN, status : {"new", "normal", "pending"}]
<1>1. /\ TypeOK /\ Reading /\ text <= N /\ EndOfBuffer /\ Found.end > N /\ buffer.fill
      /\ buffer.status = "pending" \/ Room > 0
      /\ text' = 0 /\ input' = SubSeq(input, Len(Got) + 1, Len(input))
      /\ UNCHANGED <<prog, interactive, docs, start, files, fetched>>
  BY DEF ScanInv, Reading, FillBuffer, Filling, world, results
<1>2. /\ n \in Nat /\ u \in Seq(Characters) /\ Rest = u \o input /\ n = N - text
  BY <1>1, EndIs
<1>3. /\ N \in Nat /\ text \in 0..N /\ buffer.size \in Nat /\ input \in Seq(Characters)
      /\ Len(input) \in Nat /\ N <= buffer.size /\ input \in Text
  BY <1>1, Basics DEF Reading, Text
<1>4. Room = buffer.size - n - 1 /\ Room \in Int
  BY <1>2, <1>3 DEF Room
<1>5. PICK m \in 0..Len(input) :
         /\ Got = SubSeq(input, 1, m)
         /\ buffer.status = "pending" => m = 0
         /\ buffer.status # "pending" => m <= Room /\ (m = 0 => Len(input) = 0)
  BY <1>1, <1>3, <1>4, GotIs
<1>6. /\ Got \in Seq(Characters) /\ Len(Got) = m /\ u \o Got \in Seq(Characters)
      /\ Len(u \o Got) = n + m /\ input' \in Seq(Characters)
      /\ SubSeq(u \o Got, 1, Len(u \o Got)) \o input' = u \o input
  <2> HIDE DEF u
  <2>1. IsRefill(Characters, u, input, m, SubSeq(input, 1, m), SubSeq(input, m + 1, Len(input)))
    BY <1>2, <1>3, Refilled
  <2>2. Len(Got) = m /\ input' = SubSeq(input, m + 1, Len(input))
    BY <1>1, <1>5, <2>1 DEF IsRefill
  <2> QED
    BY <1>5, <2>1, <2>2 DEF IsRefill, n
<1>7. Got = <<>> => input = <<>> /\ input' = <<>>
  <2>1. Got = <<>> => m = 0
    BY <1>6
  <2>2. Got = <<>> => Len(input) = 0
    BY <1>1, <1>5, <2>1 DEF Reading
  <2> QED
    BY <1>1, <1>3, <2>2
<1>8. Begun \in Buffers /\ buffer \in Buffers /\ Begun.size = buffer.size /\ Begun.fill
  BY <1>1, BegunIs DEF TypeOK
<1> HIDE DEF u, n, Buffers
<1>9. /\ prog' \in Programs /\ interactive' \in BOOLEAN /\ docs' \in Seq(Text) /\ input' \in Text
      /\ text' \in Nat /\ start' \in Conditions(prog') /\ A' = A
      /\ files' \in Seq(Seq(Characters \cup {"HOST", "LASTPATH"})) /\ files' # <<>>
      /\ fetched' \in Seq([name : Text, remote : BOOLEAN])
  BY <1>1, <1>6 DEF TypeOK, Reading, EndOfBuffer, A, Text
<1>10. CASE /\ Got # <<>> /\ buffer' = [Begun EXCEPT !.ch = u \o Got]
            /\ state' = Previous(u, 0).state /\ last' = Previous(u, 0).last
            /\ cp' = n /\ pc' = "match"
  <2>1. /\ buffer'.ch = u \o Got /\ buffer'.size = buffer.size /\ buffer'.fill
        /\ buffer' \in Buffers
    BY <1>6, <1>8, <1>10 DEF Buffers, Text
  <2>2. m # 0 /\ n + m <= buffer.size
    <3>1. m # 0
      BY <1>6, <1>10
    <3> QED
      BY <1>2, <1>3, <1>4, <1>5, <3>1
  <2>3. Rest' = Rest /\ N' = n + m
    <3>1. N' = Len(u \o Got)
      BY <2>1 DEF N
    <3>2. Rest' = SubSeq(u \o Got, 1, Len(u \o Got)) \o input'
      BY <1>1, <2>1, <3>1 DEF Rest
    <3> QED
      BY <1>2, <1>6, <3>1, <3>2
  <2>4. Path' = Path
    BY <1>1, <2>3, KeptPath
  <2>5. /\ state' = Path[n] /\ state' \in States(A) /\ last' \in Lasts
        /\ Passed(A.accept, Path, n, 0, last')
    BY <1>1, <1>10, AgainIs DEF u, n
  <2>6. TypeOK'
    BY <1>2, <1>9, <1>10, <2>1, <2>5 DEF TypeOK, Lasts, Buffers
  <2>7. Reading'
    <3>1. N' <= buffer'.size /\ text' <= N'
      BY <1>1, <1>2, <2>1, <2>2, <2>3
    <3>2. buffer'.status # "pending"
      BY <1>1, <1>5, <1>8, <1>10, <2>2, BegunIs DEF Buffers
    <3> QED
      BY <1>9, <1>10, <2>1, <3>1, <3>2 DEF Reading
  <2>8. Matching'
    <3>1. cp' \in text'..N' /\ cp' - text' = n
      BY <1>1, <1>2, <1>10, <2>3
    <3>2. OnPath'
      BY <2>4, <2>5, <3>1 DEF OnPath
    <3> QED
      BY <1>1, <1>9, <2>4, <2>5, <3>1, <3>2 DEF Matching
  <2> QED
    BY <1>10, <2>3, <2>6, <2>7, <2>8 DEF ScanInv, Finding
<1>11. CASE /\ Got = <<>> /\ u # <<>>
            /\ buffer' = [Begun EXCEPT !.ch = u, !.status = "pending"]
            /\ LastMatch(u, 0)
  <2>1. buffer'.ch = u /\ buffer'.size = buffer.size /\ buffer' \in Buffers
    BY <1>2, <1>8, <1>11 DEF Buffers, Text
  <2>2. N' = n /\ Rest' = Rest
    <3>1. N' = n
      BY <2>1 DEF N, n
    <3>2. Rest' = SubSeq(u, 1, Len(u)) \o input'
      BY <1>1, <2>1, <3>1 DEF Rest, n
    <3>3. SubSeq(u, 1, Len(u)) = u
      BY <1>2, SubSeqFull
    <3> QED
      BY <1>2, <1>7, <1>11, <3>1, <3>2, <3>3
  <2>3. Path' = Path
    BY <1>1, <2>2, KeptPath
  <2>4. /\ pc' = "find" /\ cp' \in Nat /\ state' \in States(A) /\ last' \in Lasts
        /\ Finding'
    <3>1. text' = 0 /\ N' = 0 + Len(TextSoFar) /\ input = <<>>
      BY <1>1, <1>2, <1>7, <1>11, <2>2 DEF u, n
    <3> QED
      BY <1>1, <1>9, <1>11, <2>2, <2>3, <3>1, LastMatchIs DEF u
  <2>5. TypeOK'
    BY <1>9, <2>1, <2>4 DEF TypeOK, Lasts, Buffers
  <2>6. Reading'
    <3>1. N' <= buffer'.size /\ text' <= N'
      BY <1>1, <1>2, <1>3, <2>1, <2>2
    <3> QED
      BY <1>7, <1>9, <1>11, <2>4, <3>1 DEF Reading
  <2> QED
    BY <2>2, <2>4, <2>5, <2>6 DEF ScanInv, Matching
<1>12. CASE /\ Got = <<>> /\ u = <<>> /\ buffer' = Flushed(buffer)
            /\ cp' = 0 /\ pc' = "idle" /\ UNCHANGED <<state, last>>
  <2>1. buffer'.ch = <<>> /\ buffer'.size = buffer.size /\ buffer'.fill /\ buffer'.status = "new"
        /\ buffer' \in Buffers
    <3>1. <<>> \in Text
      BY DEF Text
    <3> QED
      BY <1>8, <1>12, <3>1 DEF Flushed, Buffers
  <2>2. N' = 0 /\ Rest' = <<>> /\ Rest = <<>>
    <3>1. N' = 0
      BY <2>1 DEF N
    <3>2. Rest' = <<>>
      BY <1>1, <1>7, <1>12, <2>1, <3>1 DEF Rest
    <3> QED
      BY <1>2, <1>7, <1>12, <3>1, <3>2
  <2>3. TypeOK'
    BY <1>1, <1>9, <1>12, <2>1 DEF TypeOK, Buffers
  <2>4. Reading'
    BY <1>1, <1>3, <1>12, <2>1, <2>2 DEF Reading
  <2> QED
    BY <1>12, <2>2, <2>3, <2>4 DEF ScanInv, Matching, Finding
<1> QED
  BY <1>10, <1>11, <1>12 DEF FillBuffer, u, n

-----------------------------------------------------------------------------
(* The invariant is inductive.                                              *)
LEMMA ScanInductive == ScanInv /\ [Next]_vars => ScanInv'
<1> SUFFICES ASSUME ScanInv, [Next]_vars PROVE ScanInv'
  OBVIOUS
<1>1. CASE ScanBytes
  BY <1>1, ScanBytesKeeps
<1>2. CASE ScanInput
  BY <1>2, ScanInputKeeps
<1>3. CASE MatchCharacter
  BY <1>3, MatchCharacterKeeps
<1>4. CASE DoRule
  BY <1>4, DoRuleKeeps
<1>5. CASE RealNul
  BY <1>5, RealNulKeeps
<1>6. CASE EndOfBytes
  BY <1>6, EndOfBytesKeeps
<1>7. CASE GrowBuffer
  BY <1>7, GrowBufferKeeps
<1>8. CASE FillBuffer
  BY <1>8, FillBufferKeeps
<1>9. CASE UNCHANGED vars
  <2>1. /\ UNCHANGED <<prog, interactive, docs, input, buffer, text, cp, state>>
        /\ UNCHANGED <<last, start, pc, files, fetched>>
    BY <1>9 DEF vars
  <2>2. Rest' = Rest /\ N' = N
    BY <2>1, KeptRest
  <2>3. A' = A /\ Path' = Path
    BY <2>1, <2>2, KeptPath
  <2> QED
    BY <2>1, <2>2, <2>3 DEF ScanInv, TypeOK, Reading, Matching, Finding, OnPath, EndAt
<1> QED
  BY <1>1, <1>2, <1>3, <1>4, <1>5, <1>6, <1>7, <1>8, <1>9 DEF Next

(* The scanner is always where its automaton is on the text at hand, or at   *)
(* an end of the buffer or a zero.                                         *)
THEOREM ScanInvariant == SafeSpec => []ScanInv
  BY ScanInit, ScanInductive, PTL DEF SafeSpec

(* Every place and state of the scanner is one of its buffer and its tables, *)
(* for all tables, documents and sizes.                                     *)
THEOREM TypeCorrect == SafeSpec => []TypeOK
<1>1. ScanInv => TypeOK
  BY DEF ScanInv
<1> QED
  BY <1>1, ScanInvariant, PTL

(* yylex stays in its buffer, whatever it reads, and never misses its end.  *)
THEOREM StaysInBuffer == SafeSpec => []InBuffer
<1>1. ScanInv => InBuffer
  <2> SUFFICES ASSUME ScanInv PROVE InBuffer
    OBVIOUS
  <2>1. TypeOK /\ N <= buffer.size /\ text <= N /\ Matching
    BY DEF ScanInv, Reading
  <2>2. N \in Nat /\ text \in 0..N /\ cp \in Nat
    BY <2>1, Basics
  <2>3. pc = "match" => cp <= N + 1
    BY <2>1, <2>2 DEF Matching, OnPath, EndAt
  <2>4. EndOfBuffer => ~MissedEnd
    BY EndIs
  <2> QED
    BY <2>1, <2>3, <2>4 DEF InBuffer
<1> QED
  BY <1>1, ScanInvariant, PTL

(* The place yylex backs up to is always the last one in the text at hand   *)
(* at which the automaton accepts, and the state the one it was in there:   *)
(* nothing is left over from an earlier text or from before a move.         *)
THEOREM BacksUp == SafeSpec => []BacksUpInText
<1>1. ScanInv => BacksUpInText
  <2> SUFFICES ASSUME ScanInv, pc = "find" PROVE BacksUpInText
    BY DEF BacksUpInText
  <2>1. TypeOK /\ text <= N
    BY DEF ScanInv, Reading
  <2>2. /\ prog \in Programs /\ start \in Conditions(prog) /\ text \in 0..N /\ N \in Nat /\ cp \in Nat
        /\ buffer.ch \in Seq(Characters) /\ N = Len(buffer.ch) /\ last.pos \in Nat
        /\ Rest \in Text /\ Len(Rest) \in Nat /\ N - text <= Len(Rest)
        /\ \A k \in 1..(N - text) : Rest[k] = buffer.ch[text + k]
    BY <2>1, Basics DEF N, Text
  <2>3. CASE EndOfBuffer
    <3>1. Found.rule = A.endOfBuffer /\ Found.end = last.pos /\ EndAt(last.pos - 1)
      BY <2>3, FoundIs DEF EndOfBuffer
    <3>2. Found.end \in (text + 1)..(N + 1)
      BY <2>2, <3>1 DEF EndAt
    <3>3. ClassAt(Found.end - 1) = 0
      <4>1. last.pos - 1 = N \/ buffer.ch[last.pos - 1 + 1] = "NUL"
        BY <3>1 DEF EndAt
      <4> QED
        BY <2>2, <3>1, <4>1 DEF ClassAt
    <3> QED
      BY <3>1, <3>2, <3>3 DEF BacksUpInText
  <2>4. CASE ~EndOfBuffer
    <3> DEFINE w == SubSeq(buffer.ch, text + 1, cp)
               passed == Course(A, A.start[start], w)
    <3>1. PICK j \in 1..(N - text) : Longest(j)
      BY <2>4, FoundIs
    <3>2. /\ Found.end = text + j /\ Found.rule # 0 /\ Found.rule # A.endOfBuffer
          /\ BackedUpTo = Path[j] /\ text + j <= cp /\ cp <= N
          /\ \A k \in (j + 1)..Len(Rest) : A.accept[Path[k]] = 0
      BY <2>4, <3>1 DEF Longest, EndOfBuffer
    <3>3. w \in Seq(Characters) /\ Len(w) = cp - text /\ \A k \in 1..Len(w) : w[k] = Rest[k]
      <4> DEFINE ch == buffer.ch
      <4>1. ch \in Seq(Characters) /\ text \in Nat /\ cp \in text..Len(ch)
        BY <2>2, <3>2
      <4> HIDE DEF ch
      <4>2. /\ SubSeq(ch, text + 1, cp) \in Seq(Characters) /\ Len(SubSeq(ch, text + 1, cp)) = cp - text
            /\ \A k \in 1..(cp - text) : SubSeq(ch, text + 1, cp)[k] = ch[text + k]
        BY <4>1
      <4>3. \A k \in 1..(cp - text) : k \in 1..(N - text)
        BY <2>2, <3>2
      <4> QED
        BY <2>2, <4>2, <4>3 DEF ch
    <3>4. \A k \in 0..Len(w) : passed[k] = Path[k]
      <4>1. w \in Text /\ Len(w) <= Len(Rest)
        BY <2>2, <3>2, <3>3 DEF Text
      <4> HIDE DEF w
      <4> QED
        BY <2>2, <3>3, <4>1, CourseBegins DEF Path
    <3> HIDE DEF passed, w
    <3>5. Found.end - text = j /\ j \in 0..Len(w)
      BY <2>2, <3>2, <3>3
    <3>6. \A k \in (j + 1)..(cp - text) : k \in 0..Len(w) /\ k \in (j + 1)..Len(Rest)
      BY <2>2, <3>2, <3>3
    <3>7. /\ BackedUpTo = passed[Found.end - text]
          /\ \A k \in (Found.end - text + 1)..(cp - text) : A.accept[passed[k]] = 0
      BY <3>2, <3>4, <3>5, <3>6
    <3>8. Found.end \in (text + 1)..cp
      BY <2>2, <3>2
    <3> QED
      BY <3>2, <3>7, <3>8 DEF BacksUpInText, passed, w
  <2> QED
    BY <2>3, <2>4
<1> QED
  BY <1>1, ScanInvariant, PTL

-----------------------------------------------------------------------------
(* What is left is the end of a document, and so are those to come.         *)
Left ==
    /\ \A i \in 1..Len(docs) : docs[i] \in Documents(prog)
    /\ Rest # <<>> => Rest \in Leftovers(prog)

(* The end of an end of a document is one.                                  *)
LEMMA EndOfEnd ==
    ASSUME NEW p, NEW w \in Leftovers(p), w \in Text, NEW j \in 1..Len(w),
           \A d \in Documents(p) : d \in Text
    PROVE  SubSeq(w, j + 1, Len(w)) \in Leftovers(p)
<1>1. PICK d \in Documents(p) : w \in Suffixes(d)
  BY DEF Leftovers
<1>2. d \in Seq(Characters) /\ w \in Seq(Characters) /\ w # <<>>
  BY <1>1 DEF Text
<1>3. PICK l \in 1..Len(d) : w = SubSeq(d, l, Len(d))
  BY <1>1, <1>2 DEF Suffixes
<1>4. Len(w) = Len(d) - l + 1 /\ \A k \in 1..Len(w) : w[k] = d[l + k - 1]
  BY <1>2, <1>3
<1>5. CASE j = Len(w)
  <2>1. SubSeq(w, j + 1, Len(w)) = <<>>
    BY <1>2, <1>5
  <2> QED
    BY <1>1, <2>1 DEF Leftovers, Suffixes
<1>6. CASE j < Len(w)
  <2> DEFINE u == SubSeq(w, j + 1, Len(w))
             v == SubSeq(d, l + j, Len(d))
  <2>1. u \in Seq(Characters) /\ Len(u) = Len(w) - j /\ \A k \in 1..(Len(w) - j) : u[k] = w[j + k]
    BY <1>2, <1>6
  <2>2. v \in Seq(Characters) /\ Len(v) = Len(d) - (l + j) + 1
        /\ \A k \in 1..(Len(d) - (l + j) + 1) : v[k] = d[l + j + k - 1]
    BY <1>2, <1>4, <1>6
  <2>3. Len(u) = Len(v)
    BY <1>2, <1>4, <2>1, <2>2
  <2>4. ASSUME NEW k \in 1..Len(u) PROVE u[k] = v[k]
    <3>1. j + k \in 1..Len(w) /\ l + (j + k) - 1 = l + j + k - 1 /\ k \in 1..(Len(w) - j)
          /\ k \in 1..(Len(d) - (l + j) + 1)
      BY <1>2, <1>4, <1>6, <2>1, <2>4
    <3> QED
      BY <1>4, <2>1, <2>2, <3>1
  <2> HIDE DEF u, v
  <2>5. u = v
    BY <2>1, <2>2, <2>3, <2>4, SeqEqual
  <2>6. l + j \in 1..Len(d)
    BY <1>2, <1>4, <1>6
  <2>7. v \in Suffixes(d)
    BY <2>6 DEF v, Suffixes
  <2> QED
    BY <1>1, <2>5, <2>7 DEF Leftovers, u
<1> QED
  BY <1>5, <1>6

(* The documents are texts.                                                 *)
LEMMA DocumentsAreTexts == \A p \in Programs : \A d \in Documents(p) : d \in Text
<1> SUFFICES ASSUME NEW p \in Programs, NEW d \in Documents(p) PROVE d \in Text
  OBVIOUS
<1>1. PICK i \in Inputs : d \in ToSet(i.docs)
  BY DEF Documents
<1>2. i.docs \in Seq(Text)
  BY InputsAssumption
<1> QED
  BY <1>1, <1>2 DEF ToSet

(* A new document is the next one, and what is left is all of it.           *)
LEMMA YylexBegins ==
    ASSUME ScanInv, Left, NEW b, Yylex(b), b.ch \in Seq(Characters), input' \in Seq(Characters),
           b.ch \o input' = Head(docs)
    PROVE  Rules!NextDocument /\ Left'
<1>1. /\ TypeOK /\ pc = "idle" /\ docs # <<>> /\ text' = 0 /\ buffer' = b
      /\ docs' = Tail(docs) /\ files' = Append(files, <<>>)
      /\ UNCHANGED <<prog, start, fetched>>
  BY DEF ScanInv, Yylex, SwitchToBuffer
<1>2. Rest = <<>>
  BY <1>1 DEF ScanInv, Reading
<1>3. Rest' = Head(docs)
  <2>1. Rest' = SubSeq(b.ch, 1, Len(b.ch)) \o input'
    BY <1>1 DEF Rest, N
  <2>2. SubSeq(b.ch, 1, Len(b.ch)) = b.ch
    BY SubSeqFull
  <2> QED
    BY <2>1, <2>2
<1>4. docs \in Seq(Text) /\ prog \in Programs
  BY <1>1 DEF TypeOK
<1>5. Left'
  <2>1. 1 \in 1..Len(docs) /\ Head(docs) = docs[1]
        /\ \A i \in 1..Len(docs') : i + 1 \in 1..Len(docs) /\ docs'[i] = docs[i + 1]
    BY <1>1, <1>4
  <2>2. Head(docs) \in Documents(prog) /\ \A i \in 1..Len(docs') : docs'[i] \in Documents(prog)
    BY <2>1 DEF Left
  <2>3. Head(docs) \in Text
    BY <1>1, <1>4
  <2>4. Head(docs) # <<>> => Head(docs) \in Suffixes(Head(docs))
    <3> DEFINE d == Head(docs)
    <3>1. d \in Seq(Characters)
      BY <2>3 DEF Text
    <3> HIDE DEF d
    <3>2. d = SubSeq(d, 1, Len(d))
      BY <3>1, SubSeqFull
    <3>3. d # <<>> => 1 \in 1..Len(d)
      BY <3>1
    <3> QED
      BY <3>2, <3>3 DEF Suffixes, d
  <2>5. Head(docs) # <<>> => Head(docs) \in Leftovers(prog)
    BY <2>2, <2>4 DEF Leftovers
  <2> QED
    BY <1>1, <1>3, <2>2, <2>5 DEF Left
<1> QED
  BY <1>1, <1>2, <1>3, <1>5 DEF Rules!NextDocument

(* w3ClientDocToFile begins the next document.                              *)
LEMMA ScanBytesBegins == ASSUME ScanInv, Left, ScanBytes PROVE Rules!NextDocument /\ Left'
<1> DEFINE b == [ch |-> Head(docs), size |-> Len(Head(docs)), fill |-> FALSE, status |-> "new"]
<1>1. TypeOK /\ Reading /\ Yylex(b) /\ input' = input /\ pc = "idle" /\ docs # <<>>
  BY DEF ScanInv, ScanBytes, Yylex
<1>2. Head(docs) \in Seq(Characters)
  BY <1>1 DEF TypeOK, Text
<1>3. input = <<>>
  <2>1. text <= N /\ Rest = <<>>
    BY <1>1 DEF Reading
  <2>2. Len(Rest) = N - text + Len(input) /\ N \in Nat /\ text \in 0..N /\ Len(input) \in Nat
        /\ input \in Seq(Characters)
    BY <1>1, <2>1, Basics
  <2>3. Len(input) = 0
    BY <2>1, <2>2
  <2> QED
    BY <2>2, <2>3
<1>4. b.ch = Head(docs) /\ input' \in Seq(Characters) /\ Head(docs) \o input' = Head(docs)
  BY <1>1, <1>2, <1>3
<1> HIDE DEF b
<1> QED
  BY <1>1, <1>2, <1>4, YylexBegins

(* So does the main of the corrector.                                       *)
LEMMA ScanInputBegins == ASSUME ScanInv, Left, ScanInput PROVE Rules!NextDocument /\ Left'
<1> DEFINE empty == [NoBuffer EXCEPT !.size = BufSize]
           b == Flushed(empty)
<1>1. TypeOK /\ Yylex(b) /\ input' = Head(docs) /\ docs # <<>>
  BY DEF ScanInv, ScanInput, Yylex
<1>2. Head(docs) \in Seq(Characters)
  BY <1>1 DEF TypeOK, Text
<1>3. empty \in [ch : Seq(Characters), size : {BufSize}, fill : BOOLEAN, status : {"new"}]
  <2>1. /\ BufSize \in Nat /\ <<>> \in Seq(Characters)
        /\ NoBuffer \in [ch : Seq(Characters), size : Nat, fill : BOOLEAN, status : {"new"}]
    BY SizesAssumption DEF NoBuffer
  <2> QED
    BY <2>1
<1> HIDE DEF empty
<1>4. b.ch = <<>>
  BY <1>3 DEF Flushed
<1>5. b.ch \in Seq(Characters) /\ b.ch \o input' = Head(docs)
  BY <1>1, <1>2, <1>4
<1> HIDE DEF b
<1> QED
  BY <1>1, <1>2, <1>5, YylexBegins

(* The token of the rules is what yy_find_action finds.                     *)
LEMMA TokenIsLongest ==
    ASSUME ScanInv, Left, Rest # <<>>, NEW j \in 1..Len(Rest), Longest(j)
    PROVE  LET m == Rules!Token(prog, start, Rest) IN m[1] = Found.rule /\ m[2] = j
<1> DEFINE m == Rules!Token(prog, start, Rest)
<1>1. prog \in Programs /\ start \in Conditions(prog) /\ Len(Rest) \in Nat
  BY Basics DEF ScanInv, Reading, Text
<1>2. AcceptsTokens(prog, Automata[prog], Rest)
  BY <1>1, TokensAssumption DEF Left
<1>3. /\ m[2] \in 1..Len(Rest) /\ A.accept[Path[m[2]]] = m[1] /\ m[1] # 0
      /\ \A k \in (m[2] + 1)..Len(Rest) : A.accept[Path[k]] = 0
  BY <1>1, <1>2 DEF AcceptsTokens, A, Path
<1> HIDE DEF m
<1>4. /\ Found.rule = A.accept[Path[j]] /\ Found.rule # 0
      /\ \A k \in (j + 1)..Len(Rest) : A.accept[Path[k]] = 0
  BY DEF Longest
<1>5. m[2] = j
  <2>1. j \in (m[2] + 1)..Len(Rest) \/ m[2] \in (j + 1)..Len(Rest) \/ m[2] = j
    BY <1>1, <1>3
  <2> QED
    BY <1>3, <1>4, <2>1
<1> QED
  BY <1>3, <1>4, <1>5 DEF m

(* The characters of the tokenizer are the scanner's.                       *)
LEMMA SameCharacters == Rules!Characters = Characters
  BY Zenon DEF Rules!Characters, Characters, Rules!Letters, Letters, Rules!Signs, Signs,
     Rules!Capitals, Capitals, Rules!Spaces, Spaces

(* The same is done for every rule.                                         *)
LEMMA SameActions ==
    /\ \A p, r, w : Rules!Put(p, r, w) = Put(p, r, w)
    /\ \A p, r, w : Rules!Fetch(p, r, w) = Fetch(p, r, w)
    /\ \A p, r, cond : Rules!NextCondition(p, r, cond) = NextCondition(p, r, cond)
<1>1. \A w : Rules!CString(w) = CString(w)
  BY DEF Rules!CString, CString, Rules!SelectInSubSeq, SelectInSubSeq, Rules!Min, Min
<1>2. \A r, w : Rules!ImgPut(r, w) = ImgPut(r, w)
  BY DEF Rules!ImgPut, ImgPut, Rules!Base, Base, Rules!http, http
<1>3. \A r, w : Rules!CorrectPut(r, w) = CorrectPut(r, w)
  BY <1>1 DEF Rules!CorrectPut, CorrectPut, Rules!Printed, Printed
<1>4. \A p, r, w : Rules!Put(p, r, w) = Put(p, r, w)
  BY <1>2, <1>3 DEF Rules!Put, Put
<1>5. \A p, r, w : Rules!Fetch(p, r, w) = Fetch(p, r, w)
  BY DEF Rules!Fetch, Fetch
<1>6. \A p, r, cond : Rules!NextCondition(p, r, cond) = NextCondition(p, r, cond)
  BY DEF Rules!NextCondition, NextCondition, Rules!Begins, Begins, Rules!ImgBegins, ImgBegins,
     Rules!CorrectBegins, CorrectBegins
<1> QED
  BY <1>4, <1>5, <1>6

(* So a rule's text is a token.                                             *)
LEMMA DoRuleTakes == ASSUME ScanInv, Left, DoRule PROVE Rules!Take /\ Left'
<1>1. PICK j \in 1..Len(Rest) :
         /\ Longest(j) /\ SubSeq(buffer.ch, text + 1, Found.end) = SubSeq(Rest, 1, j)
         /\ Rest' = SubSeq(Rest, j + 1, Len(Rest))
  BY DoRuleIs
<1>2. prog \in Programs /\ Rest \in Text /\ Rest \in Seq(Characters) /\ prog' = prog /\ docs' = docs
  BY Basics DEF ScanInv, Reading, DoRule, world
<1>3. Rest # <<>>
  BY <1>1, <1>2
<1> DEFINE m == Rules!Token(prog, start, Rest)
           w == SubSeq(Rest, 1, j)
<1>4. m[1] = Found.rule /\ m[2] = j
  BY <1>1, <1>3, TokenIsLongest
<1>5. /\ files' = [files EXCEPT ![Len(files)] = @ \o Put(prog, Found.rule, w)]
      /\ fetched' = fetched \o Fetch(prog, Found.rule, w)
      /\ start' = NextCondition(prog, Found.rule, start)
  BY <1>1 DEF DoRule
<1> HIDE DEF m
<1>6. Rules!Act(prog, m[1], SubSeq(Rest, 1, m[2]))
  BY <1>4, <1>5, SameActions DEF Rules!Act
<1>7. Rest' = SubSeq(Rest, m[2] + 1, Len(Rest))
  BY <1>1, <1>4
<1>8. Rules!Take
  BY <1>2, <1>3, <1>6, <1>7 DEF Rules!Take, m
<1>9. Rest' \in Leftovers(prog)
  BY <1>1, <1>2, <1>3, DocumentsAreTexts, EndOfEnd DEF Left
<1> QED
  BY <1>2, <1>8, <1>9 DEF Left

(* Every other step leaves the document and what was done with it alone.    *)
LEMMA OthersStutter ==
    ASSUME ScanInv, Left,
           MatchCharacter \/ RealNul \/ EndOfBytes \/ GrowBuffer \/ FillBuffer
    PROVE  UNCHANGED <<prog, Rest, docs, start, files, fetched>> /\ Left'
<1>1. Rest' = Rest
  BY MatchCharacterKeeps, RealNulKeeps, EndOfBytesKeeps, GrowBufferKeeps, FillBufferKeeps
<1>2. UNCHANGED <<prog, docs, start, files, fetched>>
  BY DEF MatchCharacter, RealNul, EndOfBytes, GrowBuffer, FillBuffer, world, results
<1> QED
  BY <1>1, <1>2 DEF Left

(* Every step of yylex is one of the tokenizer or a stutter.                *)
LEMMA StepImplements ==
    ScanInv /\ Left /\ [Next]_vars => [Rules!Next]_(Rules!vars) /\ Left'
<1> SUFFICES ASSUME ScanInv, Left, [Next]_vars
             PROVE  (Rules!Next \/ UNCHANGED Rules!vars) /\ Left'
  OBVIOUS
<1>1. CASE ScanBytes
  BY <1>1, ScanBytesBegins DEF Rules!Next
<1>2. CASE ScanInput
  BY <1>2, ScanInputBegins DEF Rules!Next
<1>3. CASE DoRule
  BY <1>3, DoRuleTakes DEF Rules!Next
<1>4. CASE MatchCharacter \/ RealNul \/ EndOfBytes \/ GrowBuffer \/ FillBuffer
  BY <1>4, OthersStutter DEF Rules!vars
<1>5. CASE UNCHANGED vars
  <2>1. UNCHANGED <<prog, docs, input, buffer, text, start, files, fetched>>
    BY <1>5 DEF vars
  <2>2. Rest' = Rest
    BY <2>1, KeptRest
  <2> QED
    BY <2>1, <2>2 DEF Left, Rules!vars
<1> QED
  BY <1>1, <1>2, <1>3, <1>4, <1>5 DEF Next

(* The start.                                                               *)
LEMMA InitImplements == Init => Rules!Init /\ Left
<1> SUFFICES ASSUME Init PROVE Rules!Init /\ Left
  OBVIOUS
<1>1. Rest = <<>>
  BY DEF Init, NoBuffer, Rest, N
<1>2. PICK i \in Inputs : prog = i.prog /\ docs = i.docs
  BY DEF Init
<1>3. prog \in Programs /\ docs \in Seq(Text)
  BY <1>2, InputsAssumption
<1>4. \A k \in 1..Len(docs) : docs[k] \in Documents(prog)
  <2>1. \A k \in 1..Len(docs) : docs[k] \in ToSet(i.docs)
    BY <1>2, <1>3 DEF ToSet
  <2> QED
    BY <1>2, <2>1 DEF Documents
<1>5. Rules!Init
  BY <1>1, <1>3, SameCharacters DEF Init, Rules!Init, Text, Programs, Rules!Programs
<1> QED
  BY <1>1, <1>4, <1>5 DEF Left

(* The scanner implements the tokenizer: with tables that are those of the  *)
(* rules, it cuts every document into the texts of the rules and does what  *)
(* they say, however the input comes and the buffer is moved and grown.     *)
THEOREM Implementation == SafeSpec => ScansByRules
  BY InitImplements, StepImplements, ScanInvariant, PTL DEF SafeSpec, ScansByRules, Rules!Spec
=============================================================================
