---------------------------- MODULE Pipeline_proofs ----------------------------
(* Proofs about Pipeline, for texts, streams and buffers of any length.     *)
EXTENDS Pipeline, SequenceTheorems, WellFoundedInduction, TLAPS

(* A set of naturals that is not empty has a least element *)
LEMMA LeastNat ==
  ASSUME NEW S \in SUBSET Nat, S # {}
  PROVE  \E x \in S : \A y \in S : x <= y
<1> DEFINE Less == {pair \in Nat \X Nat : pair[1] < pair[2]}
<1>1. IsWellFoundedOn(Less, Nat)
  BY NatLessThanWellFounded, Zenon DEF OpToRel
<1>2. PICK x \in S : \A y \in S : ~ (<<y, x>> \in Less)
  BY <1>1, WFMin
<1>3. ASSUME NEW y \in S PROVE x <= y
  <2>1. x \in Nat /\ y \in Nat /\ ~ (y < x)
    BY <1>2
  <2>2. QED
    BY <2>1
<1>4. QED
  BY <1>3

(* Induction up to a bound: what holds of 0 and of each next one holds of all *)
LEMMA UpTo ==
  ASSUME NEW n \in Nat, NEW S, 0 \in S, \A i \in 1 .. n : i - 1 \in S => i \in S
  PROVE  0 .. n \subseteq S
<1> DEFINE Wrong == {i \in 0 .. n : i \notin S}
<1>1. SUFFICES ASSUME Wrong # {} PROVE FALSE
  OBVIOUS
<1>2. PICK i \in Wrong : \A j \in Wrong : i <= j
  <2>1. Wrong \in SUBSET Nat
    OBVIOUS
  <2> HIDE DEF Wrong
  <2>2. QED
    BY <1>1, <2>1, LeastNat
<1>3. i \in 1 .. n /\ i - 1 \in 0 .. n /\ ~ (i <= i - 1)
  BY <1>2
<1>4. QED
  BY <1>2, <1>3

-----------------------------------------------------------------------------
(* TelnetConn.  Where it is in an option sequence, what it has given or is
   about to give to its caller, and what it has written to the device: a
   configuration, which each byte of the stream takes to the next one.      *)
Byte  == Char \cup Option \cup Telnet!Verb \cup
         {Telnet!IAC, Telnet!SB, Telnet!SE, Telnet!NOP}
State == {"normal", "iac", "sbiac", Telnet!SB} \cup Telnet!Verb
Conf  == [state : State, buf : Seq(Byte), replies : Seq(Byte)]
At(s, b, r) == [state |-> s, buf |-> b, replies |-> r]

PathTo(f, c, w, n) ==
  f = [i \in 0 .. n |-> IF i = 0 THEN c ELSE Telnet!Filtered(f[i - 1], w[i])]
Reaches(c, w, d) == \E f : PathTo(f, c, w, Len(w)) /\ f[Len(w)] = d

(* What a byte does: the state it leads to, what it passes on, what it has
   written to the device.                                                   *)
NextState(s, b) ==
  CASE s = "normal"         -> IF b = Telnet!IAC THEN "iac" ELSE "normal"
    [] s = "iac"            -> IF b \in Telnet!Verb \cup {Telnet!SB} THEN b ELSE "normal"
    [] s \in Telnet!Verb    -> "normal"
    [] s = Telnet!SB        -> IF b = Telnet!IAC THEN "sbiac" ELSE Telnet!SB
    [] s = "sbiac"          -> IF b = Telnet!SE THEN "normal" ELSE Telnet!SB
Passed(s, b) ==
  IF (s = "normal" /\ b # Telnet!IAC) \/ (s = "iac" /\ b = Telnet!IAC) THEN <<b>> ELSE <<>>
Answered(s, b) ==
  IF s \in {Telnet!WILL, Telnet!WONT} THEN <<Telnet!IAC, Telnet!DONT, b>>
  ELSE IF s \in {Telnet!DO, Telnet!DONT} THEN <<Telnet!IAC, Telnet!WONT, b>>
  ELSE <<>>

LEMMA FilteredIs ==
  ASSUME NEW c \in Conf, NEW b \in Byte
  PROVE  Telnet!Filtered(c, b) =
           At(NextState(c.state, b), c.buf \o Passed(c.state, b),
              c.replies \o Answered(c.state, b))
<1> USE DEF Telnet!Verb, Telnet!IAC, Telnet!SB, Telnet!SE, Telnet!WILL, Telnet!WONT, Telnet!DO,
            Telnet!DONT
<1>1. /\ c = At(c.state, c.buf, c.replies)
      /\ c.state \in State /\ c.buf \in Seq(Byte) /\ c.replies \in Seq(Byte)
  BY DEF Conf, At
<1>2. /\ c.buf \o <<>> = c.buf /\ c.replies \o <<>> = c.replies
      /\ Append(c.buf, b) = c.buf \o <<b>>
  BY <1>1
<1>3. CASE c.state = "normal"
  BY <1>1, <1>2, <1>3 DEF Telnet!Filtered, NextState, Passed, Answered, At
<1>4. CASE c.state = "iac"
  BY <1>1, <1>2, <1>4 DEF Telnet!Filtered, NextState, Passed, Answered, At
<1>5. CASE c.state \in Telnet!Verb
  BY <1>1, <1>2, <1>5 DEF Telnet!Filtered, NextState, Passed, Answered, At
<1>6. CASE c.state = Telnet!SB
  BY <1>1, <1>2, <1>6 DEF Telnet!Filtered, NextState, Passed, Answered, At
<1>7. CASE c.state = "sbiac"
  BY <1>1, <1>2, <1>7 DEF Telnet!Filtered, NextState, Passed, Answered, At
<1>8. QED
  BY <1>1, <1>3, <1>4, <1>5, <1>6, <1>7 DEF State

LEMMA EffectType ==
  ASSUME NEW s, NEW b \in Byte
  PROVE  Passed(s, b) \in Seq(Byte) /\ Answered(s, b) \in Seq(Byte)
<1>1. Telnet!IAC \in Byte /\ Telnet!DONT \in Byte /\ Telnet!WONT \in Byte
  BY DEF Byte, Telnet!Verb
<1>2. Passed(s, b) \in Seq(Byte)
  BY DEF Passed
<1>3. Answered(s, b) \in Seq(Byte)
  BY <1>1 DEF Answered
<1>4. QED
  BY <1>2, <1>3

LEMMA FilteredType ==
  ASSUME NEW c \in Conf, NEW b \in Byte
  PROVE  Telnet!Filtered(c, b) \in Conf
<1>1. c.state \in State /\ c.buf \in Seq(Byte) /\ c.replies \in Seq(Byte)
  BY DEF Conf
<1>2. NextState(c.state, b) \in State
  BY <1>1 DEF NextState, State, Telnet!Verb, Telnet!IAC, Telnet!SB, Telnet!SE, Telnet!WILL,
         Telnet!WONT, Telnet!DO, Telnet!DONT
<1>3. Passed(c.state, b) \in Seq(Byte) /\ Answered(c.state, b) \in Seq(Byte)
  BY EffectType
<1>5. /\ c.buf \o Passed(c.state, b) \in Seq(Byte)
      /\ c.replies \o Answered(c.state, b) \in Seq(Byte)
  BY <1>1, <1>3
<1>6. \A x \in State, y, z \in Seq(Byte) : At(x, y, z) \in Conf
  BY DEF Conf, At
<1>7. QED
  BY <1>2, <1>5, <1>6, FilteredIs, Zenon

(* A path is what its steps are *)
LEMMA PathSteps ==
  ASSUME NEW f, NEW c, NEW w, NEW n \in Nat, PathTo(f, c, w, n)
  PROVE  f[0] = c /\ \A i \in 1 .. n : f[i] = Telnet!Filtered(f[i - 1], w[i])
<1>1. \A i \in 0 .. n : f[i] = IF i = 0 THEN c ELSE Telnet!Filtered(f[i - 1], w[i])
  BY Zenon DEF PathTo
<1>2. QED
  BY <1>1

LEMMA PathMade ==
  ASSUME NEW f, NEW c, NEW w, NEW n \in Nat,
         f = [i \in 0 .. n |-> f[i]], f[0] = c,
         \A i \in 1 .. n : f[i] = Telnet!Filtered(f[i - 1], w[i])
  PROVE  PathTo(f, c, w, n)
<1>1. ASSUME NEW i \in 0 .. n
      PROVE  f[i] = IF i = 0 THEN c ELSE Telnet!Filtered(f[i - 1], w[i])
  <2>1. i = 0 \/ i \in 1 .. n
    OBVIOUS
  <2>2. CASE i = 0
    BY <2>2, Zenon
  <2>3. CASE i # 0
    BY <2>1, <2>3, Zenon
  <2>4. QED
    BY <2>2, <2>3
<1>2. QED
  BY <1>1, Zenon DEF PathTo

LEMMA PathType ==
  ASSUME NEW c \in Conf, NEW w \in Seq(Byte), NEW n \in 0 .. Len(w), NEW f, PathTo(f, c, w, n)
  PROVE  \A i \in 0 .. n : f[i] \in Conf
<1> DEFINE Right == {i \in 0 .. n : f[i] \in Conf}
<1>0. n \in Nat
  OBVIOUS
<1>1. f[0] = c /\ \A i \in 1 .. n : f[i] = Telnet!Filtered(f[i - 1], w[i])
  BY <1>0, PathSteps
<1>2. 0 \in Right
  BY <1>1
<1>3. ASSUME NEW i \in 1 .. n, i - 1 \in Right PROVE i \in Right
  <2>1. w[i] \in Byte
    OBVIOUS
  <2>2. QED
    BY <1>1, <1>3, <2>1, FilteredType
<1>4. 0 .. n \subseteq Right
  <2> HIDE DEF Right
  <2>1. QED
    BY <1>0, <1>2, <1>3, UpTo
<1>5. QED
  BY <1>4

LEMMA PathExists ==
  ASSUME NEW c, NEW w, NEW n \in Nat
  PROVE  \E f : PathTo(f, c, w, n)
<1> DEFINE Has == {m \in 0 .. n : \E f : PathTo(f, c, w, m)}
<1>1. 0 \in Has
  <2> DEFINE g == [i \in 0 .. 0 |-> c]
  <2>1. g = [i \in 0 .. 0 |-> g[i]]
    OBVIOUS
  <2>2. g[0] = c /\ 0 \in Nat /\ 1 .. 0 = {}
    OBVIOUS
  <2>3. PathTo(g, c, w, 0)
    <3> HIDE DEF g
    <3>1. QED
      BY <2>1, <2>2, PathMade, Zenon
  <2>4. QED
    BY <2>3
<1>2. ASSUME NEW m \in 1 .. n, m - 1 \in Has PROVE m \in Has
  <2>1. PICK f : PathTo(f, c, w, m - 1)
    BY <1>2
  <2>2. /\ m - 1 \in Nat /\ m \in Nat /\ f[0] = c
        /\ \A i \in 1 .. m - 1 : f[i] = Telnet!Filtered(f[i - 1], w[i])
    BY <2>1, PathSteps
  <2> DEFINE one == Telnet!Filtered(f[m - 1], w[m])
             g == [i \in 0 .. m |-> IF i = m THEN one ELSE f[i]]
  <2>3. g[0] = c /\ g[m] = one /\ \A i \in 0 .. m - 1 : g[i] = f[i]
    BY <2>2
  <2>4. ASSUME NEW i \in 1 .. m PROVE g[i] = Telnet!Filtered(g[i - 1], w[i])
    <3> HIDE DEF g
    <3>1. CASE i = m
      BY <2>2, <2>3, <3>1
    <3>2. CASE i # m
      BY <2>2, <2>3, <3>2
    <3>3. QED
      BY <3>1, <3>2
  <2>5. g = [i \in 0 .. m |-> g[i]]
    OBVIOUS
  <2>6. PathTo(g, c, w, m)
    <3> HIDE DEF g
    <3>1. g[0] = c /\ \A i \in 1 .. m : g[i] = Telnet!Filtered(g[i - 1], w[i])
      BY <2>3, <2>4
    <3>2. m \in Nat
      BY <2>2
    <3>3. QED
      BY <2>5, <3>1, <3>2, PathMade, Zenon
  <2>7. QED
    BY <2>6
<1>3. 0 .. n \subseteq Has
  <2> HIDE DEF Has
  <2>1. QED
    BY <1>1, <1>2, UpTo
<1>4. QED
  BY <1>3

LEMMA Regroup ==
  ASSUME NEW x \in Seq(Byte), NEW y \in Seq(Byte), NEW z \in Seq(Byte)
  PROVE  (x \o y) \o z = x \o (y \o z)
BY ConcatAssociative

(* A sequence is its two parts *)
LEMMA TwoParts ==
  ASSUME NEW S, NEW p \in Seq(S), NEW q \in Seq(S), NEW r \in Seq(S), Len(r) = Len(p) + Len(q),
         \A i \in 1 .. Len(p) : r[i] = p[i], \A i \in 1 .. Len(q) : r[Len(p) + i] = q[i]
  PROVE  r = p \o q
<1> DEFINE m == Len(p)
           n == Len(q)
           c == p \o q
<1>1. m \in Nat /\ n \in Nat /\ c \in Seq(S) /\ Len(c) = m + n
  OBVIOUS
<1>2. (\A i \in 1 .. m : c[i] = p[i]) /\ (\A i \in 1 .. n : c[m + i] = q[i])
  OBVIOUS
<1> HIDE DEF c
<1>3. ASSUME NEW i \in 1 .. m + n PROVE r[i] = c[i]
  <2>1. CASE i <= m
    BY <1>1, <1>2, <2>1
  <2>2. CASE ~ (i <= m)
    <3>1. i - m \in 1 .. n /\ i = m + (i - m)
      BY <1>1, <2>2
    <3>2. r[m + (i - m)] = c[m + (i - m)]
      BY <1>2, <3>1
    <3>3. QED
      BY <3>1, <3>2
  <2>3. QED
    BY <2>1, <2>2
<1>4. r = c
  BY <1>1, <1>3, SeqEqual
<1>5. QED
  BY <1>4 DEF c

LEMMA SplitAt ==
  ASSUME NEW S, NEW t \in Seq(S), NEW n \in 0 .. Len(t)
  PROVE  /\ SubSeq(t, 1, n) \in Seq(S) /\ SubSeq(t, n + 1, Len(t)) \in Seq(S)
         /\ t = SubSeq(t, 1, n) \o SubSeq(t, n + 1, Len(t))
<1> DEFINE p == SubSeq(t, 1, n)
           q == SubSeq(t, n + 1, Len(t))
<1>1. p \in Seq(S) /\ Len(p) = n /\ \A i \in 1 .. n : t[i] = p[i]
  OBVIOUS
<1>2. q \in Seq(S) /\ Len(q) = Len(t) - n /\ \A i \in 1 .. Len(t) - n : t[n + i] = q[i]
  OBVIOUS
<1>3. Len(t) \in Nat /\ n \in Nat
  OBVIOUS
<1> HIDE DEF p, q
<1>4. Len(t) = Len(p) + Len(q)
  BY <1>1, <1>2, <1>3
<1>5. \A i \in 1 .. Len(p) : t[i] = p[i]
  BY <1>1
<1>6. \A i \in 1 .. Len(q) : t[Len(p) + i] = q[i]
  BY <1>1, <1>2
<1>7. t = p \o q
  BY <1>1, <1>2, <1>4, <1>5, <1>6, TwoParts
<1>8. QED
  BY <1>1, <1>2, <1>7 DEF p, q

(* Paths can be put together and be taken apart *)
LEMMA ReachesOn ==
  ASSUME NEW c, NEW d, NEW e, NEW w \in Seq(Byte), NEW v \in Seq(Byte),
         Reaches(c, w, d), Reaches(d, v, e)
  PROVE  Reaches(c, w \o v, e)
<1>1. PICK f : PathTo(f, c, w, Len(w)) /\ f[Len(w)] = d
  BY DEF Reaches
<1>2. PICK g : PathTo(g, d, v, Len(v)) /\ g[Len(v)] = e
  BY DEF Reaches
<1> DEFINE m == Len(w)
           n == Len(v)
           h == [i \in 0 .. m + n |-> IF i <= m THEN f[i] ELSE g[i - m]]
<1>3. /\ m \in Nat /\ n \in Nat /\ Len(w \o v) = m + n
      /\ \A i \in 1 .. m : (w \o v)[i] = w[i]
      /\ \A i \in 1 .. n : (w \o v)[m + i] = v[i]
  OBVIOUS
<1> HIDE DEF m, n
<1>4. /\ f[0] = c /\ f[m] = d /\ \A i \in 1 .. m : f[i] = Telnet!Filtered(f[i - 1], w[i])
  BY <1>1, <1>3, PathSteps DEF m
<1>5. /\ g[0] = d /\ g[n] = e /\ \A i \in 1 .. n : g[i] = Telnet!Filtered(g[i - 1], v[i])
  BY <1>2, <1>3, PathSteps DEF n
<1>6. h = [i \in 0 .. m + n |-> h[i]]
  OBVIOUS
<1>7. /\ \A i \in 0 .. m : h[i] = f[i]
      /\ \A i \in 0 .. n : h[m + i] = g[i]
  <2>1. \A i \in 0 .. m : h[i] = f[i]
    BY <1>3
  <2>2. ASSUME NEW i \in 0 .. n PROVE h[m + i] = g[i]
    <3>1. m + i \in 0 .. m + n /\ m + i - m = i /\ (m + i <= m <=> i = 0)
      BY <1>3
    <3> DEFINE j == m + i
    <3>2. h[j] = IF j <= m THEN f[j] ELSE g[j - m]
      <4>1. j \in 0 .. m + n
        BY <3>1
      <4> HIDE DEF j
      <4>2. QED
        BY <4>1
    <3> HIDE DEF h
    <3>3. CASE i = 0
      BY <1>3, <1>4, <1>5, <2>1, <3>3
    <3>4. CASE i # 0
      BY <1>3, <3>1, <3>2, <3>4
    <3>5. QED
      BY <3>3, <3>4
  <2>3. QED
    BY <2>1, <2>2
<1> HIDE DEF h
<1>8. h[0] = c /\ h[m + n] = e
  BY <1>3, <1>4, <1>5, <1>7
<1>9. ASSUME NEW i \in 1 .. m + n PROVE h[i] = Telnet!Filtered(h[i - 1], (w \o v)[i])
  <2>1. CASE i <= m
    <3>1. i \in 1 .. m /\ i \in 0 .. m /\ i - 1 \in 0 .. m
      BY <1>3, <2>1
    <3>2. QED
      BY <1>3, <1>4, <1>7, <3>1
  <2>2. CASE ~ (i <= m)
    <3> DEFINE j == i - m
    <3>1. j \in 1 .. n /\ j \in 0 .. n /\ j - 1 \in 0 .. n /\ i = m + j /\ i - 1 = m + (j - 1)
      BY <1>3, <2>2
    <3> HIDE DEF j
    <3>2. h[i] = g[j] /\ h[i - 1] = g[j - 1] /\ (w \o v)[i] = v[j]
      BY <1>3, <1>7, <3>1
    <3>3. QED
      BY <1>5, <3>1, <3>2
  <2>3. QED
    BY <2>1, <2>2
<1>10. PathTo(h, c, w \o v, m + n)
  <2>1. m + n \in Nat
    BY <1>3
  <2>2. QED
    BY <1>6, <1>8, <1>9, <2>1, PathMade, Zenon
<1>11. QED
  BY <1>3, <1>8, <1>10 DEF Reaches

LEMMA PathsAgree ==
  ASSUME NEW c, NEW w, NEW n \in Nat, NEW k \in 0 .. n, NEW f, NEW g,
         PathTo(f, c, w, n), PathTo(g, c, w, k)
  PROVE  \A i \in 0 .. k : g[i] = f[i]
<1> DEFINE Same == {i \in 0 .. k : g[i] = f[i]}
<1>1. /\ k \in Nat /\ f[0] = c /\ g[0] = c
      /\ \A i \in 1 .. n : f[i] = Telnet!Filtered(f[i - 1], w[i])
      /\ \A i \in 1 .. k : g[i] = Telnet!Filtered(g[i - 1], w[i])
  BY PathSteps
<1>2. 0 \in Same /\ \A i \in 1 .. k : i - 1 \in Same => i \in Same
  BY <1>1
<1>3. 0 .. k \subseteq Same
  <2> HIDE DEF Same
  <2>1. QED
    BY <1>1, <1>2, UpTo
<1>4. QED
  BY <1>3

LEMMA ReachesAfter ==
  ASSUME NEW c, NEW d, NEW w \in Seq(Byte), NEW k \in 0 .. Len(w), NEW g,
         Reaches(c, w, d), PathTo(g, c, w, k)
  PROVE  Reaches(g[k], SubSeq(w, k + 1, Len(w)), d)
<1>1. PICK f : PathTo(f, c, w, Len(w)) /\ f[Len(w)] = d
  BY DEF Reaches
<1>2. Len(w) \in Nat /\ k \in Nat /\ k \in 0 .. k
  OBVIOUS
<1>3. \A i \in 1 .. Len(w) : f[i] = Telnet!Filtered(f[i - 1], w[i])
  BY <1>1, <1>2, PathSteps
<1>4. g[k] = f[k]
  <2>1. \A i \in 0 .. k : g[i] = f[i]
    BY <1>1, <1>2, PathsAgree
  <2>2. QED
    BY <1>2, <2>1
<1> DEFINE n == Len(w) - k
           rest == SubSeq(w, k + 1, Len(w))
           h == [i \in 0 .. n |-> f[k + i]]
<1>5. /\ n \in Nat /\ k + n = Len(w) /\ Len(rest) = n
      /\ \A i \in 1 .. n : rest[i] = w[k + i]
  OBVIOUS
<1>6. /\ h = [i \in 0 .. n |-> h[i]] /\ \A i \in 0 .. n : h[i] = f[k + i]
  OBVIOUS
<1> HIDE DEF n, rest, h
<1>7. h[0] = g[k] /\ h[n] = d
  BY <1>1, <1>2, <1>4, <1>5, <1>6
<1>8. ASSUME NEW i \in 1 .. n PROVE h[i] = Telnet!Filtered(h[i - 1], rest[i])
  <2>1. k + i \in 1 .. Len(w) /\ k + i - 1 = k + (i - 1) /\ i \in 0 .. n /\ i - 1 \in 0 .. n
    BY <1>2, <1>5
  <2>2. QED
    BY <1>3, <1>5, <1>6, <2>1
<1>9. PathTo(h, g[k], rest, n)
  <2>1. h = [i \in 0 .. n |-> h[i]]
    BY <1>6
  <2>2. QED
    BY <1>5, <1>7, <1>8, <2>1, PathMade, Zenon
<1>10. QED
  BY <1>5, <1>7, <1>9 DEF Reaches, rest

(* What was passed on earlier makes no difference to what is passed on *)
LEMMA PathBehind ==
  ASSUME NEW c \in Conf, NEW x \in Seq(Byte), NEW w \in Seq(Byte), NEW n \in 0 .. Len(w),
         NEW f, NEW g, PathTo(f, c, w, n),
         PathTo(g, At(c.state, x \o c.buf, c.replies), w, n)
  PROVE  \A i \in 0 .. n : g[i] = At(f[i].state, x \o f[i].buf, f[i].replies)
<1> DEFINE Same == {i \in 0 .. n : g[i] = At(f[i].state, x \o f[i].buf, f[i].replies)}
<1>1. /\ n \in Nat /\ f[0] = c /\ g[0] = At(c.state, x \o c.buf, c.replies)
      /\ \A i \in 1 .. n : f[i] = Telnet!Filtered(f[i - 1], w[i])
      /\ \A i \in 1 .. n : g[i] = Telnet!Filtered(g[i - 1], w[i])
  BY PathSteps
<1>2. \A i \in 0 .. n : f[i] \in Conf
  BY PathType
<1>3. 0 \in Same
  BY <1>1
<1>4. ASSUME NEW i \in 1 .. n, i - 1 \in Same PROVE i \in Same
  <2> DEFINE a == f[i - 1]
             b == w[i]
             z == At(a.state, x \o a.buf, a.replies)
  <2>1. a \in Conf /\ b \in Byte /\ i \in 0 .. n /\ i - 1 \in 0 .. n
    BY <1>2
  <2>2. a.state \in State /\ a.buf \in Seq(Byte) /\ a.replies \in Seq(Byte)
    BY <2>1 DEF Conf
  <2>3. g[i - 1] = z /\ f[i] = Telnet!Filtered(a, b) /\ g[i] = Telnet!Filtered(z, b)
    BY <1>1, <1>4
  <2> HIDE DEF a, b
  <2>4. z \in Conf /\ z.state = a.state /\ z.buf = x \o a.buf /\ z.replies = a.replies
    BY <2>2 DEF Conf, At
  <2> HIDE DEF z
  <2>5. Passed(a.state, b) \in Seq(Byte)
    BY <2>1, EffectType
  <2> DEFINE nx == NextState(a.state, b)
             pa == Passed(a.state, b)
             an == a.replies \o Answered(a.state, b)
  <2>6. f[i] = At(nx, a.buf \o pa, an) /\ g[i] = At(nx, (x \o a.buf) \o pa, an)
    BY <2>1, <2>3, <2>4, FilteredIs
  <2>7. pa \in Seq(Byte)
    BY <2>5
  <2> HIDE DEF nx, pa, an
  <2>8. (x \o a.buf) \o pa = x \o (a.buf \o pa)
    BY <2>2, <2>7, Regroup
  <2>9. f[i].state = nx /\ f[i].buf = a.buf \o pa /\ f[i].replies = an
    BY <2>6 DEF At
  <2>10. QED
    BY <2>1, <2>6, <2>8, <2>9
<1>5. 0 .. n \subseteq Same
  <2> HIDE DEF Same
  <2>1. QED
    BY <1>1, <1>3, <1>4, UpTo
<1>6. QED
  BY <1>5

(* Nothing that was passed on or answered is taken back *)
Extends(t, u) == \E x \in Seq(Byte) : u = t \o x
Grows(c, d)   == Extends(c.buf, d.buf) /\ Extends(c.replies, d.replies)

LEMMA ExtendsOn ==
  ASSUME NEW t \in Seq(Byte), NEW u, NEW v, Extends(t, u), Extends(u, v)
  PROVE  Extends(t, v)
<1>1. PICK x \in Seq(Byte) : u = t \o x
  BY DEF Extends
<1>2. PICK y \in Seq(Byte) : v = u \o y
  BY DEF Extends
<1>3. v = (t \o x) \o y
  BY <1>1, <1>2
<1>4. (t \o x) \o y = t \o (x \o y)
  BY <1>1, <1>2, Regroup
<1>5. v = t \o (x \o y)
  BY <1>3, <1>4
<1>6. x \o y \in Seq(Byte)
  BY <1>1, <1>2
<1>7. QED
  BY <1>5, <1>6, Zenon DEF Extends

LEMMA StepGrows ==
  ASSUME NEW c \in Conf, NEW b \in Byte
  PROVE  Grows(c, Telnet!Filtered(c, b))
<1> DEFINE p == Passed(c.state, b)
           q == Answered(c.state, b)
           d == Telnet!Filtered(c, b)
<1>1. p \in Seq(Byte) /\ q \in Seq(Byte)
  BY EffectType
<1>2. d.buf = c.buf \o p /\ d.replies = c.replies \o q
  <2>1. d = At(NextState(c.state, b), c.buf \o p, c.replies \o q)
    BY FilteredIs, Zenon
  <2> HIDE DEF p, q, d
  <2>2. QED
    BY <2>1 DEF At
<1> HIDE DEF p, q, d
<1>3. Grows(c, d)
  BY <1>1, <1>2, Zenon DEF Grows, Extends
<1>4. QED
  BY <1>3 DEF d

LEMMA PathGrows ==
  ASSUME NEW c \in Conf, NEW w \in Seq(Byte), NEW d, Reaches(c, w, d)
  PROVE  Grows(c, d)
<1> DEFINE n == Len(w)
<1>1. PICK f : PathTo(f, c, w, n) /\ f[n] = d
  BY DEF Reaches
<1>2. n \in Nat /\ n \in 0 .. Len(w) /\ \A i \in 1 .. n : w[i] \in Byte
  OBVIOUS
<1>3. \A i \in 0 .. n : f[i] \in Conf
  BY <1>1, <1>2, PathType
<1>4. f[0] = c /\ \A i \in 1 .. n : f[i] = Telnet!Filtered(f[i - 1], w[i])
  BY <1>1, <1>2, PathSteps
<1>5. c.buf \in Seq(Byte) /\ c.replies \in Seq(Byte)
  BY DEF Conf
<1> HIDE DEF n
<1> DEFINE Grown == {i \in 0 .. n : Grows(c, f[i])}
<1>6. 0 \in Grown
  <2>1. c.buf = c.buf \o <<>> /\ c.replies = c.replies \o <<>> /\ <<>> \in Seq(Byte)
    BY <1>5
  <2>2. Grows(c, c)
    BY <2>1, Zenon DEF Grows, Extends
  <2>3. QED
    BY <1>2, <1>4, <2>2
<1>7. ASSUME NEW i \in 1 .. n, i - 1 \in Grown PROVE i \in Grown
  <2>1. f[i - 1] \in Conf /\ w[i] \in Byte /\ i \in 0 .. n
    BY <1>2, <1>3
  <2>2. Grows(c, f[i - 1]) /\ f[i] = Telnet!Filtered(f[i - 1], w[i])
    BY <1>4, <1>7
  <2>3. Grows(f[i - 1], f[i])
    BY <2>1, <2>2, StepGrows
  <2>4. Grows(c, f[i])
    BY <1>5, <2>2, <2>3, ExtendsOn, Zenon DEF Grows
  <2>5. QED
    BY <2>1, <2>4
<1>8. n \in Grown
  <2>1. n \in 0 .. n
    BY <1>2
  <2> HIDE DEF Grown
  <2>2. 0 .. n \subseteq Grown
    BY <1>2, <1>6, <1>7, UpTo
  <2>3. QED
    BY <2>1, <2>2
<1>9. QED
  BY <1>1, <1>8

LEMMA ReachesNothing ==
  ASSUME NEW c, NEW d
  PROVE  Reaches(c, <<>>, d) <=> d = c
<1>1. ASSUME NEW f, PathTo(f, c, <<>>, 0) PROVE f[0] = c
  BY <1>1, PathSteps
<1>2. PICK f : PathTo(f, c, <<>>, 0)
  BY PathExists
<1>3. Len(<<>>) = 0
  OBVIOUS
<1>4. QED
  BY <1>1, <1>2, <1>3 DEF Reaches

LEMMA ReachesByByte ==
  ASSUME NEW s \in State, NEW b \in Byte, NEW t \in Seq(Byte), NEW r \in Seq(Byte)
  PROVE  Reaches(At(s, t, r), <<b>>, At(NextState(s, b), t \o Passed(s, b), r \o Answered(s, b)))
<1> DEFINE c == At(s, t, r)
<1>1. c \in Conf /\ c.state = s /\ c.buf = t /\ c.replies = r
  BY DEF Conf, At
<1> HIDE DEF c
<1>2. PICK f : PathTo(f, c, <<b>>, 1)
  BY PathExists
<1>3. f[1] = Telnet!Filtered(c, b)
  <2>1. f[0] = c /\ \A i \in 1 .. 1 : f[i] = Telnet!Filtered(f[i - 1], <<b>>[i])
    BY <1>2, PathSteps
  <2>2. <<b>>[1] = b /\ 1 \in 1 .. 1 /\ 1 - 1 = 0
    OBVIOUS
  <2>3. QED
    BY <2>1, <2>2
<1>4. f[1] = At(NextState(s, b), t \o Passed(s, b), r \o Answered(s, b))
  BY <1>1, <1>3, FilteredIs
<1>5. Len(<<b>>) = 1
  OBVIOUS
<1>6. QED
  BY <1>2, <1>4, <1>5 DEF Reaches, c

-----------------------------------------------------------------------------
(* What the device sends, piece by piece *)
LEMMA BytesOfDevice ==
  /\ Char \subseteq Byte /\ Option \subseteq Byte /\ Telnet!Verb \subseteq Byte
  /\ {Telnet!IAC, Telnet!SB, Telnet!SE, Telnet!NOP, Telnet!DONT, Telnet!WONT} \subseteq Byte
  /\ "normal" \in State /\ "iac" \in State /\ "sbiac" \in State /\ Telnet!SB \in State
  /\ Telnet!Verb \subseteq State
  /\ Telnet!IAC \notin Char /\ Telnet!IAC \notin Option
BY PipelineAssumption DEF Telnet!TelnetAssumption, Byte, State, Telnet!Verb

LEMMA TextToken ==
  ASSUME NEW t \in Seq(Byte), NEW r \in Seq(Byte), NEW c \in Char
  PROVE  Reaches(At("normal", t, r), <<c>>, At("normal", t \o <<c>>, r))
<1>1. c \in Byte /\ c # Telnet!IAC /\ "normal" \in State
  BY BytesOfDevice
<1>2. NextState("normal", c) = "normal"
  BY <1>1 DEF NextState
<1>3. Passed("normal", c) = <<c>> /\ Answered("normal", c) = <<>>
  BY <1>1 DEF Passed, Answered, Telnet!WILL, Telnet!WONT, Telnet!DO, Telnet!DONT
<1>4. r \o <<>> = r
  OBVIOUS
<1>5. QED
  BY <1>1, <1>2, <1>3, <1>4, ReachesByByte

(* A byte in a sequence that is neither text nor answered *)
LEMMA SilentByte ==
  ASSUME NEW t \in Seq(Byte), NEW r \in Seq(Byte), NEW s \in State, NEW b \in Byte,
         Passed(s, b) = <<>>, Answered(s, b) = <<>>
  PROVE  Reaches(At(s, t, r), <<b>>, At(NextState(s, b), t, r))
<1>1. t \o <<>> = t /\ r \o <<>> = r
  OBVIOUS
<1>2. QED
  BY <1>1, ReachesByByte

LEMMA EscapeByte ==
  ASSUME NEW t \in Seq(Byte), NEW r \in Seq(Byte)
  PROVE  Reaches(At("normal", t, r), <<Telnet!IAC>>, At("iac", t, r))
<1>1. /\ NextState("normal", Telnet!IAC) = "iac" /\ Passed("normal", Telnet!IAC) = <<>>
      /\ Answered("normal", Telnet!IAC) = <<>>
  BY DEF NextState, Passed, Answered, Telnet!IAC, Telnet!WILL, Telnet!WONT, Telnet!DO, Telnet!DONT,
         Telnet!Verb, Telnet!SB
<1>2. Telnet!IAC \in Byte /\ "normal" \in State
  BY BytesOfDevice
<1>3. QED
  BY <1>1, <1>2, SilentByte

LEMMA EscapedToken ==
  ASSUME NEW t \in Seq(Byte), NEW r \in Seq(Byte)
  PROVE  Reaches(At("normal", t, r), <<Telnet!IAC, Telnet!IAC>>,
                 At("normal", t \o <<Telnet!IAC>>, r))
<1>1. Telnet!IAC \in Byte /\ "iac" \in State /\ r \o <<>> = r
  BY BytesOfDevice
<1>2. /\ NextState("iac", Telnet!IAC) = "normal" /\ Passed("iac", Telnet!IAC) = <<Telnet!IAC>>
      /\ Answered("iac", Telnet!IAC) = <<>>
  BY DEF NextState, Passed, Answered, Telnet!IAC, Telnet!WILL, Telnet!WONT, Telnet!DO, Telnet!DONT,
         Telnet!Verb, Telnet!SB
<1>3. Reaches(At("iac", t, r), <<Telnet!IAC>>, At("normal", t \o <<Telnet!IAC>>, r))
  BY <1>1, <1>2, ReachesByByte
<1>4. /\ <<Telnet!IAC, Telnet!IAC>> = <<Telnet!IAC>> \o <<Telnet!IAC>>
      /\ <<Telnet!IAC>> \in Seq(Byte)
  BY <1>1
<1>5. QED
  BY <1>3, <1>4, EscapeByte, ReachesOn

LEMMA CommandToken ==
  ASSUME NEW t \in Seq(Byte), NEW r \in Seq(Byte)
  PROVE  Reaches(At("normal", t, r), <<Telnet!IAC, Telnet!NOP>>, At("normal", t, r))
<1>1. Telnet!IAC \in Byte /\ Telnet!NOP \in Byte /\ "iac" \in State
  BY BytesOfDevice
<1>2. /\ NextState("iac", Telnet!NOP) = "normal" /\ Passed("iac", Telnet!NOP) = <<>>
      /\ Answered("iac", Telnet!NOP) = <<>>
  BY DEF NextState, Passed, Answered, Telnet!IAC, Telnet!NOP, Telnet!WILL, Telnet!WONT, Telnet!DO,
         Telnet!DONT, Telnet!Verb, Telnet!SB
<1>3. Reaches(At("iac", t, r), <<Telnet!NOP>>, At("normal", t, r))
  BY <1>1, <1>2, SilentByte
<1>4. /\ <<Telnet!IAC, Telnet!NOP>> = <<Telnet!IAC>> \o <<Telnet!NOP>>
      /\ <<Telnet!IAC>> \in Seq(Byte) /\ <<Telnet!NOP>> \in Seq(Byte)
  BY <1>1
<1>5. QED
  BY <1>3, <1>4, EscapeByte, ReachesOn

LEMMA Pair ==
  ASSUME NEW a \in Byte, NEW b \in Byte
  PROVE  <<a, b>> = <<a>> \o <<b>>
<1>1. <<a, b>> \in Seq(Byte) /\ <<a>> \o <<b>> \in Seq(Byte)
  OBVIOUS
<1>2. Len(<<a, b>>) = 2 /\ Len(<<a>> \o <<b>>) = 2
  OBVIOUS
<1>3. \A i \in 1 .. 2 : <<a, b>>[i] = (<<a>> \o <<b>>)[i]
  OBVIOUS
<1>4. QED
  BY <1>1, <1>2, <1>3, SeqEqual

LEMMA OneByOne ==
  ASSUME NEW a \in Byte, NEW b \in Byte, NEW c \in Byte
  PROVE  <<a, b, c>> = (<<a>> \o <<b>>) \o <<c>>
<1> DEFINE u == <<a, b, c>>
           v == (<<a>> \o <<b>>) \o <<c>>
<1>1. <<a>> \o <<b>> = <<a, b>>
  BY Pair
<1>2. u \in Seq(Byte) /\ v \in Seq(Byte)
  OBVIOUS
<1>3. Len(u) = 3 /\ Len(v) = 3
  BY <1>1
<1>4. \A i \in 1 .. 3 : u[i] = v[i]
  BY <1>1
<1>5. QED
  BY <1>2, <1>3, <1>4, SeqEqual

LEMMA OptionToken ==
  ASSUME NEW t \in Seq(Byte), NEW r \in Seq(Byte), NEW verb \in Telnet!Verb, NEW o \in Option
  PROVE  Reaches(At("normal", t, r), <<Telnet!IAC, verb, o>>,
                 At("normal", t, r \o <<Telnet!IAC, Telnet!Refusal(verb), o>>))
<1>1. /\ Telnet!IAC \in Byte /\ verb \in Byte /\ o \in Byte /\ "iac" \in State
      /\ verb \in State /\ t \o <<>> = t
  BY BytesOfDevice
<1> USE DEF Telnet!IAC, Telnet!WILL, Telnet!WONT, Telnet!DO, Telnet!DONT, Telnet!Verb, Telnet!SB
<1>2. /\ NextState("iac", verb) = verb /\ Passed("iac", verb) = <<>>
      /\ Answered("iac", verb) = <<>>
  BY DEF NextState, Passed, Answered
<1>3. /\ NextState(verb, o) = "normal" /\ Passed(verb, o) = <<>>
      /\ Answered(verb, o) = <<Telnet!IAC, Telnet!Refusal(verb), o>>
  BY DEF NextState, Passed, Answered, Telnet!Refusal
<1>4. Reaches(At("iac", t, r), <<verb>>, At(verb, t, r))
  BY <1>1, <1>2, SilentByte
<1> DEFINE answer == <<Telnet!IAC, Telnet!Refusal(verb), o>>
<1>5. Reaches(At(verb, t, r), <<o>>, At("normal", t, r \o answer))
  BY <1>1, <1>3, ReachesByByte
<1> HIDE DEF answer
<1>6. /\ <<Telnet!IAC>> \in Seq(Byte) /\ <<verb>> \in Seq(Byte) /\ <<o>> \in Seq(Byte)
      /\ <<Telnet!IAC>> \o <<verb>> \in Seq(Byte)
  BY <1>1
<1>7. <<Telnet!IAC, verb, o>> = (<<Telnet!IAC>> \o <<verb>>) \o <<o>>
  BY <1>1, OneByOne, Zenon
<1>8. Reaches(At("normal", t, r), <<Telnet!IAC>> \o <<verb>>, At(verb, t, r))
  BY <1>4, <1>6, EscapeByte, ReachesOn
<1>9. Reaches(At("normal", t, r), (<<Telnet!IAC>> \o <<verb>>) \o <<o>>,
              At("normal", t, r \o answer))
  BY <1>5, <1>6, <1>8, ReachesOn
<1>10. QED
  BY <1>7, <1>9 DEF answer

LEMMA InSubnegotiation ==
  ASSUME NEW t \in Seq(Byte), NEW r \in Seq(Byte), NEW o \in Option,
         NEW value \in {<<>>, <<Telnet!IAC, Telnet!IAC>>, <<Telnet!SE>>}
  PROVE  Reaches(At("normal", t, r),
                 <<Telnet!IAC, Telnet!SB, o>> \o value \o <<Telnet!IAC, Telnet!SE>>,
                 At("normal", t, r))
<1> DEFINE N == At("normal", t, r)  I == At("iac", t, r)
           B == At(Telnet!SB, t, r) Q == At("sbiac", t, r)
<1>1. /\ {Telnet!IAC, Telnet!SB, Telnet!SE, o} \subseteq Byte /\ o # Telnet!IAC
      /\ {"iac", "sbiac", Telnet!SB} \subseteq State
  BY BytesOfDevice
<1> USE DEF Telnet!IAC, Telnet!WILL, Telnet!WONT, Telnet!DO, Telnet!DONT, Telnet!Verb, Telnet!SB,
            Telnet!SE
<1>2. /\ NextState("iac", Telnet!SB) = Telnet!SB /\ NextState(Telnet!SB, o) = Telnet!SB
      /\ NextState(Telnet!SB, Telnet!SE) = Telnet!SB
      /\ NextState(Telnet!SB, Telnet!IAC) = "sbiac"
      /\ NextState("sbiac", Telnet!IAC) = Telnet!SB /\ NextState("sbiac", Telnet!SE) = "normal"
  BY <1>1 DEF NextState
<1>3. /\ Passed("iac", Telnet!SB) = <<>> /\ Answered("iac", Telnet!SB) = <<>>
      /\ \A b : Passed(Telnet!SB, b) = <<>> /\ Answered(Telnet!SB, b) = <<>>
      /\ \A b : Passed("sbiac", b) = <<>> /\ Answered("sbiac", b) = <<>>
  BY DEF Passed, Answered
<1>4. /\ Reaches(I, <<Telnet!SB>>, B) /\ Reaches(B, <<o>>, B) /\ Reaches(B, <<Telnet!SE>>, B)
      /\ Reaches(B, <<Telnet!IAC>>, Q) /\ Reaches(Q, <<Telnet!IAC>>, B)
      /\ Reaches(Q, <<Telnet!SE>>, N) /\ Reaches(N, <<Telnet!IAC>>, I) /\ Reaches(B, <<>>, B)
  <2>1. Reaches(I, <<Telnet!SB>>, B)
    BY <1>1, <1>2, <1>3, SilentByte
  <2>2. Reaches(B, <<o>>, B)
    BY <1>1, <1>2, <1>3, SilentByte
  <2>3. Reaches(B, <<Telnet!SE>>, B)
    BY <1>1, <1>2, <1>3, SilentByte
  <2>4. Reaches(B, <<Telnet!IAC>>, Q)
    BY <1>1, <1>2, <1>3, SilentByte
  <2>5. Reaches(Q, <<Telnet!IAC>>, B)
    BY <1>1, <1>2, <1>3, SilentByte
  <2>6. Reaches(Q, <<Telnet!SE>>, N)
    BY <1>1, <1>2, <1>3, SilentByte
  <2>7. Reaches(N, <<Telnet!IAC>>, I) /\ Reaches(B, <<>>, B)
    BY EscapeByte, ReachesNothing
  <2>8. QED
    BY <2>1, <2>2, <2>3, <2>4, <2>5, <2>6, <2>7
<1> HIDE DEF N, I, B, Q
<1>5. /\ <<Telnet!IAC>> \in Seq(Byte) /\ <<Telnet!SB>> \in Seq(Byte) /\ <<o>> \in Seq(Byte)
      /\ <<Telnet!SE>> \in Seq(Byte)
  BY <1>1
<1>6. Reaches(N, <<Telnet!IAC, Telnet!SB, o>>, B)
  <2>1. <<Telnet!IAC, Telnet!SB, o>> = (<<Telnet!IAC>> \o <<Telnet!SB>>) \o <<o>>
    OBVIOUS
  <2>2. <<Telnet!IAC>> \o <<Telnet!SB>> \in Seq(Byte)
    BY <1>1
  <2>3. Reaches(N, <<Telnet!IAC>> \o <<Telnet!SB>>, B)
    BY <1>4, <1>5, ReachesOn
  <2>4. QED
    BY <1>4, <1>5, <2>1, <2>2, <2>3, ReachesOn
<1>7. Reaches(B, value, B)
  <2>1. <<Telnet!IAC, Telnet!IAC>> = <<Telnet!IAC>> \o <<Telnet!IAC>>
    OBVIOUS
  <2>2. Reaches(B, <<Telnet!IAC, Telnet!IAC>>, B)
    BY <1>4, <1>5, <2>1, ReachesOn
  <2>3. QED
    BY <1>4, <2>2
<1>8. Reaches(B, <<Telnet!IAC, Telnet!SE>>, N)
  <2>1. <<Telnet!IAC, Telnet!SE>> = <<Telnet!IAC>> \o <<Telnet!SE>>
    OBVIOUS
  <2>2. QED
    BY <1>4, <1>5, <2>1, ReachesOn
<1>9. /\ <<Telnet!IAC, Telnet!SB, o>> \in Seq(Byte) /\ value \in Seq(Byte)
      /\ <<Telnet!IAC, Telnet!SE>> \in Seq(Byte)
      /\ <<Telnet!IAC, Telnet!SB, o>> \o value \in Seq(Byte)
  <2>1. <<Telnet!IAC, Telnet!SB, o>> \in Seq(Byte)
    BY <1>1
  <2>2. value \in Seq(Byte)
    <3>1. <<Telnet!IAC, Telnet!IAC>> \in Seq(Byte)
      BY <1>1
    <3>2. <<>> \in Seq(Byte)
      OBVIOUS
    <3>3. QED
      BY <1>5, <3>1, <3>2, Zenon
  <2>3. <<Telnet!IAC, Telnet!SE>> \in Seq(Byte)
    BY <1>1
  <2>4. <<Telnet!IAC, Telnet!SB, o>> \o value \in Seq(Byte)
    BY <2>1, <2>2
  <2>5. QED
    BY <2>1, <2>2, <2>3, <2>4
<1>10. Reaches(N, <<Telnet!IAC, Telnet!SB, o>> \o value, B)
  BY <1>6, <1>7, <1>9, ReachesOn
<1>11. QED
  BY <1>8, <1>9, <1>10, ReachesOn DEF N
-----------------------------------------------------------------------------
(* What is on the wire takes the connection to the end of a token, with all of
   the device's text passed on or waiting and all of its answers given.     *)
TelnetInv ==
  /\ wire \in Seq(Byte) /\ text \in Seq(Byte) /\ due \in Seq(Byte)
  /\ state \in State /\ buf \in Seq(Byte) /\ out \in Seq(Byte) /\ replies \in Seq(Byte)
  /\ Reaches(At(state, out \o buf, replies), wire, At("normal", text, due))

LEMMA TelnetStarts == Init => TelnetInv
<1> SUFFICES ASSUME Init PROVE TelnetInv
  OBVIOUS
<1>1. <<>> \in Seq(Byte) /\ <<>> \o <<>> = <<>> /\ "normal" \in State
  BY DEF State
<1>2. Reaches(At("normal", <<>>, <<>>), <<>>, At("normal", <<>>, <<>>))
  BY ReachesNothing
<1>3. QED
  BY <1>1, <1>2 DEF Init, Telnet!Init, TelnetInv

LEMMA TokenArrives ==
  ASSUME TelnetInv, NEW bytes \in Seq(Byte), NEW chars \in Seq(Byte), NEW answers \in Seq(Byte),
         Telnet!Sends(bytes, chars, answers),
         \A t, r \in Seq(Byte) :
           Reaches(At("normal", t, r), bytes, At("normal", t \o chars, r \o answers))
  PROVE  TelnetInv'
<1> DEFINE c == At(state, out \o buf, replies)
<1>1. /\ wire' = wire \o bytes /\ text' = text \o chars /\ due' = due \o answers
      /\ state' = state /\ buf' = buf /\ out' = out /\ replies' = replies
  BY DEF Telnet!Sends, Telnet!connVars
<1>2. /\ wire \in Seq(Byte) /\ text \in Seq(Byte) /\ due \in Seq(Byte)
      /\ Reaches(c, wire, At("normal", text, due))
  BY DEF TelnetInv
<1>3. Reaches(At("normal", text, due), bytes, At("normal", text', due'))
  BY <1>1, <1>2
<1> HIDE DEF c
<1>4. Reaches(c, wire', At("normal", text', due'))
  BY <1>1, <1>2, <1>3, ReachesOn
<1>5. wire' \in Seq(Byte) /\ text' \in Seq(Byte) /\ due' \in Seq(Byte)
  BY <1>1, <1>2
<1>6. Reaches(At(state, out \o buf, replies)', wire', At("normal", text, due)')
  BY <1>1, <1>4 DEF c
<1>7. QED
  BY <1>1, <1>5, <1>6 DEF TelnetInv

LEMMA DeviceKeeps == ASSUME TelnetInv, Telnet!Device PROVE TelnetInv'
<1>1. /\ <<>> \in Seq(Byte) /\ \A t \in Seq(Byte) : t \o <<>> = t
      /\ \A a, b \in Byte : <<a>> \in Seq(Byte) /\ <<a, b>> \in Seq(Byte)
      /\ \A a, b, c \in Byte : <<a, b, c>> \in Seq(Byte)
  OBVIOUS
<1>2. CASE Telnet!SendsText
  <2>1. ASSUME NEW c \in Char, Telnet!Sends(<<c>>, <<c>>, <<>>) PROVE TelnetInv'
    <3>1. <<c>> \in Seq(Byte) /\ <<>> \in Seq(Byte)
      BY <1>1, BytesOfDevice
    <3>2. ASSUME NEW t \in Seq(Byte), NEW r \in Seq(Byte)
          PROVE  Reaches(At("normal", t, r), <<c>>, At("normal", t \o <<c>>, r \o <<>>))
      <4>1. r \o <<>> = r
        BY <1>1
      <4>2. QED
        BY <4>1, TextToken
    <3>3. QED
      BY <2>1, <3>1, <3>2, TokenArrives
  <2>2. ASSUME Telnet!Sends(<<Telnet!IAC, Telnet!IAC>>, <<Telnet!IAC>>, <<>>) PROVE TelnetInv'
    <3>1. <<Telnet!IAC>> \in Seq(Byte) /\ <<Telnet!IAC, Telnet!IAC>> \in Seq(Byte)
      BY <1>1, BytesOfDevice
    <3>2. ASSUME NEW t \in Seq(Byte), NEW r \in Seq(Byte)
          PROVE  Reaches(At("normal", t, r), <<Telnet!IAC, Telnet!IAC>>,
                         At("normal", t \o <<Telnet!IAC>>, r \o <<>>))
      <4>1. r \o <<>> = r
        BY <1>1
      <4>2. QED
        BY <4>1, EscapedToken
    <3>3. QED
      BY <1>1, <2>2, <3>1, <3>2, TokenArrives
  <2>3. QED
    BY <1>2, <2>1, <2>2 DEF Telnet!SendsText
<1>3. CASE Telnet!Negotiates
  <2>1. PICK verb \in Telnet!Verb, o \in Option :
          Telnet!Sends(<<Telnet!IAC, verb, o>>, <<>>, <<Telnet!IAC, Telnet!Refusal(verb), o>>)
    BY <1>3 DEF Telnet!Negotiates
  <2> DEFINE answer == <<Telnet!IAC, Telnet!Refusal(verb), o>>
             bytes  == <<Telnet!IAC, verb, o>>
  <2>2. Telnet!Refusal(verb) \in Byte
    BY BytesOfDevice DEF Telnet!Refusal
  <2>3. answer \in Seq(Byte) /\ bytes \in Seq(Byte)
    BY <1>1, <2>2, BytesOfDevice
  <2>4. ASSUME NEW t \in Seq(Byte), NEW r \in Seq(Byte)
        PROVE  Reaches(At("normal", t, r), bytes, At("normal", t \o <<>>, r \o answer))
    <3>1. t \o <<>> = t
      BY <1>1
    <3>2. QED
      BY <3>1, OptionToken
  <2>5. Telnet!Sends(bytes, <<>>, answer)
    BY <2>1
  <2> HIDE DEF answer, bytes
  <2>6. QED
    BY <1>1, <2>3, <2>4, <2>5, TokenArrives
<1>4. CASE Telnet!Subnegotiates
  <2>1. PICK o \in Option, value \in {<<>>, <<Telnet!IAC, Telnet!IAC>>, <<Telnet!SE>>} :
          Telnet!Sends(<<Telnet!IAC, Telnet!SB, o>> \o value \o <<Telnet!IAC, Telnet!SE>>,
                       <<>>, <<>>)
    BY <1>4 DEF Telnet!Subnegotiates
  <2> DEFINE bytes == <<Telnet!IAC, Telnet!SB, o>> \o value \o <<Telnet!IAC, Telnet!SE>>
  <2>2. bytes \in Seq(Byte)
    <3>1. value \in Seq(Byte)
      <4>1. <<Telnet!IAC, Telnet!IAC>> \in Seq(Byte) /\ <<Telnet!SE>> \in Seq(Byte)
        BY <1>1, BytesOfDevice
      <4>2. QED
        BY <1>1, <4>1, Zenon
    <3>2. <<Telnet!IAC, Telnet!SB, o>> \in Seq(Byte) /\ <<Telnet!IAC, Telnet!SE>> \in Seq(Byte)
      BY <1>1, BytesOfDevice
    <3>3. QED
      BY <3>1, <3>2
  <2>3. ASSUME NEW t \in Seq(Byte), NEW r \in Seq(Byte)
        PROVE  Reaches(At("normal", t, r), bytes, At("normal", t \o <<>>, r \o <<>>))
    <3>1. t \o <<>> = t /\ r \o <<>> = r
      BY <1>1
    <3>2. Reaches(At("normal", t, r), bytes, At("normal", t, r))
      BY InSubnegotiation, Zenon
    <3>3. QED
      BY <3>1, <3>2
  <2>4. Telnet!Sends(bytes, <<>>, <<>>)
    BY <2>1
  <2> HIDE DEF bytes
  <2>5. QED
    BY <1>1, <2>2, <2>3, <2>4, TokenArrives
<1>5. CASE Telnet!Commands
  <2> DEFINE bytes == <<Telnet!IAC, Telnet!NOP>>
  <2>1. bytes \in Seq(Byte)
    BY <1>1, BytesOfDevice
  <2>2. ASSUME NEW t \in Seq(Byte), NEW r \in Seq(Byte)
        PROVE  Reaches(At("normal", t, r), bytes, At("normal", t \o <<>>, r \o <<>>))
    <3>1. t \o <<>> = t /\ r \o <<>> = r
      BY <1>1
    <3>2. QED
      BY <3>1, CommandToken
  <2>3. Telnet!Sends(bytes, <<>>, <<>>)
    BY <1>5 DEF Telnet!Commands
  <2> HIDE DEF bytes
  <2>4. QED
    BY <1>1, <2>1, <2>2, <2>3, TokenArrives
<1>6. QED
  BY <1>2, <1>3, <1>4, <1>5 DEF Telnet!Device

(* conn.Read and the loop: buf was empty, so the loop's configurations are those
   of the path, without what the caller has been given                       *)
LEMMA ReceiveKeeps == ASSUME TelnetInv, Telnet!Receive PROVE TelnetInv'
<1> DEFINE c == At(state, buf, replies)
<1>1. /\ wire \in Seq(Byte) /\ out \in Seq(Byte) /\ text \in Seq(Byte) /\ due \in Seq(Byte)
      /\ c \in Conf /\ c.state = state /\ c.buf = buf /\ c.replies = replies
      /\ Reaches(At(state, out \o buf, replies), wire, At("normal", text, due))
  BY DEF TelnetInv, At, Conf
<1>2. out' = out /\ text' = text /\ due' = due
  BY DEF Telnet!Receive, Telnet!deviceVars
<1>3. PICK n \in 1 .. Len(wire) :
        LET after[i \in 0 .. n] ==
              IF i = 0 THEN [state |-> Telnet!StateAtRead(state), buf |-> buf,
                             replies |-> replies]
              ELSE Telnet!Filtered(after[i - 1], wire[i])
            end == after[n]
        IN /\ wire' = SubSeq(wire, n + 1, Len(wire))
           /\ state' = end.state /\ buf' = end.buf /\ replies' = end.replies
  BY Zenon DEF Telnet!Receive
<1>4. n \in Nat /\ n \in 0 .. Len(wire)
  BY <1>1, <1>3
<1> DEFINE f == CHOOSE g : g = [i \in 0 .. n |->
                IF i = 0 THEN [state |-> Telnet!StateAtRead(state), buf |-> buf,
                               replies |-> replies]
                ELSE Telnet!Filtered(g[i - 1], wire[i])]
<1>5. PathTo(f, c, wire, n)
  <2>1. \E g : PathTo(g, c, wire, n)
    BY <1>4, PathExists
  <2>2. QED
    BY <2>1, Zenon DEF PathTo, At, Telnet!StateAtRead
<1>6. /\ wire' = SubSeq(wire, n + 1, Len(wire))
      /\ state' = f[n].state /\ buf' = f[n].buf /\ replies' = f[n].replies
  BY <1>3, Zenon
<1> HIDE DEF f
<1> HIDE DEF c
<1>7. f[n] \in Conf
  BY <1>1, <1>4, <1>5, PathType
<1> DEFINE d == At(c.state, out \o c.buf, c.replies)
<1>8. PICK g : PathTo(g, d, wire, n)
  BY <1>4, PathExists
<1>9. g[n] = At(f[n].state, out \o f[n].buf, f[n].replies)
  <2>1. \A i \in 0 .. n : g[i] = At(f[i].state, out \o f[i].buf, f[i].replies)
    BY <1>1, <1>4, <1>5, <1>8, PathBehind
  <2>2. n \in 0 .. n
    BY <1>4
  <2>3. QED
    BY <2>1, <2>2
<1>10. Reaches(g[n], wire', At("normal", text, due))
  <2>1. Reaches(d, wire, At("normal", text, due))
    BY <1>1
  <2> HIDE DEF d
  <2>2. QED
    BY <1>1, <1>4, <1>6, <1>8, <2>1, ReachesAfter
<1>11. Reaches(At(state, out \o buf, replies)', wire', At("normal", text, due)')
  BY <1>2, <1>6, <1>9, <1>10
<1>12. wire' \in Seq(Byte)
  BY <1>1, <1>4, <1>6
<1>13. state' \in State /\ buf' \in Seq(Byte) /\ replies' \in Seq(Byte)
  BY <1>6, <1>7 DEF Conf
<1>14. QED
  BY <1>1, <1>2, <1>11, <1>12, <1>13 DEF TelnetInv

LEMMA HandKeeps == ASSUME TelnetInv, Telnet!Hand PROVE TelnetInv'
<1>1. PICK n \in 1 .. Len(buf) :
        out' = out \o SubSeq(buf, 1, n) /\ buf' = SubSeq(buf, n + 1, Len(buf))
  BY DEF Telnet!Hand
<1>2. /\ wire' = wire /\ text' = text /\ due' = due /\ state' = state /\ replies' = replies
  BY DEF Telnet!Hand, Telnet!deviceVars
<1> DEFINE a == SubSeq(buf, 1, n)
           b == SubSeq(buf, n + 1, Len(buf))
<1>3. buf \in Seq(Byte) /\ out \in Seq(Byte)
  BY DEF TelnetInv
<1>4. n \in 0 .. Len(buf)
  BY <1>1, <1>3
<1>5. a \in Seq(Byte) /\ b \in Seq(Byte) /\ buf = a \o b
  BY <1>3, <1>4, SplitAt
<1> HIDE DEF a, b
<1>6. out' \o buf' = out \o buf
  <2>1. (out \o a) \o b = out \o (a \o b)
    BY <1>3, <1>5, Regroup
  <2>2. QED
    BY <1>1, <1>5, <2>1 DEF a, b
<1>7. out' \in Seq(Byte) /\ buf' \in Seq(Byte)
  BY <1>1, <1>3, <1>5 DEF a, b
<1>8. Reaches(At(state, out \o buf, replies)', wire', At("normal", text, due)')
  BY <1>2, <1>6 DEF TelnetInv
<1>9. QED
  BY <1>2, <1>7, <1>8 DEF TelnetInv
LEMMA ExtendsPrefix ==
  ASSUME NEW t \in Seq(Byte), NEW u, Extends(t, u)
  PROVE  Telnet!IsPrefix(t, u)
<1>1. PICK x \in Seq(Byte) : u = t \o x
  BY DEF Extends
<1>2. u \in Seq(Byte) /\ Len(u) = Len(t) + Len(x) /\ Len(t) \in Nat /\ Len(x) \in Nat
  BY <1>1
<1>3. \A i \in 1 .. Len(t) : u[i] = t[i]
  BY <1>1
<1> DEFINE p == SubSeq(t, 1, Len(t))
           q == SubSeq(u, 1, Len(t))
<1>4. /\ p \in Seq(Byte) /\ Len(p) = Len(t)
      /\ \A i \in 1 .. Len(t) : p[i] = t[i]
  BY <1>2
<1>5. /\ q \in Seq(Byte) /\ Len(q) = Len(t)
      /\ \A i \in 1 .. Len(t) : q[i] = u[i]
  BY <1>2
<1> HIDE DEF p, q
<1>6. p = q
  BY <1>3, <1>4, <1>5, SeqEqual
<1>7. QED
  BY <1>2, <1>6 DEF p, q, Telnet!IsPrefix

LEMMA PassedOn == TelnetInv => Telnet!TextIsPassedOn
<1> SUFFICES ASSUME TelnetInv PROVE Telnet!TextIsPassedOn
  OBVIOUS
<1> DEFINE c == At(state, out \o buf, replies)
           d == At("normal", text, due)
<1>1. out \o buf \in Seq(Byte) /\ replies \in Seq(Byte) /\ wire \in Seq(Byte) /\ Reaches(c, wire, d)
  BY DEF TelnetInv
<1>2. c \in Conf
  BY <1>1 DEF Conf, At, TelnetInv
<1>3. Grows(c, d)
  <2> HIDE DEF c, d
  <2>1. QED
    BY <1>1, <1>2, PathGrows
<1>4. Extends(out \o buf, text) /\ Extends(replies, due)
  BY <1>3 DEF Grows, At
<1>5. Telnet!IsPrefix(out \o buf, text) /\ Telnet!IsPrefix(replies, due)
  BY <1>1, <1>4, ExtendsPrefix
<1>6. ASSUME wire = <<>> PROVE out \o buf = text /\ replies = due /\ state = "normal"
  <2>1. Reaches(c, <<>>, d)
    BY <1>1, <1>6
  <2>2. d = c
    <3> HIDE DEF c, d
    <3>1. QED
      BY <2>1, ReachesNothing
  <2>3. d.state = c.state /\ d.buf = c.buf /\ d.replies = c.replies
    BY <2>2
  <2>4. QED
    BY <2>3 DEF At
<1>7. QED
  BY <1>5, <1>6 DEF Telnet!TextIsPassedOn

LEMMA TelnetSteps == ASSUME TelnetInv, Telnet!Next PROVE TelnetInv'
BY DeviceKeeps, ReceiveKeeps, HandKeeps DEF Telnet!Next, Telnet!Conn

ReadInv == pc = "telnet" => TelnetInv

LEMMA ReadSteps == ASSUME ReadInv, [Next]_vars PROVE ReadInv'
<1>1. CASE TelnetStep
  BY <1>1, TelnetSteps DEF ReadInv, TelnetStep
<1>2. CASE UNCHANGED vars
  BY <1>2 DEF ReadInv, TelnetInv, vars, telnetVars
<1>3. ASSUME Next, ~ TelnetStep PROVE pc' # "telnet"
  BY <1>3 DEF Next, FetchByTelnet, FetchBySSH, Encrypt, KeyInvalid, MaskStep
<1>4. QED
  BY <1>1, <1>2, <1>3 DEF ReadInv

(* However a Telnet stream is cut into segments and handed on, the agent gets
   the device's text and nothing of a negotiation, and the device gets one
   refusal for each option, whatever the device sends, in any order and to any
   length (TelnetConn.Read).                                                *)
THEOREM TelnetIsTransparent == Spec => []TextIsPassedOn
<1>1. Init => ReadInv
  BY TelnetStarts DEF ReadInv
<1>2. ReadInv /\ [Next]_vars => ReadInv'
  BY ReadSteps
<1>3. ReadInv => TextIsPassedOn
  BY PassedOn DEF ReadInv, TextIsPassedOn
<1>4. QED
  BY <1>1, <1>2, <1>3, PTL DEF Spec
-----------------------------------------------------------------------------
(* From the text to the packet.  What the agent has fetched is the device's
   text without its blank ends; from then on neither changes.               *)
LEMMA GreatestNat ==
  ASSUME NEW n \in Nat, NEW S \in SUBSET (0 .. n), S # {}
  PROVE  \E x \in S : \A y \in S : x >= y
<1> DEFINE T == {n - x : x \in S}
<1>1. T \in SUBSET Nat /\ T # {}
  <2>1. ASSUME NEW x \in S PROVE n - x \in Nat
    OBVIOUS
  <2>2. T \in SUBSET Nat
    BY <2>1
  <2>3. PICK x \in S : TRUE
    OBVIOUS
  <2>4. n - x \in T
    BY <2>3
  <2>5. QED
    BY <2>2, <2>4
<1>2. PICK m \in T : \A k \in T : m <= k
  <2> HIDE DEF T
  <2>1. QED
    BY <1>1, LeastNat
<1>3. PICK x \in S : m = n - x
  OBVIOUS
<1>4. ASSUME NEW y \in S PROVE x >= y
  <2>1. n - y \in T
    OBVIOUS
  <2>2. n - x <= n - y /\ x \in Nat /\ y \in Nat
    BY <1>2, <1>3, <2>1
  <2>3. QED
    BY <2>2
<1>5. QED
  BY <1>3, <1>4

LEMMA Trimmed ==
  ASSUME NEW t \in Seq(Byte), NEW inked, inked = {i \in 1 .. Len(t) : t[i] \notin Blank}
  PROVE  \/ inked = {} /\ TrimSpace(t) = <<>>
         \/ \E a, b \in inked : a <= b /\ TrimSpace(t) = SubSeq(t, a, b)
<1>1. CASE inked = {}
  BY <1>1 DEF TrimSpace
<1>2. CASE inked # {}
  <2>1. Len(t) \in Nat /\ inked \in SUBSET Nat /\ inked \in SUBSET (0 .. Len(t))
    OBVIOUS
  <2>2. \E x \in inked : \A y \in inked : x <= y
    BY <1>2, <2>1, LeastNat
  <2>3. \E x \in inked : \A y \in inked : x >= y
    BY <1>2, <2>1, GreatestNat
  <2>4. Min(inked) \in inked /\ \A y \in inked : Min(inked) <= y
    BY <2>2 DEF Min
  <2>5. Max(inked) \in inked
    BY <2>3 DEF Max
  <2>6. TrimSpace(t) = SubSeq(t, Min(inked), Max(inked))
    BY <1>2, Zenon DEF TrimSpace
  <2>7. QED
    BY <2>4, <2>5, <2>6
<1>3. QED
  BY <1>1, <1>2

LEMMA TrimType == ASSUME NEW t \in Seq(Byte) PROVE TrimSpace(t) \in Seq(Byte)
<1> DEFINE inked == {i \in 1 .. Len(t) : t[i] \notin Blank}
<1>1. \/ inked = {} /\ TrimSpace(t) = <<>>
      \/ \E a, b \in inked : a <= b /\ TrimSpace(t) = SubSeq(t, a, b)
  BY Trimmed, Zenon
<1>2. CASE TrimSpace(t) = <<>>
  BY <1>2
<1>3. ASSUME NEW a \in inked, NEW b \in inked, TrimSpace(t) = SubSeq(t, a, b)
      PROVE  TrimSpace(t) \in Seq(Byte)
  <2>1. a \in 1 .. Len(t) /\ b \in 1 .. Len(t)
    OBVIOUS
  <2>2. SubSeq(t, a, b) \in Seq(Byte)
    BY <2>1
  <2>3. QED
    BY <1>3, <2>2
<1>4. QED
  BY <1>1, <1>2, <1>3

Past == {"fetched", "failed", "masking", "done"}
MadeInv ==
  /\ ReadInv
  /\ agentKey \in Key \cup {BadKey}
  /\ pc \in Past => plain = TrimSpace(text) /\ plain \in Seq(Byte) /\ text \in Seq(Byte)
  /\ pc \in {"masking", "done"} =>
       agentKey \in Key /\ \E n \in Nonce : packet = P!EncryptConfig(plain, agentKey, n)

LEMMA MadeSteps == ASSUME MadeInv, [Next]_vars PROVE MadeInv'
<1> USE DEF MadeInv
<1>1. ReadInv'
  BY ReadSteps
<1>2. CASE TelnetStep
  BY <1>1, <1>2 DEF TelnetStep, Past
<1>3. CASE FetchByTelnet
  <2>1. TelnetInv /\ wire = <<>> /\ buf = <<>> /\ text' = text
    BY <1>3 DEF FetchByTelnet, ReadInv, telnetVars
  <2>2. out \o <<>> = text
    BY <2>1, PassedOn DEF Telnet!TextIsPassedOn
  <2>3. out = text /\ text \in Seq(Byte)
    BY <2>1, <2>2 DEF TelnetInv
  <2>4. plain' = TrimSpace(text') /\ plain' \in Seq(Byte) /\ text' \in Seq(Byte)
    <3>1. plain' = TrimSpace(out)
      BY <1>3 DEF FetchByTelnet
    <3>2. QED
      BY <2>1, <2>3, <3>1, TrimType
  <2>5. QED
    BY <1>1, <1>3, <2>4 DEF FetchByTelnet
<1>4. CASE FetchBySSH
  <2>1. PICK n \in 0 .. MaxText : \E t \in [1 .. n -> Char] :
          text' = t /\ out' = t /\ plain' = TrimSpace(t)
    BY <1>4 DEF FetchBySSH
  <2>2. PICK t \in [1 .. n -> Char] : text' = t /\ plain' = TrimSpace(t)
    BY <2>1
  <2>3. t \in Seq(Byte)
    <3>1. n \in Nat /\ Char \subseteq Byte
      BY PipelineAssumption DEF Byte
    <3>2. \A i \in 1 .. n : t[i] \in Byte
      BY <3>1
    <3>3. t \in [1 .. n -> Byte]
      BY <3>2
    <3>4. QED
      BY <3>1, <3>3
  <2>4. plain' = TrimSpace(text') /\ plain' \in Seq(Byte) /\ text' \in Seq(Byte)
    BY <2>2, <2>3, TrimType
  <2>5. QED
    BY <1>1, <1>4, <2>4 DEF FetchBySSH
<1>5. CASE Encrypt
  <2>1. PICK n \in Nonce : packet' = P!EncryptConfig(plain, agentKey, n)
    BY <1>5 DEF Encrypt
  <2>2. /\ pc = "fetched" /\ agentKey # BadKey /\ text' = text /\ plain' = plain
        /\ agentKey' = agentKey /\ pc' = "masking"
    BY <1>5 DEF Encrypt, telnetVars
  <2>3. QED
    BY <1>1, <2>1, <2>2 DEF Past
<1>6. CASE KeyInvalid
  BY <1>1, <1>6 DEF KeyInvalid, telnetVars, Past
<1>7. CASE MaskStep
  BY <1>1, <1>7 DEF MaskStep, telnetVars, Past
<1>8. CASE UNCHANGED vars
  BY <1>1, <1>8 DEF vars, telnetVars
<1>9. QED
  BY <1>2, <1>3, <1>4, <1>5, <1>6, <1>7, <1>8 DEF Next

LEMMA Recovered == MadeInv => TextIsRecovered
<1> SUFFICES ASSUME MadeInv, pc = "done", NEW key \in Key, NEW size \in 0 .. packet.size
             PROVE  LET result == P!Decrypt(P!Cut(packet, size), key)
                    IN IF size = packet.size
                         THEN IF key = agentKey THEN result = P!Opened(TrimSpace(text))
                              ELSE result = P!Failed("wrong key or corrupted")
                         ELSE result \in {P!Failed("too short"), P!Failed("invalid length")}
  BY Zenon DEF TextIsRecovered
<1> DEFINE file == P!Cut(packet, size)
           n == Len(plain)
<1>1. plain = TrimSpace(text) /\ n \in Nat
  BY DEF MadeInv, Past
<1>2. PICK nonce \in Nonce : packet = P!EncryptConfig(plain, agentKey, nonce)
  BY DEF MadeInv
<1>3. packet.size = 6 + n
  <2>1. packet.size = 5 + n + 1
    BY <1>2 DEF P!EncryptConfig, P!HeaderSize, P!Tag
  <2>2. QED
    BY <1>1, <2>1
<1>4. /\ file.size = size /\ file.magic = "XCONF" /\ file.cipherLen = n + 1
      /\ file.nonce = nonce
      /\ file.sealed = [key |-> agentKey, nonce |-> nonce, text |-> plain]
  BY <1>2 DEF P!EncryptConfig, P!Cut, P!Tag
<1>5. P!Decrypt(file, key) = P!DecryptConfig(file, key)
  BY PipelineAssumption DEF P!Decrypt, P!PacketAssumption
<1> HIDE DEF file, n
<1>6. size \in Nat /\ size <= 6 + n
  BY <1>1, <1>3
<1>7. CASE size = packet.size
  <2>1. ~ (file.size < P!HeaderSize) /\ P!Fits(file)
    BY <1>1, <1>3, <1>4, <1>7 DEF P!HeaderSize, P!Fits
  <2>2. P!DecryptConfig(file, key) = P!Open(file, key)
    BY <1>4, <2>1 DEF P!DecryptConfig
  <2>3. file.size = P!HeaderSize + Len(file.sealed.text) + P!Tag
    BY <1>1, <1>3, <1>4, <1>7 DEF P!HeaderSize, P!Tag, n
  <2>4. P!Open(file, key) = IF key = agentKey THEN P!Opened(plain)
                            ELSE P!Failed("wrong key or corrupted")
    BY <1>4, <2>3 DEF P!Open
  <2>5. QED
    BY <1>1, <1>5, <1>7, <2>2, <2>4 DEF file
<1>8. CASE size # packet.size
  <2>1. ~ P!Fits(file)
    BY <1>1, <1>3, <1>4, <1>6, <1>8 DEF P!HeaderSize, P!Fits
  <2>2. P!DecryptConfig(file, key) \in {P!Failed("too short"), P!Failed("invalid length")}
    BY <1>4, <2>1 DEF P!DecryptConfig
  <2>3. QED
    BY <1>5, <1>8, <2>2 DEF file
<1>9. QED
  BY <1>7, <1>8

(* A packet gives the device's text back to the key that sealed it, an error to
   any other, and a file cut anywhere is told apart from a wrong key, for a text
   of any length (EncryptConfig, DecryptConfig, TelnetConn.Read).           *)
THEOREM TextComesBack == Spec => []TextIsRecovered
<1>1. Init => MadeInv
  BY TelnetStarts DEF Init, MadeInv, ReadInv, Past
<1>2. MadeInv /\ [Next]_vars => MadeInv'
  BY MadeSteps
<1>3. MadeInv => TextIsRecovered
  BY Recovered
<1>4. QED
  BY <1>1, <1>2, <1>3, PTL DEF Spec

-----------------------------------------------------------------------------
(* The copy that is masked.  FlattenSeq, step by step *)
Cell == Byte \cup {Masker!MASKED}

Nil        == <<>>
Join(x, y) == x \o y
FlatTo(f, p, n) == f = [i \in 0 .. n |-> IF i = 0 THEN Nil ELSE Join(f[i - 1], p[i])]

LEMMA FlatSteps ==
  ASSUME NEW f, NEW p, NEW n \in Nat, FlatTo(f, p, n)
  PROVE  f[0] = Nil /\ \A i \in 1 .. n : f[i] = Join(f[i - 1], p[i])
<1>1. \A i \in 0 .. n : f[i] = IF i = 0 THEN Nil ELSE Join(f[i - 1], p[i])
  BY Zenon DEF FlatTo
<1>2. QED
  BY <1>1

LEMMA FlatMade ==
  ASSUME NEW f, NEW p, NEW n \in Nat,
         f = [i \in 0 .. n |-> f[i]], f[0] = Nil, \A i \in 1 .. n : f[i] = Join(f[i - 1], p[i])
  PROVE  FlatTo(f, p, n)
<1>1. ASSUME NEW i \in 0 .. n
      PROVE  f[i] = IF i = 0 THEN Nil ELSE Join(f[i - 1], p[i])
  <2>1. i = 0 \/ i \in 1 .. n
    OBVIOUS
  <2>2. CASE i = 0
    BY <2>2, Zenon
  <2>3. CASE i # 0
    BY <2>1, <2>3, Zenon
  <2>4. QED
    BY <2>2, <2>3
<1>2. QED
  BY <1>1, Zenon DEF FlatTo

LEMMA FlatExists ==
  ASSUME NEW p, NEW n \in Nat
  PROVE  \E f : FlatTo(f, p, n)
<1> DEFINE Has == {m \in 0 .. n : \E f : FlatTo(f, p, m)}
<1>1. 0 \in Has
  <2> DEFINE g == [i \in 0 .. 0 |-> Nil]
  <2>1. g = [i \in 0 .. 0 |-> g[i]]
    OBVIOUS
  <2>2. g[0] = Nil /\ 0 \in Nat /\ 1 .. 0 = {}
    OBVIOUS
  <2>3. FlatTo(g, p, 0)
    <3> HIDE DEF g
    <3>1. QED
      BY <2>1, <2>2, FlatMade, Zenon
  <2>4. QED
    BY <2>3
<1>2. ASSUME NEW m \in 1 .. n, m - 1 \in Has PROVE m \in Has
  <2>1. PICK f : FlatTo(f, p, m - 1)
    BY <1>2
  <2>2. /\ m - 1 \in Nat /\ m \in Nat /\ f[0] = Nil
        /\ \A i \in 1 .. m - 1 : f[i] = Join(f[i - 1], p[i])
    BY <2>1, FlatSteps
  <2> DEFINE one == Join(f[m - 1], p[m])
             g == [i \in 0 .. m |-> IF i = m THEN one ELSE f[i]]
  <2>3. g[0] = Nil /\ g[m] = one /\ \A i \in 0 .. m - 1 : g[i] = f[i]
    BY <2>2
  <2>4. ASSUME NEW i \in 1 .. m PROVE g[i] = Join(g[i - 1], p[i])
    <3> HIDE DEF g
    <3>1. CASE i = m
      BY <2>2, <2>3, <3>1
    <3>2. CASE i # m
      BY <2>2, <2>3, <3>2
    <3>3. QED
      BY <3>1, <3>2
  <2>5. g = [i \in 0 .. m |-> g[i]]
    OBVIOUS
  <2>6. FlatTo(g, p, m)
    <3> HIDE DEF g
    <3>1. g[0] = Nil /\ \A i \in 1 .. m : g[i] = Join(g[i - 1], p[i])
      BY <2>3, <2>4
    <3>2. m \in Nat
      BY <2>2
    <3>3. QED
      BY <2>5, <3>1, <3>2, FlatMade, Zenon
  <2>7. QED
    BY <2>6
<1>3. 0 .. n \subseteq Has
  <2> HIDE DEF Has
  <2>1. QED
    BY <1>1, <1>2, UpTo
<1>4. QED
  BY <1>3

LEMMA FlatType ==
  ASSUME NEW p \in Seq(Seq(Cell)), NEW f, NEW n \in 0 .. Len(p), FlatTo(f, p, n)
  PROVE  \A i \in 0 .. n : f[i] \in Seq(Cell)
<1> DEFINE Right == {i \in 0 .. n : f[i] \in Seq(Cell)}
<1>1. n \in Nat /\ f[0] = Nil /\ \A i \in 1 .. n : f[i] = Join(f[i - 1], p[i])
  BY FlatSteps
<1>2. 0 \in Right
  <2>1. Nil \in Seq(Cell)
    BY DEF Nil
  <2>2. 0 \in 0 .. n
    BY <1>1
  <2>3. QED
    BY <1>1, <2>1, <2>2
<1>3. ASSUME NEW i \in 1 .. n, i - 1 \in Right PROVE i \in Right
  <2>1. p[i] \in Seq(Cell) /\ f[i - 1] \in Seq(Cell) /\ i \in 0 .. n
    BY <1>3
  <2>2. Join(f[i - 1], p[i]) \in Seq(Cell)
    BY <2>1 DEF Join
  <2>3. QED
    BY <1>1, <2>1, <2>2
<1>4. 0 .. n \subseteq Right
  <2> HIDE DEF Right
  <2>1. QED
    BY <1>1, <1>2, <1>3, UpTo
<1>5. QED
  BY <1>4

LEMMA FlatIs ==
  ASSUME NEW p \in Seq(Seq(Cell)), NEW f, FlatTo(f, p, Len(p))
  PROVE  Masker!FlattenSeq(p) = f[Len(p)]
<1> DEFINE n == Len(p)
<1>1. /\ n \in Nat /\ n \in 0 .. Len(p)
      /\ f[0] = Nil /\ \A i \in 1 .. n : f[i] = Join(f[i - 1], p[i])
  BY FlatSteps
<1>2. CASE n = 0
  BY <1>1, <1>2 DEF Masker!FlattenSeq, Join, Nil
<1>3. CASE n # 0
  <2> DEFINE Makes(k) == k = [i \in 1 .. n |-> IF i = 1 THEN p[i] ELSE Join(k[i - 1], p[i])]
             g == CHOOSE k : Makes(k)
  <2>1. Masker!FlattenSeq(p) = g[n]
    BY <1>3, Zenon DEF Masker!FlattenSeq, Join, Nil
  <2>2. 1 \in 1 .. n /\ n \in 1 .. n /\ p[1] \in Seq(Cell)
    BY <1>1, <1>3
  <2>3. f[1] = p[1]
    <3>1. f[1] = Join(Nil, p[1])
      BY <1>1, <2>2
    <3>2. QED
      BY <2>2, <3>1 DEF Join, Nil
  <2> DEFINE h == [i \in 1 .. n |-> f[i]]
  <2>4. Makes(h)
    <3>1. ASSUME NEW i \in 1 .. n
          PROVE  h[i] = IF i = 1 THEN p[i] ELSE Join(h[i - 1], p[i])
      <4>1. CASE i = 1
        BY <2>2, <2>3, <4>1
      <4>2. CASE i # 1
        <5>1. i - 1 \in 1 .. n
          BY <1>1, <4>2
        <5>2. h[i] = f[i] /\ h[i - 1] = f[i - 1] /\ f[i] = Join(f[i - 1], p[i])
          BY <1>1, <5>1
        <5>3. QED
          BY <4>2, <5>2
      <4>3. QED
        BY <4>1, <4>2
    <3>2. h = [i \in 1 .. n |-> h[i]]
      OBVIOUS
    <3> HIDE DEF h
    <3>3. QED
      BY <3>1, <3>2, Zenon
  <2>5. Makes(g)
    <3> HIDE DEF Makes, h
    <3>1. QED
      BY <2>4, Zenon
  <2>6. \A i \in 1 .. n : g[i] = IF i = 1 THEN p[i] ELSE Join(g[i - 1], p[i])
    <3> HIDE DEF g
    <3>1. QED
      BY <2>5, Zenon
  <2> HIDE DEF g, h, Makes
  <2> DEFINE Same == {i \in 0 .. n : i = 0 \/ g[i] = f[i]}
  <2>7. 0 \in Same
    BY <1>1
  <2>8. ASSUME NEW i \in 1 .. n, i - 1 \in Same PROVE i \in Same
    <3>1. CASE i = 1
      BY <2>2, <2>3, <2>6, <3>1
    <3>2. CASE i # 1
      <4>1. i - 1 # 0 /\ g[i - 1] = f[i - 1] /\ i \in 0 .. n
        BY <1>1, <2>8, <3>2
      <4>2. QED
        BY <1>1, <2>6, <3>2, <4>1
    <3>3. QED
      BY <3>1, <3>2
  <2>9. n \in Same
    <3> HIDE DEF Same
    <3>1. 0 .. n \subseteq Same
      BY <1>1, <2>7, <2>8, UpTo
    <3>2. QED
      BY <1>1, <3>1
  <2>10. QED
    BY <1>3, <2>1, <2>9
<1>4. QED
  BY <1>2, <1>3
LEMMA JoinType ==
  ASSUME NEW x \in Seq(Cell), NEW y \in Seq(Cell)
  PROVE  Join(x, y) \in Seq(Cell)
BY DEF Join

LEMMA JoinOn ==
  ASSUME NEW x \in Seq(Cell), NEW y \in Seq(Cell), NEW z \in Seq(Cell)
  PROVE  Join(Join(x, y), z) = Join(x, Join(y, z))
BY ConcatAssociative DEF Join

LEMMA JoinNil ==
  ASSUME NEW x \in Seq(Cell)
  PROVE  Join(x, Nil) = x /\ Join(Nil, x) = x
BY DEF Join, Nil

LEMMA FlatConcat ==
  ASSUME NEW p \in Seq(Seq(Cell)), NEW q \in Seq(Seq(Cell))
  PROVE  Masker!FlattenSeq(p \o q) = Join(Masker!FlattenSeq(p), Masker!FlattenSeq(q))
<1> DEFINE m == Len(p)
           n == Len(q)
           r == p \o q
<1>1. /\ m \in Nat /\ n \in Nat /\ Len(r) = m + n /\ r \in Seq(Seq(Cell))
      /\ \A i \in 1 .. m : r[i] = p[i]
      /\ \A i \in 1 .. n : r[m + i] = q[i]
  OBVIOUS
<1> HIDE DEF r
<1>2. PICK f : FlatTo(f, p, m)
  BY <1>1, FlatExists
<1>3. PICK g : FlatTo(g, q, n)
  BY <1>1, FlatExists
<1>4. PICK h : FlatTo(h, r, m + n)
  <2>1. m + n \in Nat
    BY <1>1
  <2>2. QED
    BY <2>1, FlatExists
<1>5. Masker!FlattenSeq(p) = f[m] /\ Masker!FlattenSeq(q) = g[n]
  BY <1>2, <1>3, FlatIs
<1>6. Masker!FlattenSeq(r) = h[m + n]
  BY <1>1, <1>4, FlatIs
<1>7. m \in 0 .. Len(p) /\ n \in 0 .. Len(q) /\ m \in 0 .. m
  BY <1>1
<1>8. (\A i \in 0 .. m : f[i] \in Seq(Cell)) /\ (\A i \in 0 .. n : g[i] \in Seq(Cell))
  BY <1>2, <1>3, <1>7, FlatType
<1> HIDE DEF m, n
<1>9. /\ f[0] = Nil /\ \A i \in 1 .. m : f[i] = Join(f[i - 1], p[i])
      /\ g[0] = Nil /\ \A i \in 1 .. n : g[i] = Join(g[i - 1], q[i])
  BY <1>1, <1>2, <1>3, FlatSteps
<1>10. h[0] = Nil /\ \A i \in 1 .. m + n : h[i] = Join(h[i - 1], r[i])
  <2>1. m + n \in Nat
    BY <1>1
  <2>2. QED
    BY <1>4, <2>1, FlatSteps
<1>11. h[m] = f[m]
  <2> DEFINE Same == {i \in 0 .. m : h[i] = f[i]}
  <2>1. 0 \in Same /\ \A i \in 1 .. m : i - 1 \in Same => i \in Same
    BY <1>1, <1>9, <1>10
  <2>2. 0 .. m \subseteq Same
    <3> HIDE DEF Same
    <3>1. QED
      BY <1>1, <2>1, UpTo
  <2>3. QED
    BY <1>7, <2>2
<1> DEFINE Same == {i \in 0 .. n : h[m + i] = Join(f[m], g[i])}
<1>12. f[m] \in Seq(Cell)
  BY <1>7, <1>8
<1>13. 0 \in Same
  <2>1. m + 0 = m /\ 0 \in 0 .. n
    BY <1>1
  <2>2. Join(f[m], g[0]) = f[m]
    BY <1>9, <1>12, JoinNil
  <2>3. QED
    BY <1>11, <2>1, <2>2
<1>14. ASSUME NEW i \in 1 .. n, i - 1 \in Same PROVE i \in Same
  <2>1. m + i \in 1 .. m + n /\ m + i - 1 = m + (i - 1) /\ i \in 0 .. n /\ i - 1 \in 0 .. n
    BY <1>1
  <2>2. h[m + i] = Join(h[m + (i - 1)], q[i]) /\ g[i] = Join(g[i - 1], q[i])
    BY <1>1, <1>9, <1>10, <2>1
  <2>3. h[m + i] = Join(Join(f[m], g[i - 1]), q[i])
    BY <1>14, <2>2
  <2>4. q[i] \in Seq(Cell)
    BY DEF n
  <2>5. g[i - 1] \in Seq(Cell)
    BY <1>8, <2>1
  <2>6. Join(Join(f[m], g[i - 1]), q[i]) = Join(f[m], Join(g[i - 1], q[i]))
    BY <1>12, <2>4, <2>5, JoinOn
  <2>7. h[m + i] = Join(f[m], g[i])
    BY <2>2, <2>3, <2>6
  <2>8. QED
    BY <2>1, <2>7
<1>15. n \in Same
  <2>1. n \in Nat /\ n \in 0 .. n
    BY <1>1
  <2> HIDE DEF Same
  <2>2. 0 .. n \subseteq Same
    BY <1>13, <1>14, <2>1, UpTo
  <2>3. QED
    BY <2>1, <2>2
<1>16. QED
  BY <1>5, <1>6, <1>15 DEF r

LEMMA FlattenType ==
  ASSUME NEW p \in Seq(Seq(Cell))
  PROVE  Masker!FlattenSeq(p) \in Seq(Cell)
<1>1. Len(p) \in Nat /\ Len(p) \in 0 .. Len(p)
  OBVIOUS
<1>2. PICK f : FlatTo(f, p, Len(p))
  BY <1>1, FlatExists
<1>3. QED
  BY <1>1, <1>2, FlatIs, FlatType
-----------------------------------------------------------------------------
(* What a text shows, piece by piece *)
Piece(t, i) == IF ~ Masker!Hidden(t, i) THEN <<t[i]>>
               ELSE IF Masker!Hidden(t, i - 1) THEN <<>> ELSE <<Masker!MASKED>>
Pieces(t)   == [i \in 1 .. Len(t) |-> Piece(t, i)]

LEMMA PiecesType ==
  ASSUME NEW t \in Seq(Byte)
  PROVE  /\ Pieces(t) \in Seq(Seq(Cell)) /\ Len(Pieces(t)) = Len(t)
         /\ \A i \in 1 .. Len(t) : Pieces(t)[i] = Piece(t, i)
         /\ Masker!Shown(t) = Masker!FlattenSeq(Pieces(t))
         /\ Masker!Shown(t) \in Seq(Cell)
<1>1. Len(t) \in Nat
  OBVIOUS
<1>2. ASSUME NEW i \in 1 .. Len(t) PROVE Piece(t, i) \in Seq(Cell)
  <2>1. t[i] \in Cell /\ Masker!MASKED \in Cell
    BY DEF Cell
  <2>2. <<t[i]>> \in Seq(Cell) /\ <<Masker!MASKED>> \in Seq(Cell) /\ <<>> \in Seq(Cell)
    BY <2>1
  <2>3. QED
    BY <2>2, Zenon DEF Piece
<1>3. /\ Pieces(t) \in Seq(Seq(Cell)) /\ Len(Pieces(t)) = Len(t)
      /\ \A i \in 1 .. Len(t) : Pieces(t)[i] = Piece(t, i)
  BY <1>1, <1>2 DEF Pieces
<1>4. Masker!Shown(t) = Masker!FlattenSeq(Pieces(t))
  BY Zenon DEF Masker!Shown, Pieces, Piece
<1>5. QED
  BY <1>3, <1>4, FlattenType

LEMMA HiddenIs ==
  ASSUME NEW t, NEW i, NEW h, h = i - 1
  PROVE  Masker!Hidden(t, i) <=>
         /\ ~ Masker!EndsLine(t, i)
         /\ \E j \in 1 .. h : t[j] = Masker!KEY /\ \A k \in j .. i : t[k] # Masker!LF
BY Zenon DEF Masker!Hidden

LEMMA PieceIs ==
  ASSUME NEW t, NEW i, NEW h, h = i - 1
  PROVE  /\ ~ Masker!Hidden(t, i) => Piece(t, i) = <<t[i]>>
         /\ Masker!Hidden(t, i) /\ Masker!Hidden(t, h) => Piece(t, i) = <<>>
         /\ Masker!Hidden(t, i) /\ ~ Masker!Hidden(t, h) => Piece(t, i) = <<Masker!MASKED>>
BY Zenon DEF Piece

(* A line end cuts the text: what is behind it is shown as if it stood alone *)
LEMMA ShownSplit ==
  ASSUME NEW l \in Seq(Byte), NEW r \in Seq(Byte), Len(l) > 0, l[Len(l)] = Masker!LF
  PROVE  Masker!Shown(l \o r) = Join(Masker!Shown(l), Masker!Shown(r))
<1> DEFINE m == Len(l)
           n == Len(r)
           t == l \o r
<1>1. /\ m \in Nat /\ n \in Nat /\ m > 0 /\ Len(t) = m + n /\ t \in Seq(Byte)
      /\ \A i \in 1 .. m : t[i] = l[i]
      /\ \A i \in 1 .. n : t[m + i] = r[i]
      /\ l[m] = Masker!LF
  OBVIOUS
<1>0. Len(l) = m /\ Len(r) = n
  OBVIOUS
<1> HIDE DEF m, n, t
<1>2. ASSUME NEW i \in 1 .. m PROVE Masker!EndsLine(t, i) <=> Masker!EndsLine(l, i)
  <2>1. CASE i = m
    BY <1>1, <2>1 DEF Masker!EndsLine
  <2>2. CASE i # m
    <3>1. i + 1 \in 1 .. m /\ i # Len(t) /\ i # Len(l)
      BY <1>0, <1>1, <2>2
    <3>2. t[i] = l[i] /\ t[i + 1] = l[i + 1]
      BY <1>1, <3>1
    <3>3. QED
      BY <3>1, <3>2 DEF Masker!EndsLine
  <2>3. QED
    BY <2>1, <2>2
<1>3. ASSUME NEW i \in 1 .. n PROVE Masker!EndsLine(t, m + i) <=> Masker!EndsLine(r, i)
  <2>1. t[m + i] = r[i] /\ (m + i = Len(t) <=> i = Len(r))
    BY <1>0, <1>1
  <2>2. CASE i = n
    BY <1>0, <2>1, <2>2 DEF Masker!EndsLine
  <2>3. CASE i # n
    <3>1. i + 1 \in 1 .. n /\ m + i + 1 = m + (i + 1)
      BY <1>1, <2>3
    <3>2. t[m + i + 1] = r[i + 1]
      BY <1>1, <3>1
    <3>3. QED
      BY <2>1, <3>2 DEF Masker!EndsLine
  <2>4. QED
    BY <2>2, <2>3
<1>4. ASSUME NEW i \in 0 .. m PROVE Masker!Hidden(t, i) <=> Masker!Hidden(l, i)
  <2>1. CASE i = 0
    BY <2>1 DEF Masker!Hidden
  <2>2. CASE i # 0
    <3>1. i \in 1 .. m /\ \A j \in 1 .. i : j \in 1 .. m
      BY <1>1, <2>2
    <3>2. \A j \in 1 .. i : t[j] = l[j]
      BY <1>1, <3>1
    <3>3. ASSUME NEW j \in 1 .. i - 1
          PROVE  (t[j] = Masker!KEY /\ \A k \in j .. i : t[k] # Masker!LF) <=>
                 (l[j] = Masker!KEY /\ \A k \in j .. i : l[k] # Masker!LF)
      <4>1. j \in 1 .. i /\ \A k \in j .. i : k \in 1 .. i
        BY <3>1
      <4>2. QED
        BY <3>2, <4>1
    <3>4. QED
      BY <1>2, <3>1, <3>3 DEF Masker!Hidden
  <2>3. QED
    BY <2>1, <2>2
<1>5. ASSUME NEW i \in 0 .. n, i # 0 PROVE Masker!Hidden(t, m + i) <=> Masker!Hidden(r, i)
  <2>1. i \in 1 .. n
    BY <1>5
  <2>2. ASSUME NEW j \in 1 .. i - 1
        PROVE  (t[m + j] = Masker!KEY /\ \A k \in m + j .. m + i : t[k] # Masker!LF) <=>
               (r[j] = Masker!KEY /\ \A k \in j .. i : r[k] # Masker!LF)
    <3>1. j \in 1 .. n /\ t[m + j] = r[j]
      BY <1>1, <2>1
    <3>2. ASSUME NEW k \in m + j .. m + i PROVE k - m \in j .. i /\ t[k] = r[k - m]
      <4>1. k - m \in j .. i /\ k - m \in 1 .. n /\ k = m + (k - m)
        BY <1>1, <2>1
      <4>2. QED
        BY <1>1, <4>1
    <3>3. ASSUME NEW k \in j .. i PROVE m + k \in m + j .. m + i /\ t[m + k] = r[k]
      BY <1>1, <2>1
    <3>4. (\A k \in m + j .. m + i : t[k] # Masker!LF) <=> (\A k \in j .. i : r[k] # Masker!LF)
      BY <3>2, <3>3
    <3>5. QED
      BY <3>1, <3>4
  <2>3. ASSUME NEW j \in 1 .. m + i - 1, \A k \in j .. m + i : t[k] # Masker!LF
        PROVE  j - m \in 1 .. i - 1 /\ j = m + (j - m)
    <3>1. t[m] = Masker!LF
      BY <1>1
    <3>2. ~ (j <= m)
      BY <1>1, <2>1, <2>3, <3>1
    <3>3. QED
      BY <1>1, <2>1, <3>2
  <2>4. ASSUME NEW j \in 1 .. i - 1 PROVE m + j \in 1 .. m + i - 1
    BY <1>1, <2>1
  <2> DEFINE Before == \E j \in 1 .. m + i - 1 : t[j] = Masker!KEY
                                                  /\ \A k \in j .. m + i : t[k] # Masker!LF
             Behind == \E j \in 1 .. i - 1 : r[j] = Masker!KEY
                                                  /\ \A k \in j .. i : r[k] # Masker!LF
  <2>5. ASSUME Before PROVE Behind
    <3>1. PICK j \in 1 .. m + i - 1 : t[j] = Masker!KEY
                                   /\ \A k \in j .. m + i : t[k] # Masker!LF
      BY <2>5
    <3> DEFINE h == j - m
    <3>2. h \in 1 .. i - 1 /\ j = m + h
      BY <2>3, <3>1
    <3> HIDE DEF h
    <3>3. r[h] = Masker!KEY /\ \A k \in h .. i : r[k] # Masker!LF
      BY <2>2, <3>1, <3>2
    <3>4. QED
      BY <3>2, <3>3
  <2>6. ASSUME Behind PROVE Before
    <3>1. PICK j \in 1 .. i - 1 : r[j] = Masker!KEY /\ \A k \in j .. i : r[k] # Masker!LF
      BY <2>6
    <3>2. QED
      BY <2>2, <2>4, <3>1
  <2>7. Masker!EndsLine(t, m + i) <=> Masker!EndsLine(r, i)
    BY <1>3, <2>1
  <2>8. Masker!Hidden(t, m + i) <=> ~ Masker!EndsLine(t, m + i) /\ Before
    <3> DEFINE x == m + i
               h == m + i - 1
    <3>1. h = x - 1
      BY <1>1
    <3> HIDE DEF x, h
    <3>2. Masker!Hidden(t, x) <=>
            /\ ~ Masker!EndsLine(t, x)
            /\ \E j \in 1 .. h : t[j] = Masker!KEY /\ \A k \in j .. x : t[k] # Masker!LF
      BY <3>1, HiddenIs, Zenon
    <3>3. QED
      BY <3>2, Zenon DEF x, h
  <2>9. Masker!Hidden(r, i) <=> ~ Masker!EndsLine(r, i) /\ Behind
    BY Zenon DEF Masker!Hidden
  <2> HIDE DEF Before, Behind
  <2>10. QED
    BY <2>5, <2>6, <2>7, <2>8, <2>9
<1>6. ~ Masker!Hidden(r, 0) /\ ~ Masker!Hidden(r, 1)
  BY DEF Masker!Hidden
<1>7. ASSUME NEW i \in 1 .. m PROVE Piece(t, i) = Piece(l, i)
  <2>1. i \in 0 .. m /\ i - 1 \in 0 .. m /\ t[i] = l[i]
    BY <1>1
  <2>2. QED
    BY <1>4, <2>1 DEF Piece
<1>8. ASSUME NEW i \in 1 .. n PROVE Piece(t, m + i) = Piece(r, i)
  <2>1. Masker!Hidden(t, m + i) <=> Masker!Hidden(r, i)
    BY <1>1, <1>5
  <2>2. t[m + i] = r[i]
    BY <1>1
  <2>3. CASE i = 1
    <3>1. ~ Masker!Hidden(r, i) /\ ~ Masker!Hidden(t, m + i)
      BY <1>6, <2>1, <2>3
    <3>2. QED
      BY <2>2, <3>1 DEF Piece
  <2>4. CASE i # 1
    <3>1. i - 1 \in 0 .. n /\ i - 1 # 0 /\ m + i - 1 = m + (i - 1)
      BY <1>1, <2>4
    <3>2. Masker!Hidden(t, m + i - 1) <=> Masker!Hidden(r, i - 1)
      BY <1>5, <3>1
    <3> DEFINE x == m + i
               h == m + (i - 1)
               g == i - 1
    <3>3. h = x - 1 /\ g = i - 1
      BY <1>1
    <3>4. t[x] = r[i] /\ (Masker!Hidden(t, x) <=> Masker!Hidden(r, i))
          /\ (Masker!Hidden(t, h) <=> Masker!Hidden(r, g))
      BY <2>1, <2>2, <3>1, <3>2
    <3> HIDE DEF x, h, g
    <3>5. Piece(t, x) = Piece(r, i)
      <4>1. CASE ~ Masker!Hidden(r, i)
        BY <3>3, <3>4, <4>1, PieceIs, Zenon
      <4>2. CASE Masker!Hidden(r, i) /\ Masker!Hidden(r, g)
        BY <3>3, <3>4, <4>2, PieceIs, Zenon
      <4>3. CASE Masker!Hidden(r, i) /\ ~ Masker!Hidden(r, g)
        BY <3>3, <3>4, <4>3, PieceIs, Zenon
      <4>4. QED
        BY <4>1, <4>2, <4>3, Zenon
    <3>6. QED
      BY <3>5 DEF x
  <2>5. QED
    BY <2>3, <2>4
<1>9. Pieces(t) = Pieces(l) \o Pieces(r)
  <2> DEFINE a == Pieces(l)
             b == Pieces(r)
             c == Pieces(t)
  <2>1. /\ a \in Seq(Seq(Cell)) /\ Len(a) = m /\ \A i \in 1 .. m : a[i] = Piece(l, i)
        /\ b \in Seq(Seq(Cell)) /\ Len(b) = n /\ \A i \in 1 .. n : b[i] = Piece(r, i)
    BY <1>0, PiecesType
  <2>2. c \in Seq(Seq(Cell)) /\ Len(c) = m + n /\ \A i \in 1 .. m + n : c[i] = Piece(t, i)
    BY <1>1, PiecesType
  <2> HIDE DEF a, b, c
  <2>3. \A i \in 1 .. m : c[i] = a[i]
    BY <1>1, <1>7, <2>1, <2>2
  <2>4. \A i \in 1 .. n : c[m + i] = b[i]
    BY <1>1, <1>8, <2>1, <2>2
  <2>5. c = a \o b
    <3> DEFINE S == Seq(Cell)
    <3>1. a \in Seq(S) /\ b \in Seq(S) /\ c \in Seq(S)
      BY <2>1, <2>2
    <3>2. Len(a) = m /\ Len(b) = n /\ Len(c) = Len(a) + Len(b)
      BY <2>1, <2>2
    <3> HIDE DEF S
    <3>3. QED
      BY <2>3, <2>4, <3>1, <3>2, TwoParts
  <2>6. QED
    BY <2>5 DEF a, b, c
<1>10. QED
  <2>1. Masker!FlattenSeq(Pieces(l) \o Pieces(r)) =
        Join(Masker!FlattenSeq(Pieces(l)), Masker!FlattenSeq(Pieces(r)))
    BY PiecesType, FlatConcat
  <2>2. Masker!Shown(t) = Join(Masker!Shown(l), Masker!Shown(r))
    BY <1>1, <1>9, <2>1, PiecesType
  <2>3. QED
    BY <2>2 DEF t
-----------------------------------------------------------------------------
(* One line *)
LEMMA FlatWhen ==
  ASSUME NEW p \in Seq(Seq(Cell)), NEW g, g = [i \in 0 .. Len(p) |-> g[i]], g[0] = Nil,
         \A i \in 1 .. Len(p) : g[i] = Join(g[i - 1], p[i])
  PROVE  Masker!FlattenSeq(p) = g[Len(p)]
<1>1. Len(p) \in Nat
  OBVIOUS
<1>2. FlatTo(g, p, Len(p))
  BY <1>1, FlatMade, Zenon
<1>3. QED
  BY <1>2, FlatIs

LEMMA SubSnoc ==
  ASSUME NEW t \in Seq(Cell), NEW i \in 1 .. Len(t), NEW j \in 1 .. i
  PROVE  /\ SubSeq(t, j, i) = Join(SubSeq(t, j, i - 1), <<t[i]>>)
         /\ SubSeq(t, j, i) \in Seq(Cell) /\ SubSeq(t, j, i - 1) \in Seq(Cell)
<1> DEFINE p == SubSeq(t, j, i - 1)
           q == <<t[i]>>
           r == SubSeq(t, j, i)
<1>1. p \in Seq(Cell) /\ Len(p) = i - j /\ \A k \in 1 .. i - j : p[k] = t[j + k - 1]
  OBVIOUS
<1>2. r \in Seq(Cell) /\ Len(r) = i - j + 1 /\ \A k \in 1 .. i - j + 1 : r[k] = t[j + k - 1]
  OBVIOUS
<1>3. q \in Seq(Cell) /\ Len(q) = 1 /\ q[1] = t[i]
  OBVIOUS
<1>4. i - j \in Nat /\ j + (i - j + 1) - 1 = i
  OBVIOUS
<1> HIDE DEF p, q, r
<1>5. \A k \in 1 .. Len(p) : r[k] = p[k]
  BY <1>1, <1>2, <1>4
<1>6. \A k \in 1 .. Len(q) : r[Len(p) + k] = q[k]
  BY <1>1, <1>2, <1>3, <1>4
<1>7. Len(r) = Len(p) + Len(q)
  BY <1>1, <1>2, <1>3
<1>8. r = p \o q
  BY <1>1, <1>2, <1>3, <1>5, <1>6, <1>7, TwoParts
<1>9. QED
  BY <1>1, <1>2, <1>8 DEF p, q, r, Join

LEMMA ByteCell == ASSUME NEW t \in Seq(Byte) PROVE t \in Seq(Cell)
BY DEF Cell

LEMMA ShownPlain ==
  ASSUME NEW t \in Seq(Byte), \A i \in 1 .. Len(t) : ~ Masker!Hidden(t, i)
  PROVE  Masker!Shown(t) = t
<1> DEFINE n == Len(t)
           p == Pieces(t)
           g == [i \in 0 .. n |-> SubSeq(t, 1, i)]
<1>1. n \in Nat /\ t \in Seq(Cell) /\ SubSeq(t, 1, n) = t /\ SubSeq(t, 1, 0) = Nil
  BY ByteCell DEF Nil
<1>2. /\ p \in Seq(Seq(Cell)) /\ Len(p) = n /\ \A i \in 1 .. n : p[i] = Piece(t, i)
      /\ Masker!Shown(t) = Masker!FlattenSeq(p)
  BY PiecesType
<1> HIDE DEF p
<1>3. ASSUME NEW i \in 1 .. n PROVE g[i] = Join(g[i - 1], p[i])
  <2>1. p[i] = <<t[i]>>
    BY <1>2 DEF Piece
  <2>2. g[i] = SubSeq(t, 1, i) /\ g[i - 1] = SubSeq(t, 1, i - 1) /\ 1 \in 1 .. i
    BY <1>1
  <2>3. SubSeq(t, 1, i) = Join(SubSeq(t, 1, i - 1), <<t[i]>>)
    BY <1>1, <2>2, SubSnoc
  <2> HIDE DEF g
  <2>4. QED
    BY <2>1, <2>2, <2>3
<1>4. g[0] = Nil /\ g[n] = t /\ g = [i \in 0 .. n |-> g[i]]
  BY <1>1
<1> HIDE DEF g
<1>5. Masker!FlattenSeq(p) = g[Len(p)]
  <2>1. g = [i \in 0 .. Len(p) |-> g[i]] /\ \A i \in 1 .. Len(p) : g[i] = Join(g[i - 1], p[i])
    BY <1>2, <1>3, <1>4, Zenon
  <2>2. QED
    BY <1>2, <1>4, <2>1, FlatWhen, Zenon
<1>6. QED
  BY <1>2, <1>4, <1>5

LEMMA ShownCut ==
  ASSUME NEW t \in Seq(Byte), NEW b \in 1 .. Len(t), NEW a \in 1 .. b - 1,
         \A i \in 1 .. Len(t) : Masker!Hidden(t, i) <=> (a < i /\ i <= b)
  PROVE  Masker!Shown(t) = Join(Join(SubSeq(t, 1, a), <<Masker!MASKED>>), SubSeq(t, b + 1, Len(t)))
<1> DEFINE n == Len(t)
           p == Pieces(t)
           head == Join(SubSeq(t, 1, a), <<Masker!MASKED>>)
           g == [i \in 0 .. n |-> IF i <= a THEN SubSeq(t, 1, i)
                                  ELSE IF i <= b THEN head ELSE Join(head, SubSeq(t, b + 1, i))]
<1>1. n \in Nat /\ t \in Seq(Cell) /\ a \in Nat /\ b \in Nat /\ a < b /\ b <= n /\ 1 <= a
  BY ByteCell
<1>2. /\ p \in Seq(Seq(Cell)) /\ Len(p) = n /\ \A i \in 1 .. n : p[i] = Piece(t, i)
      /\ Masker!Shown(t) = Masker!FlattenSeq(p)
  BY PiecesType
<1>3. SubSeq(t, 1, 0) = Nil /\ SubSeq(t, b + 1, b) = Nil
  BY <1>1 DEF Nil
<1>4. head \in Seq(Cell)
  <2>1. SubSeq(t, 1, a) \in Seq(Cell) /\ <<Masker!MASKED>> \in Seq(Cell)
    BY <1>1 DEF Cell
  <2>2. QED
    BY <2>1, JoinType
<1>5. Join(head, Nil) = head
  BY <1>4, JoinNil
<1> HIDE DEF p
<1>6. /\ \A i \in 0 .. a : g[i] = SubSeq(t, 1, i)
      /\ \A i \in a + 1 .. b : g[i] = head
      /\ \A i \in b + 1 .. n : g[i] = Join(head, SubSeq(t, b + 1, i))
  <2>1. ASSUME NEW i \in 0 .. a PROVE g[i] = SubSeq(t, 1, i)
    <3>1. i \in 0 .. n /\ i <= a
      BY <1>1
    <3>2. QED
      BY <3>1, Zenon
  <2>2. ASSUME NEW i \in a + 1 .. b PROVE g[i] = head
    <3>1. i \in 0 .. n /\ ~ (i <= a) /\ i <= b
      BY <1>1
    <3>2. QED
      BY <3>1, Zenon
  <2>3. ASSUME NEW i \in b + 1 .. n PROVE g[i] = Join(head, SubSeq(t, b + 1, i))
    <3>1. i \in 0 .. n /\ ~ (i <= a) /\ ~ (i <= b)
      BY <1>1
    <3>2. QED
      BY <3>1, Zenon
  <2>4. QED
    BY <2>1, <2>2, <2>3
<1>7. g[b] = Join(head, SubSeq(t, b + 1, b))
  <2>1. b \in a + 1 .. b
    BY <1>1
  <2> HIDE DEF g, head
  <2>2. QED
    BY <1>3, <1>5, <1>6, <2>1, Zenon
<1>8. g = [i \in 0 .. n |-> g[i]]
  BY Zenon
<1> HIDE DEF g
<1>9. ASSUME NEW i \in 1 .. n PROVE g[i] = Join(g[i - 1], p[i])
  <2> DEFINE h == i - 1
  <2>1. /\ h = i - 1 /\ p[i] = Piece(t, i)
        /\ Masker!Hidden(t, i) <=> (a < i /\ i <= b)
        /\ i > 1 => (Masker!Hidden(t, h) <=> (a < h /\ h <= b))
    BY <1>1, <1>2
  <2>2. CASE i <= a
    <3>1. p[i] = <<t[i]>>
      BY <1>1, <2>1, <2>2, PieceIs
    <3>2. g[i] = SubSeq(t, 1, i) /\ g[i - 1] = SubSeq(t, 1, i - 1) /\ 1 \in 1 .. i
      <4>1. i \in 0 .. a /\ i - 1 \in 0 .. a /\ 1 \in 1 .. i
        BY <1>1, <2>2
      <4>2. QED
        BY <1>6, <4>1, Zenon
    <3>3. SubSeq(t, 1, i) = Join(SubSeq(t, 1, i - 1), <<t[i]>>)
      BY <1>1, <3>2, SubSnoc
    <3>4. QED
      BY <3>1, <3>2, <3>3, Zenon
  <2>3. CASE i = a + 1
    <3>1. Masker!Hidden(t, i) /\ ~ Masker!Hidden(t, h) /\ h = a
      BY <1>1, <2>1, <2>3
    <3>2. p[i] = <<Masker!MASKED>>
      BY <2>1, <3>1, PieceIs, Zenon
    <3>3. a \in 0 .. a /\ i \in a + 1 .. b /\ i - 1 = a
      BY <1>1, <2>3
    <3>4. g[i] = head /\ g[i - 1] = SubSeq(t, 1, a)
      BY <1>6, <3>3, Zenon
    <3>5. QED
      BY <3>2, <3>4, Zenon
  <2>4. CASE a + 1 < i /\ i <= b
    <3>1. Masker!Hidden(t, i) /\ Masker!Hidden(t, h)
      BY <1>1, <2>1, <2>4
    <3>2. p[i] = Nil
      BY <2>1, <3>1, PieceIs, Zenon DEF Nil
    <3>3. i \in a + 1 .. b /\ i - 1 \in a + 1 .. b
      BY <1>1, <2>4
    <3>4. g[i] = head /\ g[i - 1] = head
      BY <1>6, <3>3, Zenon
    <3>5. QED
      BY <1>5, <3>2, <3>4, Zenon
  <2>5. CASE b < i
    <3>1. p[i] = <<t[i]>>
      <4>1. ~ Masker!Hidden(t, i)
        BY <1>1, <2>1, <2>5
      <4>2. QED
        BY <2>1, <4>1, PieceIs, Zenon
    <3>2. g[i] = Join(head, SubSeq(t, b + 1, i))
      <4>1. i \in b + 1 .. n
        BY <1>1, <2>5
      <4>2. QED
        BY <1>6, <4>1, Zenon
    <3>3. g[i - 1] = Join(head, SubSeq(t, b + 1, i - 1))
      <4>1. i - 1 = b \/ i - 1 \in b + 1 .. n
        BY <1>1, <2>5
      <4>2. QED
        BY <1>6, <1>7, <4>1, Zenon
    <3>4. b + 1 \in 1 .. i
      BY <1>1, <2>5
    <3>5. /\ SubSeq(t, b + 1, i) = Join(SubSeq(t, b + 1, i - 1), <<t[i]>>)
          /\ SubSeq(t, b + 1, i - 1) \in Seq(Cell)
      BY <1>1, <3>4, SubSnoc
    <3>6. <<t[i]>> \in Seq(Cell)
      BY <1>1
    <3> DEFINE mid == SubSeq(t, b + 1, i - 1)
               one == <<t[i]>>
    <3> HIDE DEF mid, one, head
    <3>7. Join(Join(head, mid), one) = Join(head, Join(mid, one))
      BY <1>4, <3>5, <3>6, JoinOn DEF mid, one
    <3>8. QED
      BY <3>1, <3>2, <3>3, <3>5, <3>7, Zenon DEF mid, one
  <2>6. QED
    BY <1>1, <2>2, <2>3, <2>4, <2>5
<1>10. g[0] = Nil
  <2>1. 0 \in 0 .. a
    BY <1>1
  <2>2. QED
    BY <1>3, <1>6, <2>1, Zenon
<1>11. Masker!FlattenSeq(p) = g[n]
  <2>1. g = [i \in 0 .. Len(p) |-> g[i]] /\ \A i \in 1 .. Len(p) : g[i] = Join(g[i - 1], p[i])
    BY <1>2, <1>8, <1>9, Zenon
  <2>2. Masker!FlattenSeq(p) = g[Len(p)]
    BY <1>2, <1>10, <2>1, FlatWhen, Zenon
  <2>3. QED
    BY <1>2, <2>2
<1>12. g[n] = Join(head, SubSeq(t, b + 1, n))
  <2>1. n = b \/ n \in b + 1 .. n
    BY <1>1
  <2>2. QED
    BY <1>6, <1>7, <2>1, Zenon
<1>13. QED
  BY <1>2, <1>11, <1>12, Zenon
LEMMA MaskLineIs ==
  ASSUME NEW u \in Seq(Byte)
  PROVE  \/ (\A i \in 1 .. Len(u) : u[i] # Masker!KEY) /\ Masker!MaskLine(u) = u
         \/ \E a \in 1 .. Len(u) :
              /\ u[a] = Masker!KEY /\ \A i \in 1 .. a - 1 : u[i] # Masker!KEY
              /\ Masker!MaskLine(u) = IF a = Len(u) THEN u
                                      ELSE SubSeq(u, 1, a) \o <<Masker!MASKED>>
<1> DEFINE keys == {i \in 1 .. Len(u) : u[i] = Masker!KEY}
           at == IF keys # {} THEN Masker!Min(keys) ELSE 0
<1>1. Masker!MaskLine(u) = IF at = 0 \/ at = Len(u) THEN u
                           ELSE SubSeq(u, 1, at) \o <<Masker!MASKED>>
  BY Zenon DEF Masker!MaskLine, Masker!SelectInSeq
<1>2. keys \in SUBSET Nat
  OBVIOUS
<1> HIDE DEF keys
<1>3. CASE keys = {}
  <2>1. at = 0 /\ \A i \in 1 .. Len(u) : u[i] # Masker!KEY
    BY <1>3 DEF keys
  <2>2. QED
    BY <1>1, <2>1, Zenon
<1>4. CASE keys # {}
  <2>1. \E x \in keys : \A y \in keys : x <= y
    BY <1>2, <1>4, LeastNat
  <2>2. at \in keys /\ \A y \in keys : at <= y
    BY <1>4, <2>1 DEF Masker!Min
  <2> HIDE DEF at
  <2>3. at \in 1 .. Len(u) /\ u[at] = Masker!KEY /\ at # 0
    BY <2>2 DEF keys
  <2>4. ASSUME NEW i \in 1 .. at - 1 PROVE u[i] # Masker!KEY
    <3>1. i \in 1 .. Len(u) /\ ~ (at <= i)
      BY <2>3
    <3>2. QED
      BY <2>2, <3>1 DEF keys
  <2>5. QED
    BY <1>1, <2>3, <2>4, Zenon
<1>5. QED
  BY <1>3, <1>4

LEMMA LineLenIs ==
  ASSUME NEW t \in Seq(Byte)
  PROVE  \/ (\A i \in 1 .. Len(t) : t[i] # Masker!LF) /\ Masker!LineLen(t) = Len(t)
         \/ /\ Masker!LineLen(t) \in 1 .. Len(t) /\ t[Masker!LineLen(t)] = Masker!LF
            /\ \A i \in 1 .. Masker!LineLen(t) - 1 : t[i] # Masker!LF
<1> DEFINE ends == {i \in 1 .. Len(t) : t[i] = Masker!LF}
           at == IF ends # {} THEN Masker!Min(ends) ELSE 0
           len == Masker!LineLen(t)
<1>1. len = IF at = 0 THEN Len(t) ELSE at
  BY Zenon DEF Masker!LineLen, Masker!SelectInSeq
<1>2. ends \in SUBSET Nat
  OBVIOUS
<1> HIDE DEF ends, len
<1>3. CASE ends = {}
  <2>1. at = 0 /\ \A i \in 1 .. Len(t) : t[i] # Masker!LF
    BY <1>3 DEF ends
  <2>2. QED
    BY <1>1, <2>1 DEF len
<1>4. CASE ends # {}
  <2>1. \E x \in ends : \A y \in ends : x <= y
    BY <1>2, <1>4, LeastNat
  <2>2. at \in ends /\ \A y \in ends : at <= y
    BY <1>4, <2>1 DEF Masker!Min
  <2> HIDE DEF at
  <2>3. at \in 1 .. Len(t) /\ t[at] = Masker!LF /\ at # 0
    BY <2>2 DEF ends
  <2>4. ASSUME NEW i \in 1 .. at - 1 PROVE t[i] # Masker!LF
    <3>1. i \in 1 .. Len(t) /\ ~ (at <= i)
      BY <2>3
    <3>2. QED
      BY <2>2, <3>1 DEF ends
  <2>5. len = at
    BY <1>1, <2>3
  <2>6. QED
    BY <2>3, <2>4, <2>5 DEF len
<1>5. QED
  BY <1>3, <1>4

(* A suffix that is cut off and put back *)
LEMMA TrimIs ==
  ASSUME NEW u \in Seq(Byte), NEW c
  PROVE  \/ /\ Len(u) > 0 /\ u[Len(u)] = c
            /\ Masker!TrimSuffix(u, c) = SubSeq(u, 1, Len(u) - 1) /\ Masker!Suffix(u, c) = <<c>>
         \/ /\ Len(u) = 0 \/ u[Len(u)] # c
            /\ Masker!TrimSuffix(u, c) = u /\ Masker!Suffix(u, c) = <<>>
<1>1. u # <<>> <=> Len(u) > 0
  OBVIOUS
<1>2. CASE Len(u) > 0 /\ u[Len(u)] = c
  BY <1>1, <1>2, Zenon DEF Masker!TrimSuffix, Masker!Suffix, Masker!Last, Masker!Front
<1>3. CASE ~ (Len(u) > 0 /\ u[Len(u)] = c)
  <2>1. Len(u) = 0 \/ u[Len(u)] # c
    BY <1>3
  <2>2. ~ (u # <<>> /\ Masker!Last(u) = c)
    BY <1>1, <1>3 DEF Masker!Last
  <2>3. Masker!TrimSuffix(u, c) = u /\ Masker!Suffix(u, c) = <<>>
    BY <2>2, Zenon DEF Masker!TrimSuffix, Masker!Suffix
  <2>4. QED
    BY <2>1, <2>3
<1>4. QED
  BY <1>2, <1>3

(* A line: its text up to b, and its end *)
IsLine(t) == Len(t) > 0 /\ \A i \in 1 .. Len(t) - 1 : t[i] # Masker!LF
Bare(t)   == Masker!TrimSuffix(Masker!TrimSuffix(t, Masker!LF), Masker!CR)
End(t)    ==
  Masker!Suffix(Masker!TrimSuffix(t, Masker!LF), Masker!CR) \o Masker!Suffix(t, Masker!LF)

LEMMA LineShape ==
  ASSUME NEW t \in Seq(Byte), IsLine(t)
  PROVE  \E b \in 0 .. Len(t) :
           /\ Bare(t) = SubSeq(t, 1, b) /\ End(t) = SubSeq(t, b + 1, Len(t))
           /\ \A i \in 1 .. Len(t) : Masker!EndsLine(t, i) <=> i > b
<1> DEFINE n == Len(t)
           u == Masker!TrimSuffix(t, Masker!LF)
           v == Masker!TrimSuffix(u, Masker!CR)
           x == Masker!Suffix(u, Masker!CR)
           y == Masker!Suffix(t, Masker!LF)
<1>1. n \in Nat /\ n > 0 /\ \A i \in 1 .. n - 1 : t[i] # Masker!LF
  BY DEF IsLine
<1>2. Masker!LF # Masker!CR
  BY DEF Masker!LF, Masker!CR
<1>3. \/ t[n] = Masker!LF /\ u = SubSeq(t, 1, n - 1) /\ y = <<Masker!LF>>
      \/ t[n] # Masker!LF /\ u = t /\ y = <<>>
  BY <1>1, TrimIs
<1>4. u \in Seq(Byte)
  <2>1. SubSeq(t, 1, n - 1) \in Seq(Byte)
    BY <1>1
  <2> HIDE DEF u
  <2>2. QED
    BY <1>3, <2>1
<1>5. \/ Len(u) > 0 /\ u[Len(u)] = Masker!CR /\ v = SubSeq(u, 1, Len(u) - 1) /\ x = <<Masker!CR>>
      \/ (Len(u) = 0 \/ u[Len(u)] # Masker!CR) /\ v = u /\ x = <<>>
  <2> HIDE DEF u
  <2>1. QED
    BY <1>4, TrimIs
<1> HIDE DEF n, u, v, x, y
<1>6. \A i \in 1 .. n : Masker!EndsLine(t, i) <=>
        t[i] = Masker!LF \/ (t[i] = Masker!CR /\ (i = n \/ t[i + 1] = Masker!LF))
  BY DEF Masker!EndsLine, n
<1>7. CASE t[n] = Masker!LF
  <2>1. u = SubSeq(t, 1, n - 1) /\ y = <<Masker!LF>>
    BY <1>3, <1>7
  <2>2. Len(u) = n - 1 /\ \A i \in 1 .. n - 1 : u[i] = t[i]
    BY <1>1, <2>1 DEF n
  <2>3. CASE Len(u) > 0 /\ u[Len(u)] = Masker!CR
    <3>1. n - 1 > 0 /\ t[n - 1] = Masker!CR /\ v = SubSeq(u, 1, n - 2) /\ x = <<Masker!CR>>
      BY <1>1, <1>5, <2>2, <2>3
    <3>2. v = SubSeq(t, 1, n - 2)
      BY <1>1, <2>1, <3>1 DEF n
    <3>3. x \o y = SubSeq(t, n - 1, n)
      BY <1>1, <1>7, <2>1, <3>1 DEF n
    <3>4. \A i \in 1 .. n : Masker!EndsLine(t, i) <=> i > n - 2
      BY <1>1, <1>2, <1>6, <1>7, <3>1
    <3>5. n - 2 \in 0 .. n /\ n - 2 + 1 = n - 1
      BY <1>1, <3>1
    <3>6. QED
      BY <3>2, <3>3, <3>4, <3>5 DEF v, x, y, u, n, Bare, End
  <2>4. CASE ~ (Len(u) > 0 /\ u[Len(u)] = Masker!CR)
    <3>1. v = SubSeq(t, 1, n - 1) /\ x = <<>>
      BY <1>5, <2>1, <2>4
    <3>2. x \o y = SubSeq(t, n, n)
      BY <1>1, <1>7, <2>1, <3>1 DEF n
    <3>3. \A i \in 1 .. n : Masker!EndsLine(t, i) <=> i > n - 1
      BY <1>1, <1>2, <1>6, <1>7, <2>2, <2>4
    <3>4. n - 1 \in 0 .. n /\ n - 1 + 1 = n
      BY <1>1
    <3>5. QED
      BY <3>1, <3>2, <3>3, <3>4 DEF v, x, y, u, n, Bare, End
  <2>5. QED
    BY <2>3, <2>4
<1>8. CASE t[n] # Masker!LF
  <2>1. u = t /\ y = <<>> /\ Len(u) = n
    BY <1>3, <1>8 DEF n
  <2>2. CASE t[n] = Masker!CR
    <3>1. v = SubSeq(t, 1, n - 1) /\ x = <<Masker!CR>>
      BY <1>1, <1>5, <2>1, <2>2
    <3>2. x \o y = SubSeq(t, n, n)
      BY <1>1, <2>1, <2>2, <3>1 DEF n
    <3>3. \A i \in 1 .. n : Masker!EndsLine(t, i) <=> i > n - 1
      BY <1>1, <1>2, <1>6, <1>8, <2>2
    <3>4. n - 1 \in 0 .. n /\ n - 1 + 1 = n
      BY <1>1
    <3>5. QED
      BY <3>1, <3>2, <3>3, <3>4 DEF v, x, y, u, n, Bare, End
  <2>3. CASE t[n] # Masker!CR
    <3>1. v = t /\ x = <<>>
      BY <1>1, <1>5, <2>1, <2>3
    <3>2. v = SubSeq(t, 1, n) /\ x \o y = SubSeq(t, n + 1, n)
      BY <1>1, <2>1, <3>1 DEF n
    <3>3. \A i \in 1 .. n : Masker!EndsLine(t, i) <=> i > n
      BY <1>1, <1>6, <1>8, <2>3
    <3>4. n \in 0 .. n
      BY <1>1
    <3>5. QED
      BY <3>2, <3>3, <3>4 DEF v, x, y, u, n, Bare, End
  <2>4. QED
    BY <2>2, <2>3
<1>9. QED
  BY <1>7, <1>8
LEMMA CutType ==
  ASSUME NEW u \in Seq(Byte), NEW c
  PROVE  Masker!TrimSuffix(u, c) \in Seq(Byte) /\ Masker!Suffix(u, c) \in Seq(Byte)
<1>1. CASE /\ Len(u) > 0 /\ u[Len(u)] = c
           /\ Masker!TrimSuffix(u, c) = SubSeq(u, 1, Len(u) - 1) /\ Masker!Suffix(u, c) = <<c>>
  <2>1. SubSeq(u, 1, Len(u) - 1) \in Seq(Byte) /\ c \in Byte
    BY <1>1
  <2>2. <<c>> \in Seq(Byte)
    BY <2>1
  <2>3. QED
    BY <1>1, <2>1, <2>2, Zenon
<1>2. CASE Masker!TrimSuffix(u, c) = u /\ Masker!Suffix(u, c) = <<>>
  BY <1>2
<1>3. QED
  BY <1>1, <1>2, TrimIs, Zenon

LEMMA MaskedIs ==
  ASSUME NEW t \in Seq(Byte)
  PROVE  /\ Bare(t) \in Seq(Byte) /\ End(t) \in Seq(Cell)
         /\ Masker!MaskLine(Bare(t)) \in Seq(Cell)
         /\ Masker!Masked(t) = Join(Masker!MaskLine(Bare(t)), End(t))
<1> DEFINE u == Masker!TrimSuffix(t, Masker!LF)
           v == Bare(t)
           x == Masker!Suffix(u, Masker!CR)
           y == Masker!Suffix(t, Masker!LF)
           z == Masker!MaskLine(v)
<1>1. u \in Seq(Byte) /\ y \in Seq(Byte)
  BY CutType
<1>2. v \in Seq(Byte) /\ x \in Seq(Byte)
  <2> HIDE DEF u
  <2>1. Masker!TrimSuffix(u, Masker!CR) \in Seq(Byte) /\ x \in Seq(Byte)
    BY <1>1, CutType
  <2>2. QED
    BY <2>1 DEF Bare, u
<1>3. Masker!Masked(t) = Join(Join(z, x), y) /\ End(t) = Join(x, y)
  BY Zenon DEF Masker!Masked, End, Bare, Join
<1> HIDE DEF u, v, x, y
<1>4. z \in Seq(Cell)
  <2>1. v \in Seq(Cell) /\ Len(v) \in Nat
    BY <1>2, ByteCell
  <2>2. ASSUME NEW a \in 1 .. Len(v) PROVE SubSeq(v, 1, a) \o <<Masker!MASKED>> \in Seq(Cell)
    <3>1. SubSeq(v, 1, a) \in Seq(Cell) /\ <<Masker!MASKED>> \in Seq(Cell)
      BY <2>1 DEF Cell
    <3>2. QED
      BY <3>1
  <2> HIDE DEF z
  <2>3. z = v \/ \E a \in 1 .. Len(v) : z = SubSeq(v, 1, a) \o <<Masker!MASKED>>
    BY <1>2, MaskLineIs, Zenon DEF z
  <2>4. QED
    BY <2>1, <2>2, <2>3, Zenon
<1>5. x \in Seq(Cell) /\ y \in Seq(Cell)
  BY <1>1, <1>2, ByteCell
<1> HIDE DEF z
<1>6. Join(Join(z, x), y) = Join(z, Join(x, y)) /\ Join(x, y) \in Seq(Cell)
  BY <1>4, <1>5, JoinOn, JoinType
<1>7. QED
  BY <1>2, <1>3, <1>4, <1>6 DEF v, z

(* MaskLine and the ends put back are what is shown of a line *)
LEMMA ShownLine ==
  ASSUME NEW t \in Seq(Byte), IsLine(t)
  PROVE  Masker!Shown(t) = Masker!Masked(t)
<1> DEFINE n == Len(t)
           v == Bare(t)
           e == End(t)
<1>1. PICK b \in 0 .. n :
        /\ v = SubSeq(t, 1, b) /\ e = SubSeq(t, b + 1, n)
        /\ \A i \in 1 .. n : Masker!EndsLine(t, i) <=> i > b
  BY LineShape
<1>2. n \in Nat /\ n > 0 /\ b \in Nat /\ b <= n /\ \A i \in 1 .. n - 1 : t[i] # Masker!LF
  BY DEF IsLine
<1>3. \A i \in 1 .. b : t[i] # Masker!LF
  BY <1>1, <1>2 DEF Masker!EndsLine
<1>4. /\ v \in Seq(Byte) /\ e \in Seq(Cell) /\ Masker!MaskLine(v) \in Seq(Cell)
      /\ Masker!Masked(t) = Join(Masker!MaskLine(v), e)
  BY MaskedIs
<1> HIDE DEF v, e
<1>5. Len(v) = b /\ \A i \in 1 .. b : v[i] = t[i]
  BY <1>1, <1>2
<1>6. Join(v, e) = t
  <2>1. Len(e) = n - b /\ \A i \in 1 .. n - b : e[i] = t[b + i]
    BY <1>1, <1>2
  <2>2. v \in Seq(Cell) /\ t \in Seq(Cell) /\ Len(t) = Len(v) + Len(e)
    BY <1>2, <1>4, <1>5, <2>1, ByteCell
  <2>3. /\ \A i \in 1 .. Len(v) : t[i] = v[i]
        /\ \A i \in 1 .. Len(e) : t[Len(v) + i] = e[i]
    BY <1>2, <1>5, <2>1
  <2>4. t = v \o e
    BY <1>4, <2>2, <2>3, TwoParts
  <2>5. QED
    BY <2>4 DEF Join
<1>7. CASE \A i \in 1 .. b - 1 : t[i] # Masker!KEY
  <2>1. ASSUME NEW i \in 1 .. n PROVE ~ Masker!Hidden(t, i)
    <3>1. CASE i > b
      BY <1>1, <3>1 DEF Masker!Hidden
    <3>2. CASE ~ (i > b)
      <4>1. \A j \in 1 .. i - 1 : j \in 1 .. b - 1
        BY <1>2, <3>2
      <4>2. QED
        BY <1>7, <4>1 DEF Masker!Hidden
    <3>3. QED
      BY <3>1, <3>2
  <2>2. Masker!Shown(t) = t
    BY <2>1, ShownPlain
  <2>3. Masker!MaskLine(v) = v
    <3>1. ASSUME NEW a \in 1 .. Len(v), v[a] = Masker!KEY PROVE a = Len(v)
      <4>1. a \in 1 .. b /\ t[a] = Masker!KEY
        BY <1>5, <3>1
      <4>2. ~ (a \in 1 .. b - 1)
        BY <1>7, <4>1
      <4>3. QED
        BY <1>2, <1>5, <4>1, <4>2
    <3>2. QED
      BY <1>4, <3>1, MaskLineIs, Zenon
  <2>4. QED
    BY <1>4, <1>6, <2>2, <2>3
<1>8. ASSUME NEW k \in 1 .. b - 1, t[k] = Masker!KEY PROVE Masker!Shown(t) = Masker!Masked(t)
  <2>1. k \in 1 .. Len(v) /\ v[k] = Masker!KEY
    BY <1>2, <1>5, <1>8
  <2>2. PICK a \in 1 .. Len(v) :
          /\ v[a] = Masker!KEY /\ \A i \in 1 .. a - 1 : v[i] # Masker!KEY
          /\ Masker!MaskLine(v) = IF a = Len(v) THEN v ELSE SubSeq(v, 1, a) \o <<Masker!MASKED>>
    BY <1>4, <2>1, MaskLineIs, Zenon
  <2>3. a <= k
    <3>1. ~ (k \in 1 .. a - 1)
      BY <2>1, <2>2
    <3>2. QED
      BY <1>2, <1>5, <2>2, <3>1
  <2>4. a \in 1 .. b - 1 /\ b \in 1 .. n /\ a # Len(v)
    BY <1>2, <1>5, <2>2, <2>3
  <2>5. SubSeq(v, 1, a) = SubSeq(t, 1, a)
    BY <1>1, <1>2, <2>4
  <2>6. Masker!MaskLine(v) = Join(SubSeq(t, 1, a), <<Masker!MASKED>>)
    BY <2>2, <2>4, <2>5, Zenon DEF Join
  <2>7. t[a] = Masker!KEY /\ \A i \in 1 .. a - 1 : t[i] # Masker!KEY
    BY <1>2, <1>5, <2>2, <2>4
  <2>8. ASSUME NEW i \in 1 .. n PROVE Masker!Hidden(t, i) <=> (a < i /\ i <= b)
    <3>1. Masker!EndsLine(t, i) <=> i > b
      BY <1>1
    <3>2. ASSUME ~ (i > b), a < i PROVE Masker!Hidden(t, i)
      <4>1. a \in 1 .. i - 1 /\ \A j \in a .. i : j \in 1 .. b
        BY <1>2, <2>4, <3>2
      <4>2. QED
        BY <1>3, <2>7, <3>1, <3>2, <4>1 DEF Masker!Hidden
    <3>3. ASSUME ~ (a < i) PROVE ~ Masker!Hidden(t, i)
      <4>1. \A j \in 1 .. i - 1 : j \in 1 .. a - 1
        BY <1>2, <2>4, <3>3
      <4>2. QED
        BY <2>7, <4>1 DEF Masker!Hidden
    <3>4. ASSUME i > b PROVE ~ Masker!Hidden(t, i)
      BY <3>1, <3>4 DEF Masker!Hidden
    <3>5. QED
      BY <1>2, <2>4, <3>2, <3>3, <3>4
  <2>9. Masker!Shown(t) = Join(Join(SubSeq(t, 1, a), <<Masker!MASKED>>), SubSeq(t, b + 1, n))
    BY <2>4, <2>8, ShownCut
  <2>10. QED
    BY <1>1, <1>4, <2>6, <2>9
<1>9. QED
  BY <1>7, <1>8
-----------------------------------------------------------------------------
(* The copy.  What io.Copy has, what the reader has ready and what is shown of
   the lines it has not read are together what is shown of the text.        *)
CopyInv ==
  /\ copied \in Seq(Cell) /\ line \in Seq(Cell) /\ source \in Seq(Byte)
  /\ Join(Join(copied, line), Masker!Shown(source)) = Masker!Shown(plain)
  /\ Len(source) > 0 => source[Len(source)] \notin Blank
  /\ eof => source = <<>>

LEMMA GivesAll ==
  ASSUME copied \in Seq(Cell), NEW u \in Seq(Cell), Masker!Gives(u)
  PROVE  copied' \in Seq(Cell) /\ line' \in Seq(Cell) /\ Join(copied', line') = Join(copied, u)
<1> DEFINE n == IF Len(u) < BufSize THEN Len(u) ELSE BufSize
           p == SubSeq(u, 1, n)
           q == SubSeq(u, n + 1, Len(u))
<1>1. copied' = Join(copied, p) /\ line' = q
  BY Zenon DEF Masker!Gives, Join
<1>2. n \in 0 .. Len(u)
  BY PipelineAssumption DEF Masker!BufSizeAssumption
<1> HIDE DEF n
<1>3. p \in Seq(Cell) /\ q \in Seq(Cell) /\ u = Join(p, q)
  BY <1>2, SplitAt DEF Join
<1> HIDE DEF p, q
<1>4. Join(Join(copied, p), q) = Join(copied, Join(p, q)) /\ Join(copied, p) \in Seq(Cell)
  BY <1>3, JoinOn, JoinType
<1>5. QED
  BY <1>1, <1>3, <1>4

LEMMA ShownNothing == Masker!Shown(<<>>) = Nil
<1> DEFINE t == <<>>
<1>1. t \in Seq(Byte) /\ \A i \in 1 .. Len(t) : FALSE
  OBVIOUS
<1>2. Masker!Shown(t) = t
  <2> HIDE DEF t
  <2>1. QED
    BY <1>1, ShownPlain
<1>3. QED
  BY <1>2 DEF Nil

LEMMA CopyStarts ==
  ASSUME plain \in Seq(Byte), Len(plain) > 0 => plain[Len(plain)] \notin Blank,
         Masker!Copy(plain), plain' = plain
  PROVE  CopyInv'
<1>1. source' = plain /\ line' = Nil /\ eof' = FALSE /\ copied' = Nil
  BY DEF Masker!Copy, Nil
<1>2. Nil \in Seq(Cell)
  BY DEF Nil
<1>3. Masker!Shown(plain) \in Seq(Cell)
  BY PiecesType
<1>4. Join(Join(Nil, Nil), Masker!Shown(plain)) = Masker!Shown(plain)
  BY <1>2, <1>3, JoinNil
<1>5. QED
  BY <1>1, <1>2, <1>4 DEF CopyInv

LEMMA PendingKeeps ==
  ASSUME CopyInv, Masker!ReadPending, plain' = plain
  PROVE  CopyInv'
<1>1. source' = source /\ eof' = eof /\ Masker!Gives(line)
  BY DEF Masker!ReadPending
<1>2. copied \in Seq(Cell) /\ line \in Seq(Cell)
  BY DEF CopyInv
<1>3. copied' \in Seq(Cell) /\ line' \in Seq(Cell) /\ Join(copied', line') = Join(copied, line)
  BY <1>1, <1>2, GivesAll
<1>4. QED
  BY <1>1, <1>3 DEF CopyInv

LEMMA LineKeeps ==
  ASSUME CopyInv, Masker!ReadLine, plain' = plain
  PROVE  CopyInv' /\ (~ copying' => line' = <<>> /\ source' = <<>>)
<1> DEFINE s == source
           n == Masker!LineLen(s)
           t == SubSeq(s, 1, n)
           r == SubSeq(s, n + 1, Len(s))
<1>1. /\ copied \in Seq(Cell) /\ s \in Seq(Byte)
      /\ Join(Join(copied, line), Masker!Shown(s)) = Masker!Shown(plain)
      /\ Len(s) > 0 => s[Len(s)] \notin Blank
  BY DEF CopyInv
<1>2. /\ copying /\ line = <<>> /\ source' = r
      /\ eof' = (n = 0 \/ t[Len(t)] # Masker!LF)
      /\ IF Masker!Nothing(t) THEN copying' = FALSE /\ UNCHANGED <<line, copied>>
         ELSE Masker!Gives(Masker!Masked(t)) /\ UNCHANGED copying
  BY Zenon DEF Masker!ReadLine, Masker!Pending, Masker!Last
<1>3. \/ n = Len(s) /\ \A i \in 1 .. Len(s) : s[i] # Masker!LF
      \/ n \in 1 .. Len(s) /\ s[n] = Masker!LF /\ \A i \in 1 .. n - 1 : s[i] # Masker!LF
  BY <1>1, LineLenIs, Zenon
<1>4. Len(s) \in Nat /\ n \in 0 .. Len(s) /\ n \in Nat
  <2> HIDE DEF n
  <2>1. QED
    BY <1>1, <1>3
<1> HIDE DEF n
<1>5. /\ t \in Seq(Byte) /\ Len(t) = n /\ \A i \in 1 .. n : t[i] = s[i]
      /\ r \in Seq(Byte) /\ Len(r) = Len(s) - n /\ \A i \in 1 .. Len(s) - n : r[i] = s[n + i]
  BY <1>1, <1>4
<1>6. s = t \o r
  BY <1>1, <1>4, SplitAt
<1> HIDE DEF s, t, r
<1>7. Join(copied, Masker!Shown(s)) = Masker!Shown(plain)
  <2>1. line = Nil
    BY <1>2 DEF Nil
  <2>2. QED
    BY <1>1, <2>1, JoinNil
<1>8. Len(r) > 0 => r[Len(r)] \notin Blank
  <2>1. ASSUME Len(r) > 0 PROVE r[Len(r)] = s[Len(s)] /\ Len(s) > 0
    <3>1. Len(r) \in 1 .. Len(s) - n /\ n + Len(r) = Len(s)
      BY <1>4, <1>5, <2>1
    <3>2. QED
      BY <1>4, <1>5, <3>1
  <2>2. QED
    BY <1>1, <2>1
<1>9. CASE n = 0
  <2>1. t = <<>> /\ r = s /\ Len(s) = 0
    BY <1>1, <1>3, <1>4, <1>5, <1>6, <1>9
  <2>2. s = <<>> /\ Masker!Nothing(t)
    BY <1>1, <2>1 DEF Masker!Nothing
  <2>3. copied' = copied /\ line' = line /\ source' = <<>> /\ line' = <<>>
    BY <1>2, <2>1, <2>2
  <2>4. QED
    BY <2>2, <2>3 DEF CopyInv, s
<1>10. CASE n # 0
  <2>1. n \in 1 .. n /\ n \in 1 .. Len(s) /\ t[n] = s[n]
    BY <1>4, <1>5, <1>10
  <2>2. IsLine(t)
    BY <1>3, <1>4, <1>5, <1>10 DEF IsLine
  <2>3. ~ Masker!Nothing(t)
    <3>1. t # <<>>
      BY <1>5, <1>10
    <3>2. ASSUME t = <<Masker!CR>> PROVE FALSE
      <4>1. n = 1 /\ s[n] = Masker!CR
        BY <1>5, <2>1, <3>2
      <4>2. s[n] \in Blank /\ s[n] # Masker!LF
        BY <4>1 DEF Blank, Masker!CR, Masker!LF
      <4>3. n = Len(s)
        BY <1>3, <4>2
      <4>4. QED
        BY <1>1, <1>10, <2>1, <4>2, <4>3
    <3>3. QED
      BY <3>1, <3>2 DEF Masker!Nothing
  <2>4. Masker!Shown(t) = Masker!Masked(t) /\ Masker!Shown(t) \in Seq(Cell)
    BY <1>5, <2>2, ShownLine, PiecesType
  <2>5. Masker!Gives(Masker!Masked(t)) /\ copying' = copying
    BY <1>2, <2>3
  <2>6. /\ copied' \in Seq(Cell) /\ line' \in Seq(Cell)
        /\ Join(copied', line') = Join(copied, Masker!Shown(t))
    BY <1>1, <2>4, <2>5, GivesAll
  <2>7. Masker!Shown(s) = Join(Masker!Shown(t), Masker!Shown(r))
    <3>1. CASE s[n] = Masker!LF
      BY <1>5, <1>6, <1>10, <2>1, <3>1, ShownSplit
    <3>2. CASE s[n] # Masker!LF
      <4>1. n = Len(s)
        BY <1>3, <3>2
      <4>2. r = <<>> /\ s = t
        BY <1>4, <1>5, <1>6, <4>1
      <4>3. QED
        BY <2>4, <4>2, ShownNothing, JoinNil
    <3>3. QED
      BY <3>1, <3>2
  <2>8. Join(Join(copied', line'), Masker!Shown(r)) = Masker!Shown(plain)
    <3>1. Masker!Shown(r) \in Seq(Cell)
      BY <1>5, PiecesType
    <3>2. Join(Join(copied, Masker!Shown(t)), Masker!Shown(r)) =
          Join(copied, Join(Masker!Shown(t), Masker!Shown(r)))
      BY <1>1, <2>4, <3>1, JoinOn
    <3>3. QED
      BY <1>7, <2>6, <2>7, <3>2
  <2>9. eof' => r = <<>>
    <3>1. ASSUME eof' PROVE r = <<>>
      <4>1. s[n] # Masker!LF
        BY <1>2, <1>5, <1>10, <2>1, <3>1
      <4>2. n = Len(s)
        BY <1>3, <4>1
      <4>3. QED
        BY <1>4, <1>5, <4>2
    <3>2. QED
      BY <3>1
  <2>10. source' = r /\ plain' = plain /\ copying'
    BY <1>2, <2>5
  <2>11. QED
    BY <1>5, <1>8, <2>6, <2>8, <2>9, <2>10 DEF CopyInv
<1>11. QED
  BY <1>9, <1>10

LEMMA EOFKeeps ==
  ASSUME CopyInv, Masker!ReadEOF, plain' = plain
  PROVE  CopyInv' /\ line' = <<>> /\ source' = <<>>
BY DEF CopyInv, Masker!ReadEOF, Masker!Pending

MaskInv ==
  /\ MadeInv
  /\ pc \in {"masking", "done"} => CopyInv
  /\ pc = "done" => line = <<>> /\ source = <<>>

LEMMA TrimEnd ==
  ASSUME NEW t \in Seq(Byte), Len(TrimSpace(t)) > 0
  PROVE  TrimSpace(t)[Len(TrimSpace(t))] \notin Blank
<1> DEFINE inked == {i \in 1 .. Len(t) : t[i] \notin Blank}
<1>1. PICK a, b \in inked : a <= b /\ TrimSpace(t) = SubSeq(t, a, b)
  <2>1. TrimSpace(t) # <<>>
    OBVIOUS
  <2>2. QED
    BY <2>1, Trimmed, Zenon
<1>2. a \in 1 .. Len(t) /\ b \in 1 .. Len(t) /\ t[b] \notin Blank
  BY <1>1
<1>3. Len(SubSeq(t, a, b)) = b - a + 1 /\ SubSeq(t, a, b)[b - a + 1] = t[b]
  BY <1>1, <1>2
<1>4. QED
  BY <1>1, <1>2, <1>3

LEMMA MaskSteps == ASSUME MaskInv, [Next]_vars PROVE MaskInv'
<1>1. MadeInv'
  BY MadeSteps DEF MaskInv
<1>2. CASE TelnetStep \/ FetchByTelnet \/ FetchBySSH \/ KeyInvalid
  <2>1. pc' \notin {"masking", "done"}
    BY <1>2 DEF TelnetStep, FetchByTelnet, FetchBySSH, KeyInvalid
  <2>2. QED
    BY <1>1, <2>1 DEF MaskInv
<1>3. CASE Encrypt
  <2>1. Masker!Copy(plain) /\ plain' = plain /\ pc = "fetched" /\ pc' = "masking"
    BY <1>3 DEF Encrypt
  <2>2. plain = TrimSpace(text) /\ plain \in Seq(Byte) /\ text \in Seq(Byte)
    BY <2>1 DEF MaskInv, MadeInv, Past
  <2>3. Len(plain) > 0 => plain[Len(plain)] \notin Blank
    BY <2>2, TrimEnd
  <2>4. QED
    BY <1>1, <2>1, <2>2, <2>3, CopyStarts DEF MaskInv
<1>4. CASE MaskStep
  <2>1. /\ pc = "masking" /\ Masker!Read /\ plain' = plain
        /\ pc' = IF copying' THEN "masking" ELSE "done"
    BY <1>4 DEF MaskStep
  <2>2. CopyInv
    BY <2>1 DEF MaskInv
  <2>3. CASE Masker!ReadPending
    <3>1. copying' /\ CopyInv'
      BY <2>1, <2>2, <2>3, PendingKeeps DEF Masker!ReadPending
    <3>2. QED
      BY <1>1, <2>1, <3>1 DEF MaskInv
  <2>4. CASE Masker!ReadLine
    BY <1>1, <2>1, <2>2, <2>4, LineKeeps DEF MaskInv
  <2>5. CASE Masker!ReadEOF
    BY <1>1, <2>1, <2>2, <2>5, EOFKeeps DEF MaskInv
  <2>6. QED
    BY <2>1, <2>3, <2>4, <2>5 DEF Masker!Read
<1>5. CASE UNCHANGED vars
  BY <1>1, <1>5 DEF MaskInv, CopyInv, vars, maskVars
<1>6. QED
  BY <1>2, <1>3, <1>4, <1>5 DEF Next

LEMMA MaskDone == MaskInv => MaskedIsShown
<1> SUFFICES ASSUME MaskInv, pc = "done" PROVE copied = Masker!Shown(TrimSpace(text))
  BY DEF MaskedIsShown
<1>1. CopyInv /\ line = Nil /\ source = <<>> /\ plain = TrimSpace(text)
  BY DEF MaskInv, MadeInv, Past, Nil
<1>2. copied \in Seq(Cell) /\ Join(Join(copied, Nil), Nil) = Masker!Shown(plain)
  BY <1>1, ShownNothing DEF CopyInv
<1>3. Join(Join(copied, Nil), Nil) = copied
  BY <1>2, JoinNil
<1>4. QED
  BY <1>1, <1>2, <1>3

(* The masked copy is the text with what is behind a keyword hidden and all else
   in its place, for a text of any length and a buffer of any size: a line
   longer than io.Copy's buffer is given out in parts and none of it is lost
   (MaskingReader.Read, MaskLine).                                          *)
THEOREM MaskingIsExact == Spec => []MaskedIsShown
<1>1. Init => MaskInv
  BY TelnetStarts DEF Init, MaskInv, MadeInv, ReadInv, Past
<1>2. MaskInv /\ [Next]_vars => MaskInv'
  BY MaskSteps
<1>3. MaskInv => MaskedIsShown
  BY MaskDone
<1>4. QED
  BY <1>1, <1>2, <1>3, PTL DEF Spec
=============================================================================
