---------------------------- MODULE Session_proofs ----------------------------
(* Proofs about Session, for any number of init commands, any answers of the
   device and any bounds on unasked prompts and look-alikes.                *)
EXTENDS Session, SequenceTheorems, WellFoundedInduction, TLAPS

Holds(w, piece) == \E i \in 1 .. Len(w) : w[i] = piece
Prompted(w) == \E i \in 1 .. Len(w) : w[i] \in Shells

(* Where the device is, what it has still to read and what of its prompts is
   on the way, by what the agent waits for: as long as the agent took no text
   for a password or shell prompt.  It may have taken some for a login prompt,
   and have typed the user name at a shell.                                 *)
AtStart ==
  /\ typed = <<>> /\ mode = AtLogin(setup)
  /\ Holds(wire, "user") => mode = "login"
  /\ Holds(wire, "pass") => mode = "password"
  /\ Holds(wire, "verification") => setup.greets
  /\ Prompted(wire) => mode \in Shells
NameTyped ==
  \/ /\ ~ Prompted(wire)
     /\ \/ /\ typed = <<"username">> /\ mode = AtLogin(setup) /\ mode \in Asking
           /\ Holds(wire, "pass") => mode = "password"
        \/ typed = <<>> /\ mode \in {"password", "closed"}
  \/ /\ lured # {} /\ typed \in {<<"username">>, <<>>} /\ mode \in Shells
     /\ ~ Holds(wire, "pass")
PasswordTyped ==
  /\ \/ typed = <<"username", "password">> /\ mode = "password" /\ AtLogin(setup) = mode
     \/ typed = <<"password">> /\ mode \in {"password", "closed"}
     \/ typed = <<>> /\ mode \in {"login", "password", "closed"} \cup Shells
  /\ Prompted(wire) => typed = <<>> /\ mode \in Shells
  /\ \A i, j \in 1 .. Len(wire) : i < j /\ wire[i] \in Shells => wire[j] # "pass"
EnableTyped ==
  /\ typed \in {<<"username", "enable">>, <<"enable">>, <<>>} /\ mode \in Shells \cup {"enable"}
  /\ \A i \in 1 .. Len(wire) : wire[i] = "pass" =>
       i = Len(wire) /\ mode = "enable" /\ typed = <<>>
SecretTyped ==
  \/ typed = <<"password">> /\ mode = "enable" /\ wire = <<>>
  \/ typed = <<>> /\ mode \in Shells
CommandsTyped ==
  /\ mode \in Shells \cup {"enable"}
  /\ \A i \in 1 .. Len(typed) : typed[i] \in {"username", "enable", "init", "backup"}
PhaseInv ==
  /\ pc = "initial" => AtStart
  /\ pc = "user" => NameTyped
  /\ pc = "password" => PasswordTyped
  /\ pc = "enable" => EnableTyped
  /\ pc = "enablePassword" => SecretTyped
  /\ pc \in {"init", "backup"} => CommandsTyped
Undeceived == lured \subseteq {"userLike"}
AskedInv == TypeOK /\ (Undeceived => PhaseInv /\ ~ misused)

(* Each side waits for the other, as long as no prompt comes unasked and no
   text is taken for one                                                    *)
Calm == noise = 0 /\ lured = {} /\ ~ (setup.telnet /\ setup.greets)
Turns ==
  /\ typed = <<>> \/ (Len(typed) = 1 /\ wire = <<>>)
  /\ \A i \in 1 .. Len(wire) : wire[i] \in {"user", "pass"} \cup Shells => i = Len(wire)
  /\ Holds(wire, "verification") => setup.greets
TurnsInv == TypeOK /\ TypesAtPrompts /\ (Calm /\ pc \notin Ended => Turns)

(* Then a prompt is the last the device sent, in answer to all that it was told,
   and what comes after the backup command is its answer.                   *)
Answer == <<"echo">> \o output \o <<mode>>
PromptsLast ==
  \A i \in 1 .. Len(wire) : wire[i] \in Shells =>
    i = Len(wire) /\ wire[i] = mode /\ typed = <<>>
Answering ==
  \/ typed = <<"backup">> /\ wire = <<>> /\ acc = <<>> /\ mode \in Shells
  \/ typed = <<>> /\ mode \in Shells /\ acc \o wire = Answer
InStep ==
  /\ PromptsLast
  /\ pc \in {"enable", "enablePassword", "init", "backup"} => Len(typed) <= 1
  /\ pc = "backup" => Answering
AnswerInv ==
  /\ AskedInv
  /\ noise = 0 /\ lured = {} /\ pc \notin Ended => InStep
  /\ BackupIsAnswer

-----------------------------------------------------------------------------
(* What a step of the agent does *)

LEMMA Suffix ==
  ASSUME NEW S, NEW w \in Seq(S), NEW n \in 1 .. Len(w)
  PROVE  LET r == SubSeq(w, n + 1, Len(w))
         IN /\ r \in Seq(S) /\ Len(r) = Len(w) - n
            /\ \A i \in 1 .. Len(r) : i + n \in 1 .. Len(w) /\ r[i] = w[i + n]
OBVIOUS

LEMMA Taken ==
  ASSUME NEW S, NEW w \in Seq(S), NEW a \in Seq(S), NEW n \in 1 .. Len(w)
  PROVE  LET t == a \o SubSeq(w, 1, n)
         IN t \in Seq(S) /\ t # <<>> /\ Last(t) = w[n] /\ w[n] \in S
BY DEF Last

(* The line that answers a piece, and the wait that follows *)
Reply(piece, line, next) ==
  \/ /\ pc = "initial" /\ piece \in Users \cup {"verification"}
     /\ line = "username" /\ next = "user"
  \/ /\ pc \in {"initial", "user"} /\ piece \in Passes
     /\ line = "password" /\ next = "password"
  \/ /\ pc \in {"initial", "user", "password"} /\ piece \in Prompts
     /\ line = "enable" /\ next = "enable"
  \/ /\ pc \in Waiting \ {"backup"} /\ piece \in Prompts
     /\ line \in {"init", "backup"} /\ next = line
  \/ /\ pc = "enable" /\ piece \in Passes
     /\ line = "password" /\ next = "enablePassword"

LEMMA MatchedReplies ==
  ASSUME TypeOK, pc \in Waiting, NEW piece \in Awaited, NEW a, Matched(piece, a)
  PROVE  \/ /\ pc = "backup" /\ pc' = "ok" /\ acc' = Clean(a)
            /\ typed' = Append(typed, "exit") /\ UNCHANGED <<sent, early>>
         \/ /\ \E line \in Line, next \in Waiting :
                 /\ Reply(piece, line, next) /\ pc' = next
                 /\ typed' = Append(typed, line)
            /\ acc' = <<>> /\ sent' \in 0 .. InitCommands
            /\ early' = (early \/ wire' # <<>> \/ typed # <<>>)
<1> USE DEF Types, LeftOver, Line, Waiting, Reply
<1>1. ASSUME NextCommand(a) PROVE
        /\ \E line \in {"init", "backup"} : pc' = line /\ typed' = Append(typed, line)
        /\ acc' = <<>> /\ sent' \in 0 .. InitCommands
        /\ early' = (early \/ wire' # <<>> \/ typed # <<>>)
  BY <1>1, SessionAssumption DEF NextCommand, TypeOK
<1>2. CASE pc = "initial" /\ piece \in Users \cup {"verification"}
             /\ Types("username", "user", a) /\ UNCHANGED sent
  BY <1>2 DEF TypeOK
<1>3. CASE pc \in {"initial", "user"} /\ piece \in Passes
             /\ Types("password", "password", a) /\ UNCHANGED sent
  BY <1>3 DEF TypeOK
<1>4. CASE pc \in {"initial", "user", "password"} /\ piece \in Prompts /\ AfterLogin(piece, a)
  <2>1. CASE Types("enable", "enable", a) /\ UNCHANGED sent
    BY <1>4, <2>1 DEF TypeOK
  <2>2. CASE NextCommand(a)
    BY <1>1, <1>4, <2>2
  <2>3. QED
    BY <1>4, <2>1, <2>2 DEF AfterLogin
<1>5. CASE pc = "enable" /\ piece \in Passes
             /\ Types("password", "enablePassword", a) /\ UNCHANGED sent
  BY <1>5 DEF TypeOK
<1>6. CASE pc \in {"enable", "enablePassword", "init"} /\ piece \in Prompts /\ NextCommand(a)
  BY <1>1, <1>6
<1>7. CASE /\ pc = "backup" /\ pc' = "ok" /\ acc' = Clean(a)
           /\ typed' = Append(typed, "exit") /\ UNCHANGED <<sent, early>>
  BY <1>7
<1>8. QED
  BY <1>2, <1>3, <1>4, <1>5, <1>6, <1>7 DEF Matched

LEMMA ReadStep ==
  ASSUME TypeOK, Read
  PROVE  \E n \in 1 .. Len(wire) :
    /\ wire' = SubSeq(wire, n + 1, Len(wire)) /\ UNCHANGED <<setup, device, bounds>>
    /\ \/ /\ acc' = acc \o SubSeq(wire, 1, n) /\ wire[n] \notin Awaited
          /\ UNCHANGED <<pc, sent, early, typed, lured>>
       \/ /\ pc = "backup" /\ pc' = "ok" /\ acc' = Clean(acc \o SubSeq(wire, 1, n))
          /\ typed' = Append(typed, "exit") /\ wire[n] \in Prompts
          /\ UNCHANGED <<sent, early, lured>>
       \/ /\ \E line \in Line, next \in Waiting :
               Reply(wire[n], line, next) /\ pc' = next /\ typed' = Append(typed, line)
          /\ acc' = <<>> /\ wire[n] \in Awaited /\ sent' \in 0 .. InitCommands
          /\ early' = (early \/ wire' # <<>> \/ typed # <<>>)
          /\ lured' = lured \cup ({wire[n]} \cap LookAlikes)
<1>1. PICK n \in 1 .. Len(wire) :
        /\ wire' = SubSeq(wire, n + 1, Len(wire))
        /\ IF Last(acc \o SubSeq(wire, 1, n)) \in Awaited
             THEN Matched(Last(acc \o SubSeq(wire, 1, n)), acc \o SubSeq(wire, 1, n))
             ELSE acc' = acc \o SubSeq(wire, 1, n) /\ UNCHANGED <<pc, sent, early, typed>>
        /\ lured' = IF Last(acc \o SubSeq(wire, 1, n)) \in Awaited /\ pc # "backup"
                      THEN lured \cup ({Last(acc \o SubSeq(wire, 1, n))} \cap LookAlikes)
                      ELSE lured
  BY DEF Read
<1>2. Last(acc \o SubSeq(wire, 1, n)) = wire[n]
  BY Taken DEF TypeOK
<1>3. pc \in Waiting /\ UNCHANGED <<setup, device, bounds>>
  BY DEF Read
<1>4. CASE wire[n] \in Awaited
  <2>1. pc = "backup" => wire[n] \in Prompts
    BY <1>4 DEF Awaited
  <2>2. CASE pc = "backup"
    <3>1. lured' = lured /\ ~ \E line \in Line, next \in Waiting : Reply(wire[n], line, next)
      BY <1>1, <2>2 DEF Reply
    <3>2. QED
      BY <1>1, <1>2, <1>3, <1>4, <2>1, <2>2, <3>1, MatchedReplies
  <2>3. CASE pc # "backup"
    <3>1. lured' = lured \cup ({wire[n]} \cap LookAlikes)
      BY <1>1, <1>2, <1>4, <2>3
    <3>2. QED
      BY <1>1, <1>2, <1>3, <1>4, <2>3, <3>1, MatchedReplies
  <2>4. QED
    BY <2>2, <2>3
<1>5. CASE wire[n] \notin Awaited
  BY <1>1, <1>2, <1>3, <1>5
<1>6. QED
  BY <1>4, <1>5

-----------------------------------------------------------------------------
(* Without, which is defined by recursion over the length of its argument *)

LEMMA LeastNat ==
  ASSUME NEW S \in SUBSET Nat, S # {}
  PROVE  \E x \in S : \A y \in S : x <= y
<1> DEFINE Earlier == {pair \in Nat \X Nat : pair[1] < pair[2]}
<1>1. IsWellFoundedOn(Earlier, Nat)
  BY NatLessThanWellFounded, Zenon DEF OpToRel
<1>2. PICK x \in S : \A y \in S : ~ (<<y, x>> \in Earlier)
  BY <1>1, WFMin
<1>3. ASSUME NEW y \in S PROVE x <= y
  <2>1. ~ (y < x) /\ x \in Nat /\ y \in Nat
    BY <1>2
  <2>2. QED
    BY <2>1
<1>4. QED
  BY <1>3

(* kept, up to the m-th piece of a *)
KeptTo(kept, a, dropped, m) ==
  kept = [i \in 0 .. m |->
            IF i = 0 THEN <<>>
            ELSE IF a[i] \in dropped THEN kept[i - 1] ELSE Append(kept[i - 1], a[i])]

LEMMA KeptExists ==
  ASSUME NEW a, NEW dropped, NEW n \in Nat
  PROVE  \E kept : KeptTo(kept, a, dropped, n)
<1> DEFINE Missing == {m \in Nat : ~ \E kept : KeptTo(kept, a, dropped, m)}
<1>1. SUFFICES ASSUME Missing # {} PROVE FALSE
  OBVIOUS
<1>2. PICK m \in Missing : \A l \in Missing : m <= l
  <2> HIDE DEF Missing
  <2>1. Missing \in SUBSET Nat
    BY DEF Missing
  <2>2. QED
    BY <1>1, <2>1, LeastNat
<1>3. CASE m = 0
  <2>1. KeptTo([i \in 0 .. 0 |-> <<>>], a, dropped, 0)
    BY DEF KeptTo
  <2>2. QED
    BY <1>3, <2>1
<1>4. CASE m # 0
  <2>1. m - 1 \in Nat /\ m - 1 \notin Missing
    BY <1>2, <1>4
  <2>2. PICK kept : KeptTo(kept, a, dropped, m - 1)
    BY <2>1
  <2> DEFINE one == IF a[m] \in dropped THEN kept[m - 1] ELSE Append(kept[m - 1], a[m])
             more == [i \in 0 .. m |-> IF i = m THEN one ELSE kept[i]]
  <2>3. \A i \in 0 .. m - 1 :
          kept[i] = IF i = 0 THEN <<>>
                    ELSE IF a[i] \in dropped THEN kept[i - 1] ELSE Append(kept[i - 1], a[i])
    BY <2>2, Zenon DEF KeptTo
  <2>4. ASSUME NEW i \in 0 .. m
        PROVE  more[i] = IF i = 0 THEN <<>>
                         ELSE IF a[i] \in dropped THEN more[i - 1]
                              ELSE Append(more[i - 1], a[i])
    <3>1. CASE i = m
      BY <1>4, <2>1, <3>1
    <3>2. CASE i # m
      <4>1. i \in 0 .. m - 1 /\ more[i] = kept[i] /\ (i # 0 => more[i - 1] = kept[i - 1])
        BY <3>2, <2>1
      <4>2. QED
        BY <4>1, <2>3
    <3>3. QED
      BY <3>1, <3>2
  <2>5. KeptTo(more, a, dropped, m)
    <3> HIDE DEF one
    <3>1. more = [i \in 0 .. m |-> more[i]]
      OBVIOUS
    <3> HIDE DEF more
    <3>2. QED
      BY <2>4, <3>1, Zenon DEF KeptTo
  <2>6. QED
    BY <1>2, <2>5
<1>5. QED
  BY <1>3, <1>4

LEMMA WithoutIsKept ==
  ASSUME NEW S, NEW a \in Seq(S), NEW dropped
  PROVE  \E kept :
    /\ Without(a, dropped) = kept[Len(a)] /\ kept[0] = <<>>
    /\ \A i \in 1 .. Len(a) :
         kept[i] = IF a[i] \in dropped THEN kept[i - 1] ELSE Append(kept[i - 1], a[i])
<1> DEFINE k == CHOOSE kept : KeptTo(kept, a, dropped, Len(a))
<1>1. KeptTo(k, a, dropped, Len(a))
  BY KeptExists
<1>2. Without(a, dropped) = k[Len(a)]
  BY Zenon DEF Without, KeptTo
<1> HIDE DEF k
<1>3. \A i \in 0 .. Len(a) :
        k[i] = IF i = 0 THEN <<>>
               ELSE IF a[i] \in dropped THEN k[i - 1] ELSE Append(k[i - 1], a[i])
  BY <1>1, Zenon DEF KeptTo
<1>4. k[0] = <<>>
  BY <1>3
<1>5. ASSUME NEW i \in 1 .. Len(a)
      PROVE  k[i] = IF a[i] \in dropped THEN k[i - 1] ELSE Append(k[i - 1], a[i])
  BY <1>3, <1>5
<1>6. QED
  BY <1>2, <1>4, <1>5

LEMMA WithoutType ==
  ASSUME NEW S, NEW a \in Seq(S), NEW dropped
  PROVE  Without(a, dropped) \in Seq(S)
<1>1. PICK kept :
        /\ Without(a, dropped) = kept[Len(a)] /\ kept[0] = <<>>
        /\ \A i \in 1 .. Len(a) :
             kept[i] = IF a[i] \in dropped THEN kept[i - 1] ELSE Append(kept[i - 1], a[i])
  BY WithoutIsKept
<1> DEFINE Wrong == {i \in 0 .. Len(a) : kept[i] \notin Seq(S)}
<1>2. Wrong = {}
  <2>1. SUFFICES ASSUME Wrong # {} PROVE FALSE
    OBVIOUS
  <2>2. PICK i \in Wrong : \A j \in Wrong : i <= j
    <3>1. Wrong \in SUBSET Nat
      OBVIOUS
    <3> HIDE DEF Wrong
    <3>2. QED
      BY <2>1, <3>1, LeastNat
  <2>3. i # 0 /\ i \in 1 .. Len(a)
    <3>1. kept[0] \in Seq(S) /\ Len(a) \in Nat
      BY <1>1
    <3>2. i \in 0 .. Len(a) /\ kept[i] \notin Seq(S)
      OBVIOUS
    <3>3. QED
      BY <3>1, <3>2
  <2>4. i - 1 \in 0 .. Len(a) /\ kept[i - 1] \in Seq(S) /\ a[i] \in S
    BY <2>2, <2>3
  <2>5. kept[i] \in Seq(S)
    <3>1. Append(kept[i - 1], a[i]) \in Seq(S)
      BY <2>4
    <3>2. kept[i] \in {kept[i - 1], Append(kept[i - 1], a[i])}
      BY <1>1, <2>3, Zenon
    <3>3. QED
      BY <2>4, <3>1, <3>2
  <2>6. QED
    BY <2>5
<1>3. QED
  BY <1>1, <1>2

(* Between two pieces that are dropped, what stays is what stays without them *)
LEMMA WithoutBetween ==
  ASSUME NEW S, NEW b \in Seq(S), NEW x \in S, NEW y \in S, NEW D, NEW E,
         x \in D, y \in D, \A i \in 1 .. Len(b) : b[i] \in D <=> b[i] \in E
  PROVE  Without(<<x>> \o b \o <<y>>, D) = Without(b, E)
<1> DEFINE a == <<x>> \o b \o <<y>>
<1>1. /\ a \in Seq(S) /\ Len(a) = Len(b) + 2 /\ a[1] = x /\ a[Len(b) + 2] = y
      /\ \A i \in 1 .. Len(b) : a[i + 1] = b[i]
  OBVIOUS
<1> HIDE DEF a
<1>2. PICK f :
        /\ Without(a, D) = f[Len(a)] /\ f[0] = <<>>
        /\ \A i \in 1 .. Len(a) : f[i] = IF a[i] \in D THEN f[i - 1] ELSE Append(f[i - 1], a[i])
  BY <1>1, WithoutIsKept
<1>3. PICK g :
        /\ Without(b, E) = g[Len(b)] /\ g[0] = <<>>
        /\ \A i \in 1 .. Len(b) : g[i] = IF b[i] \in E THEN g[i - 1] ELSE Append(g[i - 1], b[i])
  BY WithoutIsKept
<1>4. Len(b) \in Nat
  OBVIOUS
<1> DEFINE Wrong == {i \in 0 .. Len(b) : f[i + 1] # g[i]}
<1>5. Wrong = {}
  <2>1. SUFFICES ASSUME Wrong # {} PROVE FALSE
    OBVIOUS
  <2>2. PICK i \in Wrong : \A j \in Wrong : i <= j
    <3>1. Wrong \in SUBSET Nat
      OBVIOUS
    <3> HIDE DEF Wrong
    <3>2. QED
      BY <2>1, <3>1, LeastNat
  <2>3. f[1] = f[0]
    BY <1>1, <1>2, <1>4
  <2>4. i # 0
    BY <1>2, <1>3, <2>3
  <2>5. i \in 1 .. Len(b) /\ i - 1 \in 0 .. Len(b) /\ i - 1 \notin Wrong /\ i + 1 \in 1 .. Len(a)
    BY <1>1, <1>4, <2>2, <2>4
  <2>6. f[i] = g[i - 1]
    BY <2>5
  <2>7. f[i + 1] = (IF a[i + 1] \in D THEN f[i] ELSE Append(f[i], a[i + 1]))
    <3>1. i + 1 - 1 = i
      BY <2>5
    <3>2. QED
      BY <1>2, <2>5, <3>1
  <2>8. g[i] = (IF b[i] \in E THEN g[i - 1] ELSE Append(g[i - 1], b[i]))
    BY <1>3, <2>5
  <2>9. f[i + 1] = g[i]
    BY <1>1, <2>5, <2>6, <2>7, <2>8
  <2>10. QED
    BY <2>9
<1>6. f[Len(b) + 1] = g[Len(b)]
  BY <1>4, <1>5
<1>7. f[Len(b) + 2] = f[Len(b) + 1]
  <2>1. Len(b) + 2 \in 1 .. Len(a) /\ Len(b) + 2 - 1 = Len(b) + 1
    BY <1>1, <1>4
  <2>2. QED
    BY <1>1, <1>2, <2>1
<1>8. QED
  BY <1>1, <1>2, <1>3, <1>6, <1>7 DEF a

-----------------------------------------------------------------------------
(* What a step of the device does *)

(* What it sends when it has read a line, and the mode that follows *)
Said   == {<<t>> : t \in Chatter}
Spoken == {"echo", "config", "mention", "marked"} \cup Chatter
Heard(line, pieces, m) ==
  \/ mode = "login" /\ pieces = <<>> /\ m = "password"
  \/ mode = "password" /\ line = "password" /\ pieces \in Said /\ m = setup.shell
  \/ /\ mode = "password" /\ pieces \in Said /\ m = AtLogin(setup)
     /\ ~ (line = "password" /\ setup.known)
  \/ mode = "shell" /\ line = "enable" /\ pieces = <<"echo">> /\ m \in {"priv", "enable"}
  \/ mode = "enable" /\ line = "password" /\ pieces = <<>> /\ m = "priv"
  \/ mode = "enable" /\ pieces \in Said /\ m = "shell"
  \/ /\ mode \in Shells /\ line # "backup" /\ m = mode
     /\ pieces \in {<<"echo", t>> : t \in Chatter}
  \/ mode \in Shells /\ line = "backup" /\ pieces = <<"echo">> \o output' /\ m = mode

LEMMA SentPieces ==
  ASSUME NEW w \in Seq(Piece), NEW pieces \in Seq(Piece), NEW p \in Piece
  PROVE  LET v == w \o pieces \o <<p>>
         IN /\ v \in Seq(Piece) /\ Len(v) = Len(w) + Len(pieces) + 1
            /\ \A i \in 1 .. Len(v) :
                 \/ i \in 1 .. Len(w) /\ v[i] = w[i]
                 \/ i > Len(w) /\ i < Len(v) /\ \E j \in 1 .. Len(pieces) : v[i] = pieces[j]
                 \/ i = Len(v) /\ v[i] = p
<1>1. \A i \in 1 .. Len(pieces) : (w \o pieces \o <<p>>)[Len(w) + i] = pieces[i]
  OBVIOUS
<1>2. \A i \in 1 .. Len(w) + Len(pieces) + 1 :
        i > Len(w) /\ i # Len(w) + Len(pieces) + 1 =>
          i - Len(w) \in 1 .. Len(pieces) /\ i = Len(w) + (i - Len(w))
  OBVIOUS
<1>3. QED
  BY <1>1, <1>2

LEMMA AskIsPiece == ASSUME NEW m \in Asking \cup Shells PROVE Ask(m) \in Piece
BY DEF Ask, Asking, Shells, Piece

LEMMA AnswersArePieces ==
  ASSUME NEW o \in Outputs \cup {<<>>}
  PROVE  /\ o \in Seq(Piece) /\ <<"echo">> \o o \in Seq(Piece)
         /\ \A i \in 1 .. Len(o) : o[i] \in Spoken \ {"echo"}
<1>1. o \in Seq({"config", "mention", "marked"} \cup Chatter)
  <2>1. CASE o = <<>>
    BY <2>1
  <2>2. CASE o \in Outputs
    BY <2>2, SessionAssumption
  <2>3. QED
    BY <2>1, <2>2
<1>2. o \in Seq(Piece)
  BY <1>1 DEF Piece
<1>3. <<"echo">> \o o \in Seq(Piece)
  BY <1>2 DEF Piece
<1>4. \A i \in 1 .. Len(o) : o[i] \in {"config", "mention", "marked"} \cup Chatter
  BY <1>1
<1>5. QED
  BY <1>2, <1>3, <1>4 DEF Spoken, Chatter, LookAlikes

LEMMA AppendToOne == ASSUME NEW x, NEW y PROVE Append(<<x>>, y) = <<x, y>>
<1>1. Append(<<x>>, y) \in Seq({x, y}) /\ <<x, y>> \in Seq({x, y})
  OBVIOUS
<1>2. Len(Append(<<x>>, y)) = 2 /\ Len(<<x, y>>) = 2
  OBVIOUS
<1>3. \A i \in 1 .. 2 : Append(<<x>>, y)[i] = <<x, y>>[i]
  OBVIOUS
<1>4. QED
  BY <1>1, <1>2, <1>3, SeqEqual

LEMMA SetupShells ==
  ASSUME TypeOK
  PROVE  /\ setup.shell \in Shells /\ AtLogin(setup) \in {"login", "password", setup.shell}
         /\ setup.greets => AtLogin(setup) \in {"login", "password"}
         /\ setup.known \in BOOLEAN /\ setup.telnet \in BOOLEAN /\ setup.greets \in BOOLEAN
BY DEF TypeOK, Setup, AtLogin, Shells

(* What the device says of its own *)
LEMMA SaysSends ==
  ASSUME TypeOK, NEW pieces \in {<<>>, <<"echo">>}, NEW m, Says(pieces, m)
  PROVE  /\ looks' \in 0 .. MaxLooks
         /\ \E t \in Chatter :
              /\ Sends(Append(pieces, t), m) /\ Append(pieces, t) \in Seq(Piece)
              /\ pieces = <<>> => Append(pieces, t) = <<t>>
              /\ pieces = <<"echo">> => Append(pieces, t) = <<"echo", t>>
<1>1. PICK t \in Chatter :
        Sends(Append(pieces, t), m) /\ looks' = looks + LooksIn(t) /\ looks' <= MaxLooks
  BY DEF Says
<1>2. looks' \in 0 .. MaxLooks
  BY <1>1, SessionAssumption DEF LooksIn, TypeOK
<1>3. Append(<<>>, t) = <<t>> /\ Append(<<"echo">>, t) = <<"echo", t>>
  BY AppendToOne
<1>4. <<t>> \in Seq(Piece) /\ <<"echo", t>> \in Seq(Piece)
  BY DEF Piece
<1>5. QED
  BY <1>1, <1>2, <1>3, <1>4

LEMMA DeviceStep ==
  ASSUME TypeOK, Device
  PROVE  /\ pc \notin Ended /\ UNCHANGED <<setup, agent, noise>> /\ looks' \in 0 .. MaxLooks
         /\ \E line \in Line :
              /\ Reads(line)
              /\ misused' = (misused \/ (line = "password" /\ mode \in {"login"} \cup Shells))
              /\ \/ UNCHANGED output /\ (mode \in Shells => line # "backup")
                 \/ line = "backup" /\ mode \in Shells /\ output' \in Outputs
              /\ \/ /\ mode = "password" /\ mode' = "closed" /\ UNCHANGED wire
                    /\ ~ (line = "password" /\ setup.known)
                 \/ \E pieces \in Seq(Piece), m \in Asking \cup Shells :
                      Sends(pieces, m) /\ Heard(line, pieces, m)
<1> USE SetupShells DEF Shells, Asking, Line, Said
<1>0. <<>> \in Seq(Piece) /\ <<"echo">> \in Seq(Piece)
  BY DEF Piece
<1>b. misused \in BOOLEAN /\ looks \in 0 .. MaxLooks
  BY DEF TypeOK
<1>1. CASE ReadsLogin
  <2>1. PICK line \in Line : Reads(line) /\
          \/ mode = "login" /\ Sends(<<>>, "password") /\ Misuse(line) /\ UNCHANGED looks
          \/ /\ mode = "password" /\ UNCHANGED misused
             /\ IF line = "password" /\ setup.known
                  THEN Says(<<>>, setup.shell)
                  ELSE \/ Says(<<>>, AtLogin(setup))
                       \/ mode' = "closed" /\ UNCHANGED <<wire, looks>>
    BY <1>1 DEF ReadsLogin
  <2>2. pc \notin Ended /\ UNCHANGED <<setup, output, agent, noise>>
    BY <1>1 DEF ReadsLogin
  <2>3. CASE mode = "login"
    BY <1>0, <1>b, <2>1, <2>2, <2>3 DEF Misuse, Heard
  <2>4. ASSUME mode = "password", line = "password", Says(<<>>, setup.shell)
        PROVE  /\ looks' \in 0 .. MaxLooks
               /\ \E pieces \in Seq(Piece), m \in Asking \cup Shells :
                    Sends(pieces, m) /\ Heard(line, pieces, m)
    BY <2>4, SaysSends DEF Heard
  <2>5. ASSUME mode = "password", ~ (line = "password" /\ setup.known),
               Says(<<>>, AtLogin(setup))
        PROVE  /\ looks' \in 0 .. MaxLooks
               /\ \E pieces \in Seq(Piece), m \in Asking \cup Shells :
                    Sends(pieces, m) /\ Heard(line, pieces, m)
    BY <2>5, SaysSends DEF Heard
  <2>6. CASE mode = "password"
    BY <1>b, <2>1, <2>2, <2>4, <2>5, <2>6
  <2>7. QED
    BY <2>1, <2>3, <2>6
<1>2. CASE ReadsEnable
  BY <1>0, <1>b, <1>2 DEF ReadsEnable, Heard, bounds
<1>3. CASE ReadsSecret
  <2>1. PICK line \in Line :
          /\ Reads(line)
          /\ \/ line = "password" /\ Sends(<<>>, "priv") /\ UNCHANGED looks
             \/ Says(<<>>, "shell")
    BY <1>3 DEF ReadsSecret
  <2>2. pc \notin Ended /\ mode = "enable" /\ UNCHANGED <<setup, output, misused, agent, noise>>
    BY <1>3 DEF ReadsSecret
  <2>3. ASSUME Says(<<>>, "shell")
        PROVE  /\ looks' \in 0 .. MaxLooks
               /\ \E pieces \in Seq(Piece), m \in Asking \cup Shells :
                    Sends(pieces, m) /\ Heard(line, pieces, m)
    BY <2>2, <2>3, SaysSends DEF Heard
  <2>4. QED
    BY <1>0, <1>b, <2>1, <2>2, <2>3 DEF Heard
<1>4. CASE ReadsCommand
  <2>1. PICK line \in Line \ {"backup"} :
          Reads(line) /\ Says(<<"echo">>, mode) /\ Misuse(line)
    BY <1>4 DEF ReadsCommand
  <2>2. pc \notin Ended /\ mode \in Shells /\ UNCHANGED <<setup, output, agent, noise>>
    BY <1>4 DEF ReadsCommand
  <2>3. /\ looks' \in 0 .. MaxLooks
        /\ \E pieces \in Seq(Piece), m \in Asking \cup Shells :
             Sends(pieces, m) /\ Heard(line, pieces, m)
    BY <2>1, <2>2, SaysSends DEF Heard
  <2>4. QED
    BY <1>b, <2>1, <2>2, <2>3 DEF Misuse
<1>5. CASE ReadsBackup
  <2>1. /\ pc \notin Ended /\ mode \in Shells /\ Reads("backup")
        /\ UNCHANGED <<setup, misused, agent, noise, looks>>
        /\ output' \in Outputs /\ Sends(<<"echo">> \o output', mode)
    BY <1>5 DEF ReadsBackup, bounds
  <2>2. <<"echo">> \o output' \in Seq(Piece)
    BY <2>1, AnswersArePieces
  <2>3. Heard("backup", <<"echo">> \o output', mode)
    BY <2>1 DEF Heard
  <2>4. QED
    BY <1>b, <2>1, <2>2, <2>3
<1>6. QED
  BY <1>1, <1>2, <1>3, <1>4, <1>5 DEF Device

-----------------------------------------------------------------------------
LEMMA InitTypeOK == Init => TypeOK
<1> SUFFICES ASSUME Init PROVE TypeOK
  OBVIOUS
<1>1. setup \in Setup /\ mode = AtLogin(setup)
  BY DEF Init
<1>2. mode \in Asking \cup Shells
  BY <1>1 DEF Setup, AtLogin, Asking, Shells
<1>3. Ask(mode) \in Piece
  BY <1>2, AskIsPiece
<1>4. wire \in Seq(Piece)
  BY <1>3 DEF Init, Piece, Chatter
<1>5. typed \in Seq(Line) /\ acc \in Seq(Piece) /\ output \in Outputs \cup {<<>>}
  BY DEF Init
<1>6. /\ sent \in 0 .. InitCommands /\ noise \in 0 .. MaxNoise
      /\ looks \in 0 .. MaxLooks /\ lured \subseteq LookAlikes
  BY SessionAssumption DEF Init, LooksIn
<1>7. pc \in Waiting \cup Ended /\ misused \in BOOLEAN /\ early \in BOOLEAN
  BY DEF Init, Waiting
<1>8. QED
  BY <1>1, <1>2, <1>4, <1>5, <1>6, <1>7, Zenon DEF TypeOK

LEMMA NextTypeOK == TypeOK /\ [Next]_vars => TypeOK'
<1> SUFFICES ASSUME TypeOK, [Next]_vars PROVE TypeOK'
  OBVIOUS
<1>t. /\ setup \in Setup /\ mode \in Asking \cup Shells \cup {"closed"}
      /\ output \in Outputs \cup {<<>>} /\ wire \in Seq(Piece) /\ typed \in Seq(Line)
      /\ acc \in Seq(Piece) /\ pc \in Waiting \cup Ended /\ sent \in 0 .. InitCommands
      /\ misused \in BOOLEAN /\ early \in BOOLEAN /\ noise \in 0 .. MaxNoise
      /\ lured \subseteq LookAlikes /\ looks \in 0 .. MaxLooks
  BY DEF TypeOK
<1>m. MaxNoise \in Nat
  BY SessionAssumption
<1>1. CASE Device
  <2>1. PICK line \in Line :
          /\ Reads(line) /\ UNCHANGED <<setup, agent, noise>> /\ looks' \in 0 .. MaxLooks
          /\ misused' = (misused \/ (line = "password" /\ mode \in {"login"} \cup Shells))
          /\ UNCHANGED output \/ output' \in Outputs
          /\ \/ mode' = "closed" /\ UNCHANGED wire
             \/ \E pieces \in Seq(Piece), m \in Asking \cup Shells : Sends(pieces, m)
    BY <1>1, DeviceStep
  <2>2. typed' \in Seq(Line)
    BY <1>t, <2>1 DEF Reads
  <2>3. wire' \in Seq(Piece) /\ mode' \in Asking \cup Shells \cup {"closed"}
    <3>1. CASE mode' = "closed" /\ UNCHANGED wire
      BY <1>t, <3>1
    <3>2. ASSUME NEW pieces \in Seq(Piece), NEW m \in Asking \cup Shells, Sends(pieces, m)
          PROVE  wire' \in Seq(Piece) /\ mode' \in Asking \cup Shells \cup {"closed"}
      BY <1>t, <3>2, SentPieces, AskIsPiece DEF Sends
    <3>3. QED
      BY <2>1, <3>1, <3>2
  <2>4. noise' \in 0 .. MaxNoise /\ output' \in Outputs \cup {<<>>}
    BY <1>t, <2>1
  <2>5. QED
    BY <1>t, <2>1, <2>2, <2>3, <2>4 DEF TypeOK, agent
<1>2. CASE Read
  <2>1. PICK n \in 1 .. Len(wire) :
          /\ wire' = SubSeq(wire, n + 1, Len(wire)) /\ UNCHANGED <<setup, device, bounds>>
          /\ lured' \subseteq lured \cup LookAlikes
          /\ \/ /\ acc' = acc \o SubSeq(wire, 1, n)
                /\ UNCHANGED <<pc, sent, early, typed>>
             \/ /\ pc' = "ok" /\ acc' = Clean(acc \o SubSeq(wire, 1, n))
                /\ typed' = Append(typed, "exit") /\ UNCHANGED <<sent, early>>
             \/ /\ \E line \in Line, next \in Waiting : pc' = next /\ typed' = Append(typed, line)
                /\ acc' = <<>> /\ sent' \in 0 .. InitCommands
                /\ early' = (early \/ wire' # <<>> \/ typed # <<>>)
    BY <1>2, ReadStep
  <2>2. wire' \in Seq(Piece)
    BY <1>t, <2>1, Suffix
  <2>3. acc \o SubSeq(wire, 1, n) \in Seq(Piece)
    BY <1>t, Taken
  <2>4. Clean(acc \o SubSeq(wire, 1, n)) \in Seq(Piece)
    BY <2>3, WithoutType DEF Clean
  <2>5. <<>> \in Seq(Piece) /\ "exit" \in Line
    BY DEF Line
  <2>6. acc' \in Seq(Piece) /\ typed' \in Seq(Line) /\ pc' \in Waiting \cup Ended
    <3>1. acc' \in Seq(Piece)
      BY <2>1, <2>3, <2>4, <2>5
    <3>2. typed' = typed \/ \E line \in Line : typed' = Append(typed, line)
      BY <2>1, <2>5
    <3>3. typed' \in Seq(Line)
      <4>1. \A line \in Line : Append(typed, line) \in Seq(Line)
        BY <1>t
      <4>2. QED
        BY <1>t, <3>2, <4>1
    <3>4. pc' \in Waiting \cup Ended
      BY <1>t, <2>1 DEF Ended
    <3>5. QED
      BY <3>1, <3>3, <3>4
  <2>7. sent' \in 0 .. InitCommands /\ early' \in BOOLEAN
    BY <1>t, <2>1
  <2>8. QED
    BY <1>t, <2>1, <2>2, <2>6, <2>7 DEF TypeOK, device, bounds
<1>3. CASE Fails \/ UNCHANGED vars
  BY <1>t, <1>3 DEF Fails, vars, device, agent, bounds, TypeOK, Ended
<1>4. CASE LogsMessage
  <2>1. wire' \in Seq(Piece) /\ looks' \in 0 .. MaxLooks /\ mode' = mode
    <3>1. mode \in Shells /\ looks' \in 0 .. MaxLooks
          /\ \E pieces \in Seq(Piece) : Sends(pieces, mode)
      BY <1>4, SaysSends DEF LogsMessage
    <3>2. QED
      BY <1>4, <1>t, <3>1, SentPieces, AskIsPiece DEF Sends
  <2>2. noise' \in 0 .. MaxNoise
    BY <1>4, <1>t, <1>m DEF LogsMessage
  <2>3. QED
    BY <1>4, <1>t, <2>1, <2>2 DEF LogsMessage, TypeOK, agent
<1>5. QED
  BY <1>1, <1>2, <1>3, <1>4 DEF Next, Agent, TimesOut, Disconnected

(* Every variable of the dialogue keeps its type *)
THEOREM TypeCorrect == Spec => []TypeOK
BY InitTypeOK, NextTypeOK, PTL DEF Spec

-----------------------------------------------------------------------------
(* The password is typed only where it is asked for *)

LEMMA LinesRead ==
  ASSUME NEW line, Reads(line), typed \in Seq(Line)
  PROVE  /\ typed # <<>> /\ Len(typed') = Len(typed) - 1
         /\ \A x : typed = <<x>> => line = x /\ typed' = <<>>
         /\ \A x, y : typed = <<x, y>> => line = x /\ typed' = <<y>>
         /\ \A i \in 1 .. Len(typed') : \E j \in 1 .. Len(typed) : typed'[i] = typed[j]
         /\ \E j \in 1 .. Len(typed) : line = typed[j]
<1>1. /\ typed # <<>> /\ line = typed[1] /\ typed' = Tail(typed)
      /\ Len(typed') = Len(typed) - 1 /\ Len(typed) \in Nat \ {0}
      /\ \A i \in 1 .. Len(typed') : typed'[i] = typed[i + 1] /\ i + 1 \in 1 .. Len(typed)
  BY DEF Reads
<1>2. \A x : typed = <<x>> => line = x /\ typed' = <<>>
  BY <1>1
<1>3. \A x, y : typed = <<x, y>> => line = x /\ typed' = <<y>>
  BY <1>1
<1>4. QED
  BY <1>1, <1>2, <1>3

LEMMA LastSuffix ==
  ASSUME TypeOK, NEW n \in 1 .. Len(wire), wire' = SubSeq(wire, n + 1, Len(wire))
  PROVE  /\ \A piece : Holds(wire', piece) => Holds(wire, piece)
         /\ Prompted(wire') => Prompted(wire)
         /\ \A i \in 1 .. Len(wire') : i + n \in 1 .. Len(wire) /\ wire'[i] = wire[i + n]
         /\ Len(wire') = Len(wire) - n /\ (n = Len(wire) => wire' = <<>>)
<1>1. wire \in Seq(Piece)
  BY DEF TypeOK
<1>2. /\ Len(wire') = Len(wire) - n /\ wire' \in Seq(Piece)
      /\ \A i \in 1 .. Len(wire') : i + n \in 1 .. Len(wire) /\ wire'[i] = wire[i + n]
  BY <1>1, Suffix
<1>3. QED
  BY <1>1, <1>2 DEF Holds, Prompted

LEMMA PiecesHeard ==
  ASSUME TypeOK, NEW line, NEW pieces \in Seq(Piece), NEW m \in Asking \cup Shells,
         Heard(line, pieces, m), output' \in Outputs \cup {<<>>},
         NEW i \in 1 .. Len(pieces)
  PROVE  pieces[i] \in Spoken
<1>1. CASE pieces = <<"echo">> \o output'
  <2>1. output' \in Seq(Piece) /\ \A j \in 1 .. Len(output') : output'[j] \in Spoken
    BY AnswersArePieces
  <2>2. pieces[i] = "echo" \/ \E j \in 1 .. Len(output') : pieces[i] = output'[j]
    BY <1>1, <2>1
  <2>3. QED
    BY <2>1, <2>2 DEF Spoken
<1>2. CASE pieces \in {<<>>, <<"echo">>}
  BY <1>2 DEF Spoken
<1>3. ASSUME NEW t \in Chatter, pieces = <<t>> \/ pieces = <<"echo", t>>
      PROVE  pieces[i] \in Spoken
  BY <1>3 DEF Spoken
<1>4. QED
  BY <1>1, <1>2, <1>3 DEF Heard, Said

(* Where the pieces of wire come from when the device sends *)
LEMMA WireSent ==
  ASSUME TypeOK, NEW line, NEW pieces \in Seq(Piece), NEW m \in Asking \cup Shells,
         Heard(line, pieces, m), Sends(pieces, m), output' \in Outputs \cup {<<>>}
  PROVE  /\ mode' = m /\ wire' \in Seq(Piece) /\ Len(wire') > Len(wire)
         /\ \A i \in 1 .. Len(wire') :
              \/ i \in 1 .. Len(wire) /\ wire'[i] = wire[i]
              \/ i > Len(wire) /\ i < Len(wire') /\ wire'[i] \in Spoken
              \/ i = Len(wire') /\ i > Len(wire) /\ wire'[i] = Ask(m)
<1>1. wire \in Seq(Piece) /\ Ask(m) \in Piece
  BY AskIsPiece DEF TypeOK
<1>2. mode' = m /\ wire' = wire \o pieces \o <<Ask(m)>>
  BY DEF Sends
<1>3. /\ wire' \in Seq(Piece) /\ Len(wire') = Len(wire) + Len(pieces) + 1
      /\ \A i \in 1 .. Len(wire') :
           \/ i \in 1 .. Len(wire) /\ wire'[i] = wire[i]
           \/ i > Len(wire) /\ i < Len(wire') /\ \E j \in 1 .. Len(pieces) : wire'[i] = pieces[j]
           \/ i = Len(wire') /\ wire'[i] = Ask(m)
  BY <1>1, <1>2, SentPieces
<1>4. Len(wire) \in Nat /\ Len(pieces) \in Nat
  BY <1>1
<1>5. QED
  BY <1>2, <1>3, <1>4, PiecesHeard

(* What the device says of its own is none of its prompts *)
LEMMA SpokenIsNoPrompt ==
  Spoken \cap ({"user", "pass", "verification"} \cup Shells) = {}
BY DEF Spoken, Chatter, LookAlikes, Shells

LEMMA InitPhaseInv == Init => PhaseInv /\ ~ misused
<1> SUFFICES ASSUME Init PROVE PhaseInv /\ ~ misused
  OBVIOUS
<1>1. setup \in Setup /\ mode = AtLogin(setup) /\ mode \in {"login", "password"} \cup Shells
  BY DEF Init, Setup, AtLogin, Shells
<1>2. /\ Len(wire) = 2 /\ wire[1] \in {"verification"} \cup Chatter /\ wire[2] = Ask(mode)
      /\ wire[1] = "verification" => setup.greets
  BY DEF Init, Chatter, LookAlikes
<1>3. \A i \in 1 .. Len(wire) : i = 1 \/ i = 2
  BY <1>2
<1>4. AtStart
  BY <1>1, <1>2, <1>3
  DEF Init, AtStart, Holds, Prompted, Ask, Shells, Chatter, LookAlikes
<1>5. QED
  BY <1>4 DEF Init, PhaseInv

LEMMA DevicePhaseInv ==
  ASSUME AskedInv, Undeceived, Device PROVE PhaseInv' /\ misused' = FALSE
<1>t. /\ TypeOK /\ PhaseInv /\ misused = FALSE /\ typed \in Seq(Line)
      /\ output \in Outputs \cup {<<>>}
  BY DEF AskedInv, TypeOK
<1>1. PICK line \in Line :
        /\ Reads(line) /\ pc \notin Ended /\ UNCHANGED <<setup, agent>>
        /\ misused' = (misused \/ (line = "password" /\ mode \in {"login"} \cup Shells))
        /\ output' \in Outputs \cup {<<>>}
        /\ \/ /\ mode = "password" /\ mode' = "closed" /\ UNCHANGED wire
              /\ ~ (line = "password" /\ setup.known)
           \/ \E pieces \in Seq(Piece), m \in Asking \cup Shells :
                Sends(pieces, m) /\ Heard(line, pieces, m)
  BY <1>t, DeviceStep
<1>l. /\ typed # <<>>
      /\ \A x : typed = <<x>> => line = x /\ typed' = <<>>
      /\ \A x, y : typed = <<x, y>> => line = x /\ typed' = <<y>>
      /\ \A i \in 1 .. Len(typed') : \E j \in 1 .. Len(typed) : typed'[i] = typed[j]
      /\ \E j \in 1 .. Len(typed) : line = typed[j]
  BY <1>t, <1>1, LinesRead
<1>u. pc' = pc /\ setup' = setup /\ lured' = lured
  BY <1>1 DEF agent
<1>s. /\ setup.shell \in Shells /\ AtLogin(setup) \in {"login", "password", setup.shell}
  BY <1>t, SetupShells
<1> DEFINE Sent(i, m) == \/ i \in 1 .. Len(wire) /\ wire'[i] = wire[i]
                         \/ /\ i > Len(wire) /\ i < Len(wire')
                            /\ wire'[i] \notin {"pass"} \cup Shells
                         \/ i = Len(wire') /\ i > Len(wire) /\ wire'[i] = Ask(m)
<1>2. CASE mode = "password" /\ mode' = "closed" /\ UNCHANGED wire
  <2>1. misused' = FALSE
    BY <1>t, <1>1, <1>2 DEF Shells
  <2>2. (Prompted(wire))' <=> Prompted(wire)
    BY <1>2 DEF Prompted
  <2>3. ASSUME pc = "user" PROVE NameTyped'
    <3>1. ~ Prompted(wire) /\ typed = <<"username">>
      BY <1>t, <1>l, <1>2, <2>3 DEF PhaseInv, NameTyped, Shells
    <3>2. QED
      BY <1>l, <1>2, <2>2, <3>1 DEF NameTyped
  <2>4. ASSUME pc = "password" PROVE PasswordTyped'
    <3>1. /\ ~ Prompted(wire)
          /\ typed = <<"username", "password">> \/ typed = <<"password">>
      BY <1>t, <1>l, <2>4 DEF PhaseInv, PasswordTyped
    <3>2. typed' = <<"password">> \/ typed' = <<>>
      BY <1>l, <3>1
    <3>3. ~ (Prompted(wire))'
      BY <2>2, <3>1
    <3>4. \A i \in 1 .. Len(wire') : wire'[i] \notin Shells
      BY <3>3 DEF Prompted
    <3>5. QED
      BY <1>2, <3>2, <3>3, <3>4 DEF PasswordTyped
  <2>5. pc \in {"user", "password"}
    <3>1. pc \in Waiting
      BY <1>t, <1>1 DEF TypeOK
    <3>2. pc # "initial"
      BY <1>t, <1>l DEF PhaseInv, AtStart
    <3>3. pc \notin {"enable", "enablePassword", "init", "backup"}
      BY <1>t, <1>l, <1>2 DEF PhaseInv, EnableTyped, SecretTyped, CommandsTyped, Shells
    <3>4. QED
      BY <3>1, <3>2, <3>3 DEF Waiting
  <2>6. QED
    BY <1>u, <2>1, <2>3, <2>4, <2>5 DEF PhaseInv
<1>4. ASSUME NEW pieces \in Seq(Piece), NEW m \in Asking \cup Shells,
             Sends(pieces, m), Heard(line, pieces, m)
      PROVE  PhaseInv' /\ misused' = FALSE
  <2>1. mode' = m /\ \A i \in 1 .. Len(wire') : Sent(i, m)
    BY <1>t, <1>1, <1>4, WireSent, SpokenIsNoPrompt
  <2> HIDE DEF Sent
  <2>2. ASSUME pc = "user" PROVE NameTyped' /\ misused' = FALSE
    <3>1. typed = <<"username">> /\ line = "username" /\ typed' = <<>> /\ NameTyped
      BY <1>t, <1>l, <2>2 DEF PhaseInv, NameTyped
    <3>2. misused' = FALSE
      BY <1>t, <1>1, <3>1
    <3>3. CASE mode \in Shells
      <4>1. lured # {} /\ ~ Holds(wire, "pass")
        BY <3>1, <3>3 DEF NameTyped, Shells, Asking
      <4>2. m \in Shells
        BY <1>4, <3>1, <3>3 DEF Heard, Shells
      <4>3. ~ Holds(wire', "pass")
        BY <2>1, <4>1, <4>2 DEF Holds, Sent, Ask, Shells
      <4>4. QED
        BY <1>u, <2>1, <3>1, <3>2, <4>1, <4>2, <4>3 DEF NameTyped
    <3>4. CASE mode \notin Shells
      <4>1. mode \in {"login", "password"} /\ mode = AtLogin(setup) /\ ~ Prompted(wire)
        BY <1>s, <3>1, <3>4 DEF NameTyped, Asking, Shells
      <4>2. m = "password"
        BY <1>4, <3>1, <4>1 DEF Heard, Shells
      <4>3. ~ Prompted(wire')
        BY <2>1, <4>1, <4>2 DEF Prompted, Sent, Ask, Shells
      <4>4. QED
        BY <2>1, <3>1, <3>2, <4>2, <4>3 DEF NameTyped
    <3>5. QED
      BY <3>3, <3>4
  <2>3. ASSUME pc = "password" PROVE PasswordTyped' /\ misused' = FALSE
    <3>1. PasswordTyped /\ ~ Prompted(wire) /\ mode = "password"
      BY <1>t, <1>l, <1>4, <2>3 DEF PhaseInv, PasswordTyped, Heard, Shells
    <3>2. CASE typed = <<"username", "password">>
      <4>1. line = "username" /\ typed' = <<"password">> /\ m = "password"
        BY <1>l, <1>4, <3>1, <3>2 DEF Heard, Shells, PasswordTyped
      <4>2. ~ Prompted(wire')
        BY <2>1, <3>1, <4>1 DEF Prompted, Sent, Ask, Shells
      <4>3. QED
        BY <1>t, <1>1, <2>1, <4>1, <4>2 DEF PasswordTyped, Prompted
    <3>3. CASE typed = <<"password">>
      <4>1. line = "password" /\ typed' = <<>> /\ m \in {"login", "password"} \cup Shells
        BY <1>l, <1>s, <1>4, <3>1, <3>3 DEF Heard, Shells
      <4>2. \A i \in 1 .. Len(wire') : wire'[i] \in Shells => i = Len(wire') /\ m \in Shells
        BY <2>1, <3>1, <4>1 DEF Prompted, Sent, Ask, Shells
      <4>3. wire' \in Seq(Piece)
        BY <1>t, <1>1, <1>4, WireSent
      <4>4. \A i, j \in 1 .. Len(wire') : i < j /\ wire'[i] \in Shells => wire'[j] # "pass"
        BY <4>2, <4>3
      <4>5. (Prompted(wire))' => m \in Shells
        BY <4>2 DEF Prompted
      <4>6. PasswordTyped'
        BY <2>1, <4>1, <4>4, <4>5 DEF PasswordTyped
      <4>7. misused' = FALSE
        BY <1>t, <1>1, <3>1 DEF Shells
      <4>8. QED
        BY <4>6, <4>7
    <3>4. QED
      BY <1>l, <3>1, <3>2, <3>3 DEF PasswordTyped
  <2>4. ASSUME pc = "enable" PROVE EnableTyped' /\ misused' = FALSE
    <3>1. /\ typed \in {<<"username", "enable">>, <<"enable">>}
          /\ mode \in Shells \cup {"enable"} /\ ~ Holds(wire, "pass")
      BY <1>t, <1>l, <2>4 DEF PhaseInv, EnableTyped, Holds
    <3>2. \/ line = "username" /\ typed' = <<"enable">> /\ m \in Shells
          \/ line = "enable" /\ typed' = <<>> /\ m \in Shells \cup {"enable"}
      BY <1>l, <1>4, <3>1 DEF Heard, Shells
    <3>3. \A i \in 1 .. Len(wire') : wire'[i] = "pass" => i = Len(wire') /\ m = "enable"
      BY <2>1, <3>1, <3>2 DEF Holds, Sent, Ask, Shells
    <3>4. m = "enable" => typed' = <<>>
      BY <3>2 DEF Shells
    <3>5. QED
      BY <1>t, <1>1, <2>1, <3>2, <3>3, <3>4 DEF EnableTyped
  <2>5. ASSUME pc = "enablePassword" PROVE SecretTyped' /\ misused' = FALSE
    <3>1. typed = <<"password">> /\ mode = "enable"
      BY <1>t, <1>l, <2>5 DEF PhaseInv, SecretTyped
    <3>2. line = "password" /\ typed' = <<>> /\ m \in Shells
      BY <1>l, <1>4, <3>1 DEF Heard, Shells
    <3>3. QED
      BY <1>t, <1>1, <2>1, <3>1, <3>2 DEF SecretTyped, Shells
  <2>6. ASSUME pc \in {"init", "backup"} PROVE CommandsTyped' /\ misused' = FALSE
    <3>1. line # "password" /\ CommandsTyped
      BY <1>t, <1>l, <2>6 DEF PhaseInv, CommandsTyped
    <3>2. m \in Shells \cup {"enable"}
      BY <1>4, <3>1 DEF Heard, Shells, CommandsTyped
    <3>3. QED
      BY <1>t, <1>l, <1>1, <2>1, <3>1, <3>2 DEF CommandsTyped
  <2>7. pc # "initial" /\ pc \in Waiting
    BY <1>t, <1>l, <1>1 DEF PhaseInv, AtStart, TypeOK, Ended
  <2>8. QED
    BY <1>u, <2>2, <2>3, <2>4, <2>5, <2>6, <2>7
    DEF PhaseInv, Waiting
<1>5. QED
  BY <1>1, <1>2, <1>4

LEMMA ReadPhaseInv ==
  ASSUME AskedInv, Undeceived', Read PROVE PhaseInv' /\ misused' = FALSE
<1>t. /\ TypeOK /\ PhaseInv /\ misused = FALSE /\ typed \in Seq(Line) /\ wire \in Seq(Piece)
  <2>1. lured \subseteq lured'
    BY ReadStep DEF AskedInv
  <2>2. QED
    BY <2>1 DEF AskedInv, Undeceived, TypeOK
<1>1. PICK n \in 1 .. Len(wire) :
        /\ wire' = SubSeq(wire, n + 1, Len(wire)) /\ UNCHANGED <<setup, device, bounds>>
        /\ \/ UNCHANGED <<pc, typed, lured>>
           \/ pc' = "ok"
           \/ /\ \E line \in Line, next \in Waiting :
                   Reply(wire[n], line, next) /\ pc' = next /\ typed' = Append(typed, line)
              /\ lured' = lured \cup ({wire[n]} \cap LookAlikes)
  BY <1>t, ReadStep
<1>2. /\ \A piece : Holds(wire', piece) => Holds(wire, piece)
      /\ Prompted(wire') => Prompted(wire)
      /\ \A i \in 1 .. Len(wire') : i + n \in 1 .. Len(wire) /\ wire'[i] = wire[i + n]
      /\ Len(wire') = Len(wire) - n /\ (n = Len(wire) => wire' = <<>>)
  BY <1>t, <1>1, LastSuffix
<1>3. mode' = mode /\ setup' = setup /\ misused' = FALSE /\ wire # <<>>
  BY <1>t, <1>1 DEF device
<1>4. CASE UNCHANGED <<pc, typed, lured>>
  <2>1. AtStart => AtStart'
    BY <1>2, <1>3, <1>4 DEF AtStart
  <2>2. NameTyped => NameTyped'
    BY <1>2, <1>3, <1>4 DEF NameTyped
  <2>3. PasswordTyped => PasswordTyped'
    <3>1. SUFFICES ASSUME PasswordTyped PROVE PasswordTyped'
      OBVIOUS
    <3>2. \A i, j \in 1 .. Len(wire') : i < j /\ wire'[i] \in Shells => wire'[j] # "pass"
      <4>1. ASSUME NEW i \in 1 .. Len(wire'), NEW j \in 1 .. Len(wire'),
                   i < j, wire'[i] \in Shells
            PROVE  wire'[j] # "pass"
        <5>1. i + n \in 1 .. Len(wire) /\ j + n \in 1 .. Len(wire) /\ i + n < j + n
          BY <1>2, <1>t, <4>1
        <5>2. QED
          BY <1>2, <3>1, <4>1, <5>1 DEF PasswordTyped
      <4>2. QED
        BY <4>1
    <3>3. QED
      BY <1>2, <1>3, <1>4, <3>1, <3>2 DEF PasswordTyped
  <2>4. EnableTyped => EnableTyped'
    <3>1. SUFFICES ASSUME EnableTyped PROVE EnableTyped'
      OBVIOUS
    <3>2. ASSUME NEW i \in 1 .. Len(wire'), wire'[i] = "pass"
          PROVE  i = Len(wire') /\ mode = "enable" /\ typed = <<>>
      <4>1. i + n = Len(wire) /\ mode = "enable" /\ typed = <<>>
        BY <1>2, <3>1, <3>2 DEF EnableTyped
      <4>2. QED
        <5>1. Len(wire) \in Nat /\ n \in Nat /\ Len(wire') = Len(wire) - n /\ i \in Nat
          BY <1>2, <1>t
        <5>2. QED
          BY <4>1, <5>1
    <3>3. QED
      BY <1>3, <1>4, <3>1, <3>2 DEF EnableTyped
  <2>5. SecretTyped => SecretTyped'
    BY <1>3, <1>4 DEF SecretTyped
  <2>6. CommandsTyped => CommandsTyped'
    BY <1>3, <1>4 DEF CommandsTyped
  <2>7. QED
    BY <1>t, <1>3, <1>4, <2>1, <2>2, <2>3, <2>4, <2>5, <2>6 DEF PhaseInv
<1>5. CASE pc' = "ok"
  BY <1>3, <1>5 DEF PhaseInv
<1>6. ASSUME NEW line \in Line, NEW next \in Waiting,
             Reply(wire[n], line, next), pc' = next, typed' = Append(typed, line),
             lured' = lured \cup ({wire[n]} \cap LookAlikes)
      PROVE  PhaseInv'
  <2>0. wire[n] \notin {"passLike", "like"} /\ (wire[n] = "userLike" => lured' # {})
    BY <1>6 DEF Undeceived, LookAlikes
  <2>1. /\ Holds(wire, wire[n]) /\ (wire[n] \in Prompts => Prompted(wire))
        /\ wire[n] \in Prompts => wire[n] \in Shells
        /\ wire[n] \in Passes => wire[n] = "pass"
    BY <2>0 DEF Holds, Prompted, Prompts, Passes
  <2>2. typed = <<>> => typed' = <<line>>
    BY <1>6
  <2>3. ASSUME pc = "initial", wire[n] \in Users \cup {"verification"},
               line = "username", next = "user"
        PROVE  NameTyped'
    <3>1. AtStart
      BY <1>t, <2>3 DEF PhaseInv
    <3>2. CASE AtLogin(setup) \in {"login", "password"}
      <4>1. ~ Prompted(wire) /\ mode \in Asking
        BY <3>1, <3>2 DEF AtStart, Shells, Asking
      <4>2. QED
        BY <1>2, <1>3, <2>2, <2>3, <3>1, <4>1 DEF NameTyped, AtStart
    <3>3. CASE AtLogin(setup) \notin {"login", "password"}
      <4>1. mode \in Shells /\ ~ Holds(wire, "pass") /\ wire[n] = "userLike"
        BY <1>t, <2>1, <2>3, <3>1, <3>3, SetupShells DEF AtStart, Users
      <4>2. QED
        BY <1>2, <1>3, <2>0, <2>2, <2>3, <3>1, <4>1 DEF NameTyped, AtStart
    <3>4. QED
      BY <3>2, <3>3
  <2>4. ASSUME pc \in {"initial", "user"}, wire[n] = "pass",
               line = "password", next = "password"
        PROVE  PasswordTyped'
    <3>1. /\ ~ Prompted(wire)
          /\ \/ typed' = <<"password">> /\ mode \in {"password", "closed"}
             \/ typed' = <<"username", "password">> /\ mode = "password" /\ AtLogin(setup) = mode
      <4>1. CASE pc = "initial"
        BY <1>t, <2>1, <2>2, <2>4, <4>1 DEF PhaseInv, AtStart, Shells
      <4>2. CASE pc = "user"
        <5>1. typed = <<"username">> => typed' = <<"username", "password">>
          <6>1. Append(<<"username">>, "password") = <<"username", "password">>
            BY AppendToOne
          <6>2. QED
            BY <1>6, <2>4, <6>1, Zenon
        <5>2. QED
          BY <1>t, <2>1, <2>2, <2>4, <4>2, <5>1 DEF PhaseInv, NameTyped
      <4>3. QED
        BY <2>4, <4>1, <4>2
    <3>2. \A i \in 1 .. Len(wire') : wire'[i] \notin Shells
      BY <1>2, <3>1 DEF Prompted
    <3>3. QED
      BY <1>3, <3>1, <3>2 DEF PasswordTyped, Prompted
  <2>5. ASSUME pc \in {"initial", "user", "password"}, wire[n] \in Prompts
        PROVE  /\ mode \in Shells /\ ~ Holds(wire', "pass")
               /\ typed = <<>> \/ typed = <<"username">>
    <3>1. CASE pc = "initial"
      BY <1>t, <1>2, <2>1, <2>5, <3>1 DEF PhaseInv, AtStart, Shells
    <3>2. CASE pc = "user"
      BY <1>t, <1>2, <2>1, <2>5, <3>2 DEF PhaseInv, NameTyped
    <3>3. CASE pc = "password"
      <4>1. PasswordTyped
        BY <1>t, <3>3 DEF PhaseInv
      <4>2. ASSUME NEW i \in 1 .. Len(wire') PROVE wire'[i] # "pass"
        <5>1. i + n \in 1 .. Len(wire) /\ n < i + n /\ wire'[i] = wire[i + n]
          BY <1>2, <1>t
        <5>2. QED
          BY <2>1, <2>5, <4>1, <5>1 DEF PasswordTyped
      <4>3. QED
        BY <2>1, <2>5, <4>1, <4>2 DEF PasswordTyped, Holds
    <3>4. QED
      BY <2>5, <3>1, <3>2, <3>3
  <2>6. ASSUME pc \in {"initial", "user", "password"}, wire[n] \in Prompts,
               line = "enable", next = "enable"
        PROVE  EnableTyped'
    <3>1. typed = <<"username">> => typed' = <<"username", "enable">>
      <4>1. Append(<<"username">>, "enable") = <<"username", "enable">>
        BY AppendToOne
      <4>2. QED
        BY <1>6, <2>6, <4>1, Zenon
    <3>2. QED
      BY <1>3, <2>2, <2>5, <2>6, <3>1 DEF EnableTyped, Holds
  <2>7. ASSUME pc \in Waiting \ {"backup"}, wire[n] \in Prompts, line \in {"init", "backup"}
        PROVE  CommandsTyped'
    <3>1. /\ mode \in Shells \cup {"enable"}
          /\ \A i \in 1 .. Len(typed) : typed[i] \in {"username", "enable", "init", "backup"}
      <4>1. CASE pc \in {"initial", "user", "password"}
        BY <1>t, <2>5, <2>7, <4>1
      <4>2. CASE pc = "enable"
        BY <1>t, <4>2 DEF PhaseInv, EnableTyped
      <4>3. CASE pc = "enablePassword"
        BY <1>t, <1>3, <4>3 DEF PhaseInv, SecretTyped
      <4>4. CASE pc = "init"
        BY <1>t, <4>4 DEF PhaseInv, CommandsTyped
      <4>5. QED
        BY <2>7, <4>1, <4>2, <4>3, <4>4 DEF Waiting
    <3>2. \A i \in 1 .. Len(typed') : typed'[i] \in {typed[i], line} /\
            (i \in 1 .. Len(typed) \/ typed'[i] = line)
      BY <1>t, <1>6
    <3>3. QED
      BY <1>3, <2>7, <3>1, <3>2 DEF CommandsTyped
  <2>8. ASSUME pc = "enable", wire[n] = "pass", line = "password", next = "enablePassword"
        PROVE  SecretTyped'
    BY <1>t, <1>2, <1>3, <2>2, <2>8 DEF PhaseInv, EnableTyped, SecretTyped
  <2>9. QED
    BY <1>6, <2>1, <2>3, <2>4, <2>6, <2>7, <2>8 DEF Reply, PhaseInv
<1>7. QED
  BY <1>1, <1>3, <1>4, <1>5, <1>6

LEMMA LogsPhaseInv ==
  ASSUME AskedInv, Undeceived, LogsMessage PROVE PhaseInv' /\ misused' = FALSE
<1>t. TypeOK /\ PhaseInv /\ misused = FALSE /\ wire \in Seq(Piece)
  BY DEF AskedInv, TypeOK
<1>0. PICK t \in Chatter : Sends(<<t>>, mode)
  BY <1>t, SaysSends DEF LogsMessage
<1>1. /\ mode \in Shells /\ wire' = wire \o <<t>> \o <<mode>>
      /\ UNCHANGED <<setup, mode, misused, typed, pc, lured>>
  BY <1>0 DEF LogsMessage, Sends, Ask, Shells, agent
<1>2. wire' \in Seq(Piece) /\ \A i \in 1 .. Len(wire') :
        \/ i \in 1 .. Len(wire) /\ wire'[i] = wire[i]
        \/ i > Len(wire) /\ wire'[i] \in Chatter \cup {"shell", "priv"}
  BY <1>t, <1>1 DEF Shells, Piece
<1>3. misused' = FALSE /\ "pass" \notin Chatter /\ "user" \notin Chatter
      /\ "verification" \notin Chatter
  BY <1>t, <1>1 DEF Chatter, LookAlikes
<1>4. ASSUME pc = "initial" PROVE AtStart'
  BY <1>t, <1>1, <1>2, <1>3, <1>4 DEF PhaseInv, AtStart, Holds
<1>5. ASSUME pc = "user" PROVE NameTyped'
  <2>1. /\ lured # {} /\ typed \in {<<"username">>, <<>>}
        /\ \A i \in 1 .. Len(wire) : wire[i] # "pass"
    BY <1>t, <1>1, <1>5, SetupShells DEF PhaseInv, NameTyped, Asking, Shells, Holds
  <2>2. \A i \in 1 .. Len(wire') : wire'[i] # "pass"
    BY <1>2, <1>3, <2>1
  <2>3. QED
    BY <1>1, <2>1, <2>2 DEF NameTyped, Holds
<1>6. ASSUME pc = "password" PROVE PasswordTyped'
  <2>1. PasswordTyped /\ typed = <<>>
    BY <1>t, <1>1, <1>6 DEF PhaseInv, PasswordTyped, Shells
  <2>2. \A i, j \in 1 .. Len(wire') : i < j /\ wire'[i] \in Shells => wire'[j] # "pass"
    <3>1. ASSUME NEW i \in 1 .. Len(wire'), NEW j \in 1 .. Len(wire'),
                 i < j, wire'[i] \in Shells, wire'[j] = "pass"
          PROVE  FALSE
      <4>1. j \in 1 .. Len(wire) /\ wire[j] = "pass"
        BY <1>2, <1>3, <3>1
      <4>2. i \in 1 .. Len(wire) /\ wire[i] \in Shells
        BY <1>t, <1>2, <3>1, <4>1
      <4>3. QED
        BY <2>1, <3>1, <4>1, <4>2 DEF PasswordTyped
    <3>2. QED
      BY <3>1
  <2>3. QED
    BY <1>1, <2>1, <2>2 DEF PasswordTyped
<1>7. ASSUME pc = "enable" PROVE EnableTyped'
  BY <1>t, <1>1, <1>2, <1>3, <1>7 DEF PhaseInv, EnableTyped, Shells
<1>8. ASSUME pc = "enablePassword" PROVE SecretTyped'
  BY <1>t, <1>1, <1>8 DEF PhaseInv, SecretTyped, Shells
<1>9. ASSUME pc \in {"init", "backup"} PROVE CommandsTyped'
  BY <1>t, <1>1, <1>9 DEF PhaseInv, CommandsTyped
<1>10. QED
  BY <1>1, <1>3, <1>4, <1>5, <1>6, <1>7, <1>8, <1>9 DEF PhaseInv

LEMMA InitAskedInv == Init => AskedInv
BY InitTypeOK, InitPhaseInv DEF AskedInv

LEMMA NextAskedInv == AskedInv /\ [Next]_vars => AskedInv'
<1> SUFFICES ASSUME AskedInv, [Next]_vars PROVE AskedInv'
  OBVIOUS
<1>1. TypeOK'
  BY NextTypeOK DEF AskedInv
<1>2. SUFFICES ASSUME Undeceived' PROVE PhaseInv' /\ ~ misused'
  BY <1>1 DEF AskedInv
<1>3. CASE Device \/ LogsMessage
  <2>1. lured' = lured
    BY <1>3, DeviceStep DEF LogsMessage, agent, AskedInv
  <2>2. Undeceived
    BY <1>2, <2>1 DEF Undeceived
  <2>3. QED
    BY <1>3, <2>2, DevicePhaseInv, LogsPhaseInv
<1>4. CASE Read
  BY <1>2, <1>4, ReadPhaseInv
<1>5. CASE Fails
  BY <1>2, <1>5 DEF Fails, device, AskedInv, PhaseInv, Undeceived
<1>6. CASE UNCHANGED vars
  BY <1>2, <1>6 DEF vars, device, agent, AskedInv, PhaseInv, Undeceived, AtStart,
     NameTyped, PasswordTyped, EnableTyped, SecretTyped, CommandsTyped
<1>7. QED
  BY <1>3, <1>4, <1>5, <1>6 DEF Next, Agent, TimesOut, Disconnected

(* The device gets the password as a user name or a command only from an agent
   that took text for a password or shell prompt, whatever the order of
   prompts, of log messages, of other text and of the cuts in the stream.   *)
THEOREM PasswordIsAsked == Spec => []PasswordWhereAsked
<1>1. AskedInv => PasswordWhereAsked
  BY DEF AskedInv, PasswordWhereAsked, Undeceived, TypeOK, LookAlikes
<1>2. QED
  BY <1>1, InitAskedInv, NextAskedInv, PTL DEF Spec

-----------------------------------------------------------------------------
(* The agent types when the device has nothing more to say *)

LEMMA DeviceTurns ==
  ASSUME TurnsInv, Device, Calm' PROVE Calm /\ early' = early /\ Turns'
<1>t. /\ TypeOK /\ (Calm /\ pc \notin Ended => Turns) /\ typed \in Seq(Line)
      /\ output \in Outputs \cup {<<>>}
  BY DEF TurnsInv, TypeOK
<1>1. PICK line \in Line :
        /\ Reads(line) /\ pc \notin Ended /\ UNCHANGED <<setup, agent, noise>>
        /\ output' \in Outputs \cup {<<>>}
        /\ \/ mode = "password" /\ mode' = "closed" /\ UNCHANGED wire
           \/ \E pieces \in Seq(Piece), m \in Asking \cup Shells :
                Sends(pieces, m) /\ Heard(line, pieces, m)
  BY <1>t, DeviceStep
<1>2. Calm /\ early' = early
  BY <1>1 DEF Calm, agent
<1>3. /\ typed' = <<>> /\ wire = <<>>
  <2>1. Turns /\ typed # <<>> /\ Len(typed') = Len(typed) - 1 /\ typed' \in Seq(Line)
    BY <1>t, <1>1, <1>2, LinesRead DEF Reads
  <2>2. QED
    BY <2>1 DEF Turns
<1>4. Turns'
  <2>1. CASE UNCHANGED wire
    BY <1>3, <2>1 DEF Turns, Holds
  <2>2. ASSUME NEW pieces \in Seq(Piece), NEW m \in Asking \cup Shells,
               Sends(pieces, m), Heard(line, pieces, m)
        PROVE  Turns'
    <3>1. \A i \in 1 .. Len(wire') :
            \/ wire'[i] \notin {"user", "pass", "verification"} \cup Shells
            \/ i = Len(wire') /\ wire'[i] = Ask(m)
      BY <1>t, <1>1, <1>3, <2>2, WireSent, SpokenIsNoPrompt
    <3>2. Ask(m) # "verification"
      BY DEF Ask, Asking, Shells
    <3>3. QED
      BY <1>3, <3>1, <3>2 DEF Turns, Holds
  <2>3. QED
    BY <1>1, <2>1, <2>2
<1>5. QED
  BY <1>2, <1>4

LEMMA ReadTurns ==
  ASSUME TurnsInv, Read, Calm' PROVE ~ early' /\ (pc' \notin Ended => Turns')
<1>t. /\ TypeOK /\ typed \in Seq(Line) /\ wire \in Seq(Piece) /\ pc \notin Ended
  BY DEF TurnsInv, TypeOK, Read, Waiting, Ended
<1>1. PICK n \in 1 .. Len(wire) :
        /\ wire' = SubSeq(wire, n + 1, Len(wire)) /\ UNCHANGED <<setup, noise>>
        /\ lured \subseteq lured'
        /\ \/ UNCHANGED <<pc, early, typed>>
           \/ pc' = "ok" /\ UNCHANGED early
           \/ /\ \E line \in Line : typed' = Append(typed, line)
              /\ wire[n] \in Awaited /\ wire[n] \notin LookAlikes
              /\ early' = (early \/ wire' # <<>> \/ typed # <<>>)
  <2>1. lured' = {}
    BY DEF Calm
  <2>2. QED
    BY <1>t, <2>1, ReadStep DEF bounds
<1>2. /\ \A piece : Holds(wire', piece) => Holds(wire, piece)
      /\ \A i \in 1 .. Len(wire') : i + n \in 1 .. Len(wire) /\ wire'[i] = wire[i + n]
      /\ Len(wire') = Len(wire) - n /\ (n = Len(wire) => wire' = <<>>)
  BY <1>t, <1>1, LastSuffix
<1>3. Calm /\ setup' = setup /\ early = FALSE
  BY <1>1 DEF Calm, TurnsInv, TypesAtPrompts, TypeOK
<1>4. typed = <<>> /\ Turns
  <2>1. Turns /\ wire # <<>>
    BY <1>1, <1>3, <1>t DEF TurnsInv
  <2>2. QED
    BY <2>1 DEF Turns
<1>5. CASE UNCHANGED <<pc, early, typed>>
  <2>1. ASSUME NEW i \in 1 .. Len(wire'), wire'[i] \in {"user", "pass"} \cup Shells
        PROVE  i = Len(wire')
    <3>1. i + n = Len(wire)
      BY <1>2, <1>4, <2>1 DEF Turns
    <3>2. Len(wire) \in Nat /\ n \in Nat /\ i \in Nat /\ Len(wire') = Len(wire) - n
      BY <1>t, <1>2
    <3>3. QED
      BY <3>1, <3>2
  <2>2. Turns'
    BY <1>2, <1>3, <1>4, <1>5, <2>1 DEF Turns
  <2>3. QED
    BY <1>3, <1>5, <2>2
<1>6. CASE pc' = "ok" /\ UNCHANGED early
  BY <1>3, <1>6 DEF Ended
<1>7. ASSUME NEW line \in Line, typed' = Append(typed, line),
             wire[n] \in Awaited, wire[n] \notin LookAlikes,
             early' = (early \/ wire' # <<>> \/ typed # <<>>)
      PROVE  ~ early' /\ Turns'
  <2>1. wire[n] \in {"user", "pass"} \cup Shells
    <3>1. wire[n] \in {"user", "pass"} \cup Shells \/ (wire[n] = "verification" /\ setup.telnet)
      BY <1>7 DEF Awaited, Users, Passes, Prompts, LookAlikes
    <3>2. wire[n] = "verification" => setup.greets
      BY <1>4 DEF Turns, Holds
    <3>3. QED
      BY <1>3, <3>1, <3>2 DEF Calm
  <2>2. wire' = <<>>
    BY <1>2, <1>4, <2>1 DEF Turns
  <2>3. Len(typed') = 1
    BY <1>4, <1>7
  <2>4. Turns'
    BY <2>2, <2>3 DEF Turns, Holds
  <2>5. ~ early'
    BY <1>3, <1>4, <1>7, <2>2
  <2>6. QED
    BY <2>4, <2>5
<1>8. QED
  BY <1>1, <1>5, <1>6, <1>7

LEMMA InitTurnsInv == Init => TurnsInv
<1> SUFFICES ASSUME Init PROVE TurnsInv
  OBVIOUS
<1>1. /\ Len(wire) = 2 /\ wire[1] \in {"verification"} \cup Chatter /\ wire[2] = Ask(mode)
      /\ wire[1] = "verification" => setup.greets
  BY DEF Init, Chatter, LookAlikes
<1>2. Ask(mode) # "verification"
  BY DEF Init, Setup, AtLogin, Ask, Shells
<1>3. Turns
  BY <1>1, <1>2 DEF Init, Turns, Holds, Shells, Chatter, LookAlikes
<1>4. QED
  BY <1>3, InitTypeOK DEF Init, TurnsInv, TypesAtPrompts

LEMMA NextTurnsInv == TurnsInv /\ [Next]_vars => TurnsInv'
<1> SUFFICES ASSUME TurnsInv, [Next]_vars PROVE TurnsInv'
  OBVIOUS
<1>1. TypeOK'
  BY NextTypeOK DEF TurnsInv
<1>2. SUFFICES ASSUME Calm' PROVE ~ early' /\ (pc' \notin Ended => Turns')
  BY <1>1 DEF TurnsInv, TypesAtPrompts, Calm
<1>3. Calm => ~ early
  BY DEF TurnsInv, TypesAtPrompts, Calm
<1>4. CASE Device
  BY <1>2, <1>3, <1>4, DeviceTurns
<1>5. CASE Read
  BY <1>2, <1>5, ReadTurns
<1>6. CASE LogsMessage
  <2>1. noise \in Nat /\ noise' = noise + 1
    BY <1>6, SessionAssumption DEF LogsMessage, TurnsInv, TypeOK
  <2>2. QED
    BY <1>2, <2>1 DEF Calm
<1>7. CASE Fails
  BY <1>2, <1>3, <1>7 DEF Fails, bounds, Calm, Ended
<1>8. CASE UNCHANGED vars
  <2>1. Calm /\ UNCHANGED <<early, pc, typed, wire, setup>>
    BY <1>2, <1>8 DEF vars, agent, bounds, Calm
  <2>2. QED
    BY <1>3, <2>1 DEF TurnsInv, Turns, Holds
<1>9. QED
  BY <1>4, <1>5, <1>6, <1>7, <1>8 DEF Next, Agent, TimesOut, Disconnected

(* The agent types only at a prompt, with nothing of the device on its way *)
THEOREM NothingTypedEarly == Spec => []TypesAtPrompts
<1>1. TurnsInv => TypesAtPrompts
  BY DEF TurnsInv
<1>2. QED
  BY <1>1, InitTurnsInv, NextTurnsInv, PTL DEF Spec

-----------------------------------------------------------------------------
(* What is saved is what the device answered *)

LEMMA ConcatSplit ==
  ASSUME NEW S, NEW a \in Seq(S), NEW w \in Seq(S), NEW n \in 1 .. Len(w)
  PROVE  /\ (a \o SubSeq(w, 1, n)) \o SubSeq(w, n + 1, Len(w)) = a \o w
         /\ n = Len(w) => a \o SubSeq(w, 1, n) = a \o w
<1>1. SubSeq(w, 1, Len(w)) = w
  BY SubSeqFull
<1>2. SubSeq(w, 1, n) \in Seq(S) /\ SubSeq(w, n + 1, Len(w)) \in Seq(S)
  OBVIOUS
<1>3. SubSeq(w, 1, n) \o SubSeq(w, n + 1, Len(w)) = w
  <2>1. 1 \in 1 .. Len(w) + 1 /\ n \in 1 - 1 .. Len(w) /\ Len(w) \in n .. Len(w)
    OBVIOUS
  <2>2. SubSeq(w, 1, n) \o SubSeq(w, n + 1, Len(w)) = SubSeq(w, 1, Len(w))
    BY <2>1, ConcatAdjacentSubSeq
  <2>3. QED
    BY <1>1, <2>2
<1>4. ASSUME NEW l \in Seq(S), NEW r \in Seq(S) PROVE (a \o l) \o r = a \o (l \o r)
  <2> DEFINE x == (a \o l) \o r
             y == a \o (l \o r)
  <2>1. /\ l \o r \in Seq(S) /\ Len(l \o r) = Len(l) + Len(r)
        /\ a \o l \in Seq(S) /\ Len(a \o l) = Len(a) + Len(l)
    OBVIOUS
  <2>2. x \in Seq(S) /\ y \in Seq(S)
    BY <2>1
  <2>3. Len(x) = Len(y)
    BY <2>1
  <2>4. ASSUME NEW i \in 1 .. Len(x) PROVE x[i] = y[i]
    OBVIOUS
  <2> HIDE DEF x, y
  <2>5. x = y
    BY <2>2, <2>3, <2>4, SeqEqual
  <2>6. QED
    BY <2>5 DEF x, y
<1>5. (a \o SubSeq(w, 1, n)) \o SubSeq(w, n + 1, Len(w))
        = a \o (SubSeq(w, 1, n) \o SubSeq(w, n + 1, Len(w)))
  BY <1>2, <1>4, Zenon
<1>6. n = Len(w) => a \o SubSeq(w, 1, n) = a \o w
  BY <1>1, Zenon
<1>7. QED
  BY <1>3, <1>5, <1>6, Zenon

LEMMA DeviceInStep ==
  ASSUME AnswerInv, Device, noise' = 0, lured' = {} PROVE InStep' /\ BackupIsAnswer'
<1>t. /\ TypeOK /\ (noise = 0 /\ lured = {} /\ pc \notin Ended => InStep)
      /\ (lured = {} => PhaseInv) /\ typed \in Seq(Line) /\ output \in Outputs \cup {<<>>}
  BY DEF AnswerInv, AskedInv, TypeOK, Undeceived
<1>1. PICK line \in Line :
        /\ Reads(line) /\ pc \notin Ended /\ UNCHANGED <<setup, agent, noise>>
        /\ output' \in Outputs \cup {<<>>}
        /\ \/ mode = "password" /\ mode' = "closed" /\ UNCHANGED wire
           \/ \E pieces \in Seq(Piece), m \in Asking \cup Shells :
                Sends(pieces, m) /\ Heard(line, pieces, m)
  BY <1>t, DeviceStep
<1>3. InStep /\ PhaseInv /\ pc' = pc /\ acc' = acc /\ setup' = setup /\ pc \in Waiting
  BY <1>t, <1>1 DEF agent, TypeOK
<1>l. /\ typed # <<>> /\ Len(typed') = Len(typed) - 1 /\ typed' \in Seq(Line)
      /\ \A x : typed = <<x>> => line = x /\ typed' = <<>>
      /\ \A x, y : typed = <<x, y>> => line = x /\ typed' = <<y>>
  BY <1>t, <1>1, LinesRead DEF Reads
<1>s. setup.shell \in Shells /\ AtLogin(setup) \in {"login", "password", setup.shell}
  BY <1>t, SetupShells
<1>4. ~ Prompted(wire)
  BY <1>3, <1>l DEF InStep, PromptsLast, Prompted
<1>5. pc' \in {"enable", "enablePassword", "init", "backup"} => Len(typed') <= 1
  BY <1>t, <1>3, <1>l DEF InStep
<1>6. BackupIsAnswer'
  BY <1>1, <1>3 DEF BackupIsAnswer, Ended
<1>7. CASE mode = "password" /\ mode' = "closed" /\ UNCHANGED wire
  <2>1. PromptsLast'
    BY <1>4, <1>7 DEF Prompted, PromptsLast
  <2>2. pc # "backup"
    BY <1>3, <1>7 DEF InStep, Answering, Shells
  <2>3. QED
    BY <1>3, <1>5, <1>6, <2>1, <2>2 DEF InStep
<1>8. ASSUME NEW pieces \in Seq(Piece), NEW m \in Asking \cup Shells,
             Sends(pieces, m), Heard(line, pieces, m)
      PROVE  InStep'
  <2>1. /\ mode' = m
        /\ \A i \in 1 .. Len(wire') :
             \/ i \in 1 .. Len(wire) /\ wire'[i] = wire[i]
             \/ wire'[i] \notin Shells
             \/ i = Len(wire') /\ wire'[i] = Ask(m)
    BY <1>t, <1>1, <1>8, WireSent, SpokenIsNoPrompt
  <2>2. m \in Shells => typed' = <<>>
    <3>1. CASE pc \in {"enable", "enablePassword", "init", "backup"}
      <4>1. Len(typed') = 0
        BY <1>t, <1>3, <1>l, <3>1 DEF InStep
      <4>2. QED
        BY <1>l, <4>1
    <3>2. CASE pc = "initial"
      BY <1>3, <1>l, <3>2 DEF PhaseInv, AtStart
    <3>3. CASE pc = "user"
      BY <1>3, <1>l, <3>3 DEF PhaseInv, NameTyped
    <3>4. CASE pc = "password"
      <4>1. PasswordTyped
        BY <1>3, <3>4 DEF PhaseInv
      <4>2. CASE typed = <<"username", "password">>
        <5>1. line = "username" /\ mode = "password" /\ AtLogin(setup) = "password"
          BY <1>l, <4>1, <4>2 DEF PasswordTyped
        <5>2. m = "password"
          BY <1>8, <5>1 DEF Heard, Shells
        <5>3. QED
          BY <5>2 DEF Shells
      <4>3. CASE typed = <<"password">>
        BY <1>l, <4>3
      <4>4. QED
        BY <1>l, <4>1, <4>2, <4>3 DEF PasswordTyped
    <3>5. QED
      BY <1>3, <3>1, <3>2, <3>3, <3>4 DEF Waiting
  <2>3. PromptsLast'
    <3>1. ASSUME NEW i \in 1 .. Len(wire'), wire'[i] \in Shells
          PROVE  i = Len(wire') /\ wire'[i] = Ask(m)
      BY <1>4, <2>1, <3>1 DEF Prompted
    <3>2. Ask(m) \in Shells => m \in Shells /\ Ask(m) = m
      BY DEF Ask, Asking, Shells
    <3>3. QED
      BY <2>1, <2>2, <3>1, <3>2 DEF PromptsLast
  <2>4. ASSUME pc = "backup" PROVE Answering'
    <3>1. typed = <<"backup">> /\ wire = <<>> /\ acc = <<>> /\ mode \in Shells
      BY <1>3, <1>l, <2>4 DEF InStep, Answering
    <3>2. line = "backup" /\ typed' = <<>>
      BY <1>l, <3>1
    <3>3. pieces = <<"echo">> \o output' /\ m = mode
      BY <1>8, <3>1, <3>2 DEF Heard, Shells
    <3>4. output' \in Seq(Piece)
      BY <1>1, AnswersArePieces
    <3>5. acc' \o wire' = <<"echo">> \o output' \o <<m>>
      <4>1. Ask(m) = m /\ m \in Piece
        BY <3>1, <3>3 DEF Ask, Shells, Piece
      <4>2. wire' = <<>> \o pieces \o <<m>>
        BY <1>8, <3>1, <4>1 DEF Sends
      <4>3. <<>> \o pieces = pieces
        OBVIOUS
      <4>4. pieces \o <<m>> \in Seq(Piece)
        BY <4>1
      <4>5. <<>> \o (pieces \o <<m>>) = pieces \o <<m>>
        BY <4>4
      <4>6. QED
        BY <1>3, <3>1, <3>3, <4>2, <4>3, <4>5
    <3>6. QED
      BY <2>1, <3>1, <3>2, <3>3, <3>5 DEF Answering, Answer
  <2>5. QED
    BY <1>3, <1>5, <2>3, <2>4 DEF InStep
<1>9. QED
  BY <1>1, <1>6, <1>7, <1>8

(* What the agent holds of the answer when it stops at a piece of it *)
AnswerTo(a, w, o, m) == a \o w = <<"echo">> \o o \o <<m>>
StopsAt(a, w, n, o) ==
  \E k \in 0 .. Len(o) :
    /\ a \o SubSeq(w, 1, n) = <<"echo">> \o SubSeq(o, 1, k) \o <<w[n]>>
    /\ k < Len(o) => o[k + 1] = "like"
LEMMA AnswerSoFar ==
  ASSUME NEW a \in Seq(Piece), NEW w \in Seq(Piece), NEW n \in 1 .. Len(w),
         NEW o \in Seq(Piece), NEW m \in Shells, AnswerTo(a, w, o, m),
         w[n] = "like" \/ n = Len(w)
  PROVE  StopsAt(a, w, n, o)
<1> DEFINE whole == a \o w
           part  == a \o SubSeq(w, 1, n)
           q     == Len(a) + n
<1>1. /\ whole \in Seq(Piece) /\ Len(whole) = Len(a) + Len(w) /\ Len(whole) = Len(o) + 2
      /\ whole[1] = "echo" /\ whole[Len(o) + 2] = m
      /\ \A i \in 1 .. Len(o) : whole[i + 1] = o[i]
  <2>1. Len(a \o w) = Len(a) + Len(w)
    OBVIOUS
  <2>2. "echo" \in Piece /\ m \in Piece
    BY DEF Piece, Shells
  <2>3. a \o w \in Seq(Piece)
    OBVIOUS
  <2>4. LET v == <<"echo">> \o o \o <<m>>
        IN /\ Len(v) = Len(o) + 2 /\ v[1] = "echo" /\ v[Len(o) + 2] = m
           /\ \A i \in 1 .. Len(o) : v[i + 1] = o[i]
    OBVIOUS
  <2>5. QED
    BY <2>1, <2>3, <2>4, Zenon DEF AnswerTo
<1>2. /\ part \in Seq(Piece) /\ Len(part) = q /\ q \in 1 .. Len(whole) /\ part[q] = w[n]
      /\ \A i \in 1 .. q : part[i] = whole[i]
  OBVIOUS
<1> HIDE DEF whole, part, q
<1>3. q # 1
  <2>1. CASE w[n] = "like"
    BY <1>1, <1>2, <2>1
  <2>2. CASE n = Len(w)
    BY <1>1, <2>2 DEF q
  <2>3. QED
    BY <2>1, <2>2
<1> DEFINE k == q - 2
           b == SubSeq(o, 1, k)
           r == <<"echo">> \o b \o <<w[n]>>
<1>4. k \in 0 .. Len(o) /\ Len(o) \in Nat /\ q = k + 2
  BY <1>1, <1>2, <1>3
<1>5. b \in Seq(Piece) /\ Len(b) = k /\ \A i \in 1 .. k : b[i] = o[i]
  BY <1>4
<1>6. w[n] \in Piece /\ "echo" \in Piece
  BY DEF Piece
<1>7. /\ r \in Seq(Piece) /\ Len(r) = k + 2 /\ r[1] = "echo" /\ r[k + 2] = w[n]
      /\ \A i \in 1 .. k : r[i + 1] = b[i]
  <2> HIDE DEF b, k
  <2>1. QED
    BY <1>4, <1>5, <1>6
<1> HIDE DEF k, b, r
<1>8. part = r
  <2>1. ASSUME NEW i \in 1 .. q PROVE part[i] = r[i]
    <3>1. CASE i = 1
      BY <1>1, <1>2, <1>7, <3>1
    <3>2. CASE i = q
      BY <1>2, <1>4, <1>7, <3>2
    <3>3. CASE i # 1 /\ i # q
      <4>1. i - 1 \in 1 .. k /\ i - 1 \in 1 .. Len(o) /\ i = (i - 1) + 1
        BY <1>2, <1>4, <3>3
      <4>2. part[i] = whole[i] /\ whole[i] = o[i - 1] /\ r[i] = b[i - 1] /\ b[i - 1] = o[i - 1]
        BY <1>1, <1>2, <1>5, <1>7, <4>1
      <4>3. QED
        BY <4>2
    <3>4. QED
      BY <3>1, <3>2, <3>3
  <2>2. QED
    BY <1>2, <1>4, <1>7, <2>1, SeqEqual
<1>9. k < Len(o) => o[k + 1] = "like"
  <2>1. SUFFICES ASSUME k < Len(o) PROVE o[k + 1] = "like"
    OBVIOUS
  <2>2. k + 1 \in 1 .. Len(o) /\ whole[k + 2] = o[k + 1]
    BY <1>1, <1>4, <2>1
  <2>3. n # Len(w)
    <3>1. Len(a) \in Nat /\ Len(w) \in Nat
      OBVIOUS
    <3>2. QED
      BY <1>1, <1>4, <2>1, <3>1 DEF q
  <2>4. QED
    BY <1>2, <1>4, <2>2, <2>3
<1>10. QED
  BY <1>4, <1>8, <1>9 DEF part, r, b, StopsAt

LEMMA ReadInStep ==
  ASSUME AnswerInv, Read, noise' = 0, lured' = {}, AskedInv'
  PROVE  (pc' \notin Ended => InStep') /\ BackupIsAnswer'
<1>t. /\ TypeOK /\ typed \in Seq(Line) /\ wire \in Seq(Piece) /\ acc \in Seq(Piece)
      /\ output \in Outputs \cup {<<>>} /\ mode \in Asking \cup Shells \cup {"closed"}
      /\ PhaseInv'
  BY DEF AnswerInv, AskedInv, TypeOK, Undeceived
<1>1. PICK n \in 1 .. Len(wire) :
        /\ wire' = SubSeq(wire, n + 1, Len(wire)) /\ UNCHANGED <<setup, device, noise>>
        /\ lured = {}
        /\ \/ /\ acc' = acc \o SubSeq(wire, 1, n) /\ wire[n] \notin Awaited
              /\ UNCHANGED <<pc, typed>>
           \/ /\ pc = "backup" /\ pc' = "ok" /\ acc' = Clean(acc \o SubSeq(wire, 1, n))
              /\ wire[n] \in Prompts
           \/ /\ \E line \in Line, next \in Waiting :
                   Reply(wire[n], line, next) /\ pc' = next /\ typed' = Append(typed, line)
              /\ acc' = <<>> /\ wire[n] \notin LookAlikes
  BY <1>t, ReadStep DEF bounds
<1>2. /\ Prompted(wire') => Prompted(wire)
      /\ \A i \in 1 .. Len(wire') : i + n \in 1 .. Len(wire) /\ wire'[i] = wire[i + n]
      /\ Len(wire') = Len(wire) - n /\ (n = Len(wire) => wire' = <<>>)
  BY <1>t, <1>1, LastSuffix
<1>3. /\ InStep /\ wire # <<>> /\ pc \in Waiting
      /\ mode' = mode /\ setup' = setup /\ output' = output
  BY <1>1 DEF device, AnswerInv, Read, Waiting, Ended
<1>4. wire[n] \in Shells =>
        n = Len(wire) /\ wire' = <<>> /\ typed = <<>> /\ mode \in Shells
  BY <1>t, <1>2, <1>3 DEF InStep, PromptsLast, Asking, Shells
<1>5. CASE acc' = acc \o SubSeq(wire, 1, n) /\ UNCHANGED <<pc, typed>>
  <2>1. PromptsLast'
    <3>1. ASSUME NEW i \in 1 .. Len(wire'), wire'[i] \in Shells
          PROVE  i = Len(wire') /\ wire'[i] = mode /\ typed = <<>>
      <4>1. i + n = Len(wire) /\ wire'[i] = mode /\ typed = <<>>
        BY <1>2, <1>3, <3>1 DEF InStep, PromptsLast
      <4>2. Len(wire) \in Nat /\ n \in Nat /\ i \in Nat /\ Len(wire') = Len(wire) - n
        BY <1>t, <1>2
      <4>3. QED
        BY <4>1, <4>2
    <3>2. QED
      BY <1>3, <1>5, <3>1 DEF PromptsLast
  <2>2. ASSUME pc = "backup" PROVE Answering'
    <3>1. typed = <<>> /\ mode \in Shells /\ acc \o wire = Answer
      BY <1>3, <2>2 DEF InStep, Answering
    <3>2. acc' \o wire' = acc \o wire
      BY <1>t, <1>1, <1>5, ConcatSplit
    <3>3. QED
      BY <1>3, <1>5, <3>1, <3>2 DEF Answering, Answer
  <2>3. BackupIsAnswer'
    BY <1>3, <1>5 DEF BackupIsAnswer, Waiting
  <2>4. QED
    BY <1>3, <1>5, <2>1, <2>2, <2>3 DEF InStep
<1>6. CASE /\ pc = "backup" /\ pc' = "ok" /\ acc' = Clean(acc \o SubSeq(wire, 1, n))
           /\ wire[n] \in Prompts
  <2>1. typed = <<>> /\ mode \in Shells /\ acc \o wire = <<"echo">> \o output \o <<mode>>
    BY <1>3, <1>6 DEF InStep, Answering, Answer
  <2>2. output \in Seq(Piece) /\ \A i \in 1 .. Len(output) : output[i] \in Spoken \ {"echo"}
    BY <1>t, AnswersArePieces
  <2>3. PICK k \in 0 .. Len(output) :
          /\ acc \o SubSeq(wire, 1, n) = <<"echo">> \o SubSeq(output, 1, k) \o <<wire[n]>>
          /\ k < Len(output) => output[k + 1] = "like"
    <3>1. wire[n] = "like" \/ n = Len(wire)
      BY <1>4, <1>6 DEF Prompts
    <3>2. AnswerTo(acc, wire, output, mode)
      BY <2>1 DEF AnswerTo
    <3>3. StopsAt(acc, wire, n, output)
      BY <1>t, <2>1, <2>2, <3>1, <3>2, AnswerSoFar
    <3>4. QED
      BY <3>3 DEF StopsAt
  <2>4. acc' = Without(SubSeq(output, 1, k), Unseen)
    <3> DEFINE D == {"echo", "mention", "marked"} \cup Prompts
               b == SubSeq(output, 1, k)
    <3>1. "echo" \in D /\ wire[n] \in D /\ "echo" \in Piece /\ wire[n] \in Piece
      BY <1>t, <1>6 DEF Piece
    <3>2. b \in Seq(Piece) /\ \A i \in 1 .. Len(b) : b[i] \in Spoken \ {"echo"}
      BY <2>2
    <3>3. \A i \in 1 .. Len(b) : b[i] \in D <=> b[i] \in Unseen
      BY <3>2 DEF Prompts, Shells, Unseen, Spoken, Chatter, LookAlikes
    <3> HIDE DEF D, b
    <3>4. Without(<<"echo">> \o b \o <<wire[n]>>, D) = Without(b, Unseen)
      BY <3>1, <3>2, <3>3, WithoutBetween
    <3>5. QED
      BY <1>6, <2>3, <3>4 DEF Clean, D, b
  <2>5. QED
    BY <1>3, <1>6, <2>3, <2>4 DEF BackupIsAnswer, Ended
<1>7. ASSUME NEW line \in Line, NEW next \in Waiting, acc' = <<>>,
             Reply(wire[n], line, next), pc' = next, typed' = Append(typed, line),
             wire[n] \notin LookAlikes
      PROVE  InStep' /\ BackupIsAnswer'
  <2>1. typed' # <<>> /\ (typed = <<>> => typed' = <<line>>)
    <3>1. typed = <<>> => typed' = <<line>>
      BY <1>7
    <3>2. Len(typed') = Len(typed) + 1 /\ Len(typed) \in Nat
      BY <1>t, <1>7
    <3>3. typed' # <<>>
      BY <3>2
    <3>4. QED
      BY <3>1, <3>3
  <2>0. wire[n] \in Prompts => wire[n] \in Shells
    BY <1>7 DEF Prompts, LookAlikes
  <2>2. ~ Prompted(wire')
    <3>1. CASE wire[n] \in Prompts
      BY <1>4, <2>0, <3>1 DEF Prompted
    <3>2. CASE next = "user"
      BY <1>t, <1>7, <3>2 DEF PhaseInv, NameTyped
    <3>3. CASE next = "password"
      BY <1>t, <1>7, <2>1, <3>3 DEF PhaseInv, PasswordTyped
    <3>4. CASE next = "enablePassword"
      <4>1. wire' = <<>>
        BY <1>t, <1>7, <2>1, <3>4 DEF PhaseInv, SecretTyped
      <4>2. QED
        BY <4>1 DEF Prompted
    <3>5. QED
      BY <1>7, <3>1, <3>2, <3>3, <3>4 DEF Reply
  <2>3. next \in {"enable", "enablePassword", "init", "backup"} => Len(typed') = 1
    <3>1. CASE wire[n] \in Prompts
      BY <1>4, <2>0, <2>1, <3>1
    <3>2. CASE next = "enablePassword"
      <4>1. typed' = <<"password">>
        BY <1>t, <1>7, <2>1, <3>2 DEF PhaseInv, SecretTyped
      <4>2. QED
        BY <4>1
    <3>3. QED
      BY <1>7, <3>1, <3>2 DEF Reply
  <2>4. ASSUME next = "backup" PROVE Answering'
    <3>1. wire[n] \in Prompts /\ line = "backup"
      BY <1>7, <2>4 DEF Reply
    <3>2. QED
      BY <1>3, <1>4, <1>7, <2>0, <2>1, <3>1 DEF Answering
  <2>5. BackupIsAnswer'
    BY <1>7 DEF BackupIsAnswer, Waiting
  <2>6. PromptsLast'
    BY <2>2 DEF Prompted, PromptsLast
  <2>7. QED
    BY <1>7, <2>3, <2>4, <2>5, <2>6 DEF InStep
<1>8. QED
  BY <1>1, <1>5, <1>6, <1>7

LEMMA InitAnswerInv == Init => AnswerInv
<1> SUFFICES ASSUME Init PROVE AnswerInv
  OBVIOUS
<1>1. /\ Len(wire) = 2 /\ wire[1] \in {"verification"} \cup Chatter /\ wire[2] = Ask(mode)
      /\ typed = <<>> /\ pc = "initial"
  BY DEF Init, Chatter
<1>2. mode \in {"login", "password"} \cup Shells
  BY DEF Init, Setup, AtLogin, Shells
<1>3. PromptsLast
  BY <1>1, <1>2 DEF PromptsLast, Ask, Shells, Chatter, LookAlikes
<1>4. QED
  BY <1>1, <1>3, InitAskedInv DEF AnswerInv, InStep, BackupIsAnswer

LEMMA NextAnswerInv == AnswerInv /\ [Next]_vars => AnswerInv'
<1> SUFFICES ASSUME AnswerInv, [Next]_vars PROVE AnswerInv'
  OBVIOUS
<1>1. AskedInv'
  BY NextAskedInv DEF AnswerInv
<1>2. SUFFICES ASSUME noise' = 0, lured' = {}
               PROVE  (pc' \notin Ended => InStep') /\ BackupIsAnswer'
  BY <1>1 DEF AnswerInv, BackupIsAnswer
<1>3. CASE Device
  BY <1>2, <1>3, DeviceInStep
<1>4. CASE Read
  BY <1>1, <1>2, <1>4, ReadInStep
<1>5. CASE LogsMessage
  <2>1. noise \in Nat /\ noise' = noise + 1
    BY <1>5, SessionAssumption DEF LogsMessage, AnswerInv, AskedInv, TypeOK
  <2>2. QED
    BY <1>2, <2>1
<1>6. CASE Fails
  BY <1>6 DEF Fails, Ended, BackupIsAnswer
<1>7. CASE UNCHANGED vars
  <2>1. UNCHANGED <<setup, mode, output, wire, typed, pc, acc, noise, lured>>
    BY <1>7 DEF vars, device, agent, bounds
  <2>2. InStep => InStep'
    BY <2>1 DEF InStep, PromptsLast, Answering, Answer
  <2>3. QED
    BY <1>2, <2>1, <2>2 DEF AnswerInv, BackupIsAnswer
<1>8. QED
  BY <1>3, <1>4, <1>5, <1>6, <1>7 DEF Next, Agent, TimesOut, Disconnected

(* What is saved is the device's answer less the lines cleanSwitchOutput drops,
   all of it or up to a line of it that looks like a prompt, however the stream
   was cut, unless a prompt came unasked or the agent took text for one before
   the backup command.                                                      *)
THEOREM AnswerIsSaved == Spec => []BackupIsAnswer
<1>1. AnswerInv => BackupIsAnswer
  BY DEF AnswerInv
<1>2. QED
  BY <1>1, InitAnswerInv, NextAnswerInv, PTL DEF Spec
=============================================================================
