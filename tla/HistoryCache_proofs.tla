------------------------- MODULE HistoryCache_proofs -------------------------
(* Proofs about HistoryCache, for any finite set of backups, any devices,
   pruners and limits, and any bound on the clock.                          *)
EXTENDS HistoryCache, FiniteSetTheorems, WellFoundedInduction, TLAPS

(* The names that a pruner goes through have a least second *)
LEMMA LeastSecond ==
  ASSUME NEW S \in SUBSET Nat, S # {}
  PROVE  \E x \in S : \A y \in S : x <= y
<1> DEFINE Earlier == {pair \in Nat \X Nat : pair[1] < pair[2]}
<1>1. IsWellFoundedOn(Earlier, Nat)
  BY NatLessThanWellFounded, Zenon DEF OpToRel
<1>2. PICK x \in S : \A y \in S : ~ (<<y, x>> \in Earlier)
  BY <1>1, WFMin
<1>3. ASSUME NEW y \in S PROVE x <= y
  <2>1. ~ (y < x) /\ x \in Nat /\ y \in Nat
    BY <1>2
  <2>2. QED
    BY <2>1
<1>4. QED
  BY <1>3

LEMMA VictimIn ==
  ASSUME TypeOK, NEW p \in Pruner, prune[p] # {}
  PROVE  NextVictim(p) \in prune[p]
<1> DEFINE Seconds == {k[2] : k \in prune[p]}
<1>1. Seconds \in SUBSET Nat /\ Seconds # {}
  BY HistoryAssumption DEF TypeOK, Second
<1>2. PICK t \in Seconds : \A u \in Seconds : t <= u
  <2> HIDE DEF Seconds
  <2>1. QED
    BY <1>1, LeastSecond
<1>3. PICK k \in prune[p] : k[2] = t
  OBVIOUS
<1>4. \A l \in prune[p] : k[2] <= l[2]
  BY <1>2, <1>3
<1>5. QED
  BY <1>4 DEF NextVictim

(* The names of the backups, in the order in which they were given *)
Named == {b \in Backup : age[b] > 0}
NamedByPhase ==
  \A b \in Backup : /\ phase[b] \in {"start", "latest"} => age[b] = 0
                    /\ phase[b] \in {"named", "opened", "torn", "saved"} => age[b] > 0
AgesCounted == \A b \in Backup : age[b] <= Cardinality(Named)
NamesInOrder ==
  setBacks = 0 => \A b \in Named :
    /\ name[b] <= clock
    /\ \A c \in Named : age[c] <= age[b] => name[c] <= name[b]
(* As many newer files as some limit are there as long as a pruner means to
   remove one: when another pruner removes one of those, it has as many newer
   ones for its own limit.                                                  *)
Newer(k) == {u \in Files(k[1]) : u > k[2]}
VictimsExceed ==
  \A p \in Pruner : \A k \in prune[p] :
    \E limit \in Limit : limit >= 1 /\ Cardinality(Newer(k)) >= limit

NamingInv  == TypeOK /\ NamedByPhase /\ AgesCounted /\ NamesInOrder
HistoryInv == NamingInv /\ VictimsExceed

LEMMA NamedFinite ==
  ASSUME TypeOK
  PROVE  /\ IsFiniteSet(Named) /\ Cardinality(Named) \in Nat
         /\ Cardinality(Backup) \in Nat
         /\ \A b \in Backup \ Named : Cardinality(Named) + 1 <= Cardinality(Backup)
<1>1. IsFiniteSet(Named) /\ Cardinality(Named) \in Nat /\ Cardinality(Backup) \in Nat
  BY HistoryAssumption, FS_Subset, FS_CardinalityType DEF Named
<1>2. ASSUME NEW b \in Backup \ Named PROVE Cardinality(Named) + 1 <= Cardinality(Backup)
  <2>1. Cardinality(Named) <= Cardinality(Backup) /\ (Cardinality(Named) = Cardinality(Backup) => Named = Backup)
    BY HistoryAssumption, FS_Subset DEF Named
  <2>2. QED
    BY <1>1, <1>2, <2>1
<1>3. QED
  BY <1>1, <1>2

LEMMA InitHistoryInv == Init => HistoryInv
<1> SUFFICES ASSUME Init PROVE HistoryInv
  OBVIOUS
<1>1. Cardinality(Backup) \in Nat
  BY HistoryAssumption, FS_CardinalityType
<1>2. TypeOK
  BY <1>1, HistoryAssumption DEF Init, TypeOK, Second, Content
<1>3. Named = {}
  BY DEF Init, Named
<1>4. NamedByPhase /\ AgesCounted /\ NamesInOrder
  BY <1>3, FS_EmptySet DEF Init, NamedByPhase, AgesCounted, NamesInOrder
<1>5. VictimsExceed
  BY DEF Init, VictimsExceed
<1>6. QED
  BY <1>2, <1>4, <1>5 DEF HistoryInv, NamingInv

-----------------------------------------------------------------------------
LEMMA OwnPlace ==
  ASSUME TypeOK, NEW b \in Backup
  PROVE  PlaceOf(b) \in Device \X Second
BY HistoryAssumption DEF TypeOK, PlaceOf

(* A write leaves the backup's bytes, or what was there if it was no longer
   the file that the worker opened.                                         *)
LEMMA OutcomeIsContent ==
  ASSUME TypeOK, NEW b \in Backup, NEW c \in Outcomes(b)
  PROVE  /\ c \in Content
         /\ c = Absent <=> history[PlaceOf(b)] = Absent
<1>1. history[PlaceOf(b)] \in Content
  BY OwnPlace DEF TypeOK
<1>2. QED
  BY <1>1, HistoryAssumption DEF Outcomes, Content

(* Naming: the one step that gives a name gives the largest so far *)
LEMMA NextNamingInv == NamingInv /\ [Next]_historyVars => NamingInv'
<1> SUFFICES ASSUME NamingInv, [Next]_historyVars PROVE NamingInv'
  OBVIOUS
<1>0. TypeOK /\ NamedByPhase /\ AgesCounted /\ NamesInOrder
  BY DEF NamingInv
<1>n. IsFiniteSet(Named) /\ Cardinality(Named) \in Nat
  BY <1>0, NamedFinite
<1>1. ASSUME NEW b \in Backup, NameHistory(b) PROVE NamingInv'
  <2>1. /\ phase[b] = "latest" /\ phase' = [phase EXCEPT ![b] = "named"]
        /\ name' = [name EXCEPT ![b] = clock]
        /\ age' = [age EXCEPT ![b] = 1 + Cardinality(Named)]
        /\ UNCHANGED <<clock, setBacks, latest, history, prune>>
    BY <1>1 DEF NameHistory, Named
  <2>2. b \notin Named /\ age[b] = 0
    BY <1>0, <2>1 DEF NamedByPhase, Named
  <2>3. Cardinality(Named) + 1 <= Cardinality(Backup) /\ Cardinality(Backup) \in Nat
    BY <1>0, <2>2, NamedFinite
  <2>4. \A c \in Backup : age[c] \in Nat
    BY <1>0, <2>3 DEF TypeOK
  <2>5. /\ age'[b] = 1 + Cardinality(Named) /\ name'[b] = clock /\ phase'[b] = "named"
        /\ \A c \in Backup \ {b} : age'[c] = age[c] /\ name'[c] = name[c] /\ phase'[c] = phase[c]
    BY <1>0, <2>1 DEF TypeOK
  <2>6. Named' = Named \cup {b}
    BY <1>n, <2>4, <2>5 DEF Named
  <2>7. Cardinality(Named') = Cardinality(Named) + 1
    BY <1>n, <2>2, <2>6, FS_AddElement
  <2>8. TypeOK'
    <3>1. 1 + Cardinality(Named) \in 0 .. Cardinality(Backup)
      BY <1>n, <2>3
    <3>2. QED
      BY <1>0, <2>1, <3>1 DEF TypeOK
  <2>9. NamedByPhase'
    BY <1>0, <1>n, <2>5 DEF NamedByPhase
  <2>10. AgesCounted'
    BY <1>0, <1>n, <2>4, <2>5, <2>7 DEF AgesCounted
  <2>11. NamesInOrder'
    <3>1. SUFFICES ASSUME setBacks = 0, NEW c \in Named'
                   PROVE  /\ name'[c] <= clock
                          /\ \A e \in Named' : age'[e] <= age'[c] => name'[e] <= name'[c]
      BY <2>1 DEF NamesInOrder
    <3>2. \A e \in Named : e # b /\ name'[e] = name[e] /\ age'[e] = age[e] /\ name[e] <= clock
      BY <1>0, <2>2, <2>5, <3>1 DEF NamesInOrder, Named
    <3>3. clock \in Nat
      BY <1>0, HistoryAssumption DEF TypeOK, Second
    <3>4. CASE c = b
      BY <2>5, <2>6, <3>2, <3>3, <3>4
    <3>5. CASE c \in Named
      <4>1. age'[c] < age'[b]
        BY <1>0, <1>n, <2>4, <2>5, <3>2, <3>5 DEF AgesCounted, Named
      <4>2. ~ (age'[b] <= age'[c])
        BY <1>n, <2>4, <2>5, <3>2, <3>5, <4>1 DEF Named
      <4>3. QED
        BY <1>0, <2>6, <3>1, <3>2, <3>5, <4>2 DEF NamesInOrder
    <3>6. QED
      BY <2>6, <3>4, <3>5
  <2>12. QED
    BY <2>8, <2>9, <2>10, <2>11 DEF NamingInv
<1>2. ASSUME NEW b \in Backup, SaveLatest(b) \/ OpenHistory(b) \/ SaveHistory(b) PROVE NamingInv'
  <2>1. /\ UNCHANGED <<clock, setBacks, name, age, prune>>
        /\ \/ phase[b] = "start" /\ phase' = [phase EXCEPT ![b] = "latest"]
           \/ phase[b] = "named" /\ phase' = [phase EXCEPT ![b] = "opened"]
           \/ phase[b] = "opened" /\ phase' = [phase EXCEPT ![b] = "saved"]
           \/ phase[b] = "opened" /\ phase' = [phase EXCEPT ![b] = "torn"]
           \/ phase' = [phase EXCEPT ![b] = "unsaved"]
    BY <1>2 DEF SaveLatest, OpenHistory, SaveHistory
  <2>2. TypeOK'
    <3>1. latest' \in [Device -> Content]
      BY <1>0, <1>2, HistoryAssumption DEF TypeOK, SaveLatest, OpenHistory, SaveHistory, Content
    <3>2. history' \in [Device \X Second -> Content]
      BY <1>0, <1>2, OwnPlace, OutcomeIsContent
      DEF TypeOK, SaveLatest, OpenHistory, SaveHistory, Content
    <3>3. QED
      BY <1>0, <2>1, <3>1, <3>2 DEF TypeOK
  <2>3. NamedByPhase'
    BY <1>0, <2>1 DEF TypeOK, NamedByPhase
  <2>4. QED
    BY <1>0, <2>1, <2>2, <2>3 DEF NamingInv, AgesCounted, NamesInOrder, Named
<1>3. ASSUME UNCHANGED <<clock, setBacks, phase, latest, name, age>>,
             history' \in [Device \X Second -> Content],
             prune' \in [Pruner -> SUBSET (Device \X Second)]
      PROVE  NamingInv'
  BY <1>0, <1>3 DEF NamingInv, TypeOK, NamedByPhase, AgesCounted, NamesInOrder, Named
<1>4. ASSUME NEW p \in Pruner, NEW d \in Device, NEW limit \in Limit, PruneScan(p, d, limit)
      PROVE  NamingInv'
  <2>1. {d} \X Excess(d, limit) \in SUBSET (Device \X Second)
    BY DEF Excess, Files
  <2>2. QED
    BY <1>0, <1>3, <1>4, <2>1 DEF PruneScan, TypeOK
<1>5. ASSUME NEW p \in Pruner, PruneRemove(p) PROVE NamingInv'
  BY <1>0, <1>3, <1>5 DEF PruneRemove, TypeOK, Content
<1>6. CASE Tick
  <2>1. clock \in Nat /\ \A b \in Backup : name[b] \in Nat
    BY <1>0, HistoryAssumption DEF TypeOK, Second
  <2>2. TypeOK'
    BY <1>0, <1>6, <2>1, HistoryAssumption DEF Tick, TypeOK, Second
  <2>3. NamesInOrder'
    BY <1>0, <1>6, <2>1 DEF Tick, NamesInOrder, Named
  <2>4. QED
    BY <1>0, <1>6, <2>2, <2>3 DEF Tick, NamingInv, NamedByPhase, AgesCounted, Named
<1>7. CASE SetBack
  <2>1. setBacks' # 0 /\ TypeOK'
    BY <1>0, <1>7, HistoryAssumption DEF SetBack, TypeOK, Second
  <2>2. QED
    BY <1>0, <1>7, <2>1 DEF SetBack, NamingInv, NamesInOrder, NamedByPhase, AgesCounted, Named
<1>8. CASE Crash
  <2>1. \A b \in Backup : \/ phase'[b] \in {phase[b], "unsaved"}
                          \/ phase[b] = "opened" /\ phase'[b] = "torn"
    BY <1>8 DEF Crash
  <2>2. TypeOK'
    BY <1>0, <1>8 DEF Crash, TypeOK
  <2>3. QED
    BY <1>0, <1>8, <2>1, <2>2 DEF Crash, NamingInv, NamesInOrder, NamedByPhase, AgesCounted, Named
<1>9. CASE UNCHANGED historyVars
  BY <1>0, <1>9
  DEF historyVars, NamingInv, TypeOK, NamedByPhase, AgesCounted, NamesInOrder, Named
<1>10. QED
  BY <1>1, <1>2, <1>4, <1>5, <1>6, <1>7, <1>8, <1>9 DEF Next

-----------------------------------------------------------------------------
LEMMA NewerFinite ==
  ASSUME TypeOK, NEW k \in Device \X Second
  PROVE  IsFiniteSet(Newer(k)) /\ Cardinality(Newer(k)) \in Nat
<1>1. IsFiniteSet(Second)
  BY HistoryAssumption, FS_Interval DEF Second
<1>2. Newer(k) \in SUBSET Second
  BY DEF Newer, Files
<1>3. QED
  BY <1>1, <1>2, FS_Subset, FS_CardinalityType

(* More newer files are as good *)
LEMMA NewerGrows ==
  ASSUME TypeOK', NEW k \in Device \X Second, NEW limit \in Nat, NEW S,
         S \subseteq Newer(k)', Cardinality(S) >= limit
  PROVE  Cardinality(Newer(k)') >= limit
<1>1. IsFiniteSet(Second)
  BY HistoryAssumption, FS_Interval DEF Second
<1>2. Newer(k)' \in SUBSET Second
  BY DEF Newer, Files
<1>3. IsFiniteSet(Newer(k)') /\ Cardinality(Newer(k)') \in Nat
  BY <1>1, <1>2, FS_Subset, FS_CardinalityType
<1>4. Cardinality(S) <= Cardinality(Newer(k)') /\ Cardinality(S) \in Nat
  BY <1>3, FS_Subset, FS_CardinalityType
<1>5. QED
  BY <1>3, <1>4

(* Removing a file leaves the newer ones of every other victim *)
LEMMA RemovalSparesNewer ==
  ASSUME HistoryInv, NEW p \in Pruner, PruneRemove(p), TypeOK'
  PROVE  /\ \E v \in prune[p] :
              /\ v \in Device \X Second /\ Newer(v) \subseteq Newer(v)'
              /\ \A k \in Device \X Second :
                   history'[k] = history[k] \/ (k = v /\ history'[k] = Absent)
         /\ VictimsExceed'
<1>0. TypeOK /\ VictimsExceed
  BY DEF HistoryInv, NamingInv
<1>1. PICK v \in prune[p] : v = NextVictim(p) /\ v \in Device \X Second
  BY <1>0, VictimIn DEF PruneRemove, TypeOK
<1>2. \A k \in Device \X Second :
        history'[k] = history[k] \/ (k = v /\ history'[k] = Absent)
  BY <1>0, <1>1 DEF PruneRemove, TypeOK
<1>3. \A t \in Second : t \in Nat
  BY HistoryAssumption DEF Second
<1>4. Newer(v) \subseteq Newer(v)'
  <2>1. SUFFICES ASSUME NEW u \in Newer(v) PROVE u \in Newer(v)'
    OBVIOUS
  <2>2. u \in Second /\ u > v[2] /\ history[<<v[1], u>>] # Absent
    BY <2>1 DEF Newer, Files
  <2>3. <<v[1], u>> # v
    BY <1>1, <1>3, <2>2
  <2>4. history'[<<v[1], u>>] # Absent
    BY <1>1, <1>2, <2>2, <2>3
  <2>5. QED
    BY <2>2, <2>4 DEF Newer, Files
<1>5. VictimsExceed'
  <2>1. SUFFICES ASSUME NEW q \in Pruner, NEW k \in prune'[q]
                 PROVE  \E limit \in Limit : limit >= 1 /\ Cardinality(Newer(k)') >= limit
    BY DEF VictimsExceed
  <2>2. k \in prune[q] /\ k \in Device \X Second
    BY <1>0, <2>1 DEF PruneRemove, TypeOK
  <2>3. CASE k[1] = v[1] /\ k[2] < v[2]
    <3>1. PICK limit \in Limit : limit >= 1 /\ Cardinality(Newer(v)) >= limit
      BY <1>0, <1>1 DEF VictimsExceed
    <3>2. Newer(v) \subseteq Newer(k)'
      <4>1. Newer(v)' \subseteq Newer(k)'
        BY <1>1, <1>3, <2>2, <2>3 DEF Newer, Files
      <4>2. QED
        BY <1>4, <4>1
    <3>3. QED
      BY <2>2, <3>1, <3>2, NewerGrows, HistoryAssumption
  <2>4. CASE ~ (k[1] = v[1] /\ k[2] < v[2])
    <3>1. PICK limit \in Limit : limit >= 1 /\ Cardinality(Newer(k)) >= limit
      BY <1>0, <2>2 DEF VictimsExceed
    <3>2. Newer(k) \subseteq Newer(k)'
      <4>1. SUFFICES ASSUME NEW u \in Newer(k) PROVE u \in Newer(k)'
        OBVIOUS
      <4>2. u \in Second /\ u > k[2] /\ history[<<k[1], u>>] # Absent
        BY <4>1 DEF Newer, Files
      <4>3. <<k[1], u>> # v
        BY <1>1, <1>3, <2>2, <2>4, <4>2
      <4>4. history'[<<k[1], u>>] # Absent
        BY <1>2, <2>2, <4>2, <4>3
      <4>5. QED
        BY <4>2, <4>4 DEF Newer, Files
    <3>3. QED
      BY <2>2, <3>1, <3>2, NewerGrows, HistoryAssumption
  <2>5. QED
    BY <2>3, <2>4
<1>6. QED
  BY <1>1, <1>2, <1>4, <1>5

LEMMA NextHistoryInv == HistoryInv /\ [Next]_historyVars => HistoryInv'
<1> SUFFICES ASSUME HistoryInv, [Next]_historyVars PROVE HistoryInv'
  OBVIOUS
<1>0. TypeOK /\ VictimsExceed
  BY DEF HistoryInv, NamingInv
<1>n. NamingInv' /\ TypeOK'
  BY NextNamingInv DEF HistoryInv, NamingInv
<1>1. SUFFICES VictimsExceed'
  BY <1>n DEF HistoryInv
(* No pruner begins, and no file goes *)
<1>2. ASSUME \A p \in Pruner : prune'[p] \subseteq prune[p],
             \A k \in Device \X Second : history[k] # Absent => history'[k] # Absent
      PROVE  VictimsExceed'
  <2>1. SUFFICES ASSUME NEW p \in Pruner, NEW k \in prune'[p]
                 PROVE  \E limit \in Limit : limit >= 1 /\ Cardinality(Newer(k)') >= limit
    BY DEF VictimsExceed
  <2>2. k \in prune[p] /\ k \in Device \X Second
    BY <1>0, <1>2, <2>1 DEF TypeOK
  <2>3. PICK limit \in Limit : limit >= 1 /\ Cardinality(Newer(k)) >= limit
    BY <1>0, <2>2 DEF VictimsExceed
  <2>4. Newer(k) \subseteq Newer(k)'
    BY <1>2, <2>2 DEF Newer, Files
  <2>5. QED
    BY <1>n, <2>2, <2>3, <2>4, NewerGrows, HistoryAssumption
<1>3. ASSUME NEW b \in Backup, SaveLatest(b) \/ NameHistory(b) PROVE VictimsExceed'
  BY <1>2, <1>3 DEF SaveLatest, NameHistory
<1>4. ASSUME NEW b \in Backup, OpenHistory(b) PROVE VictimsExceed'
  BY <1>0, <1>2, <1>4, OwnPlace, HistoryAssumption DEF OpenHistory, TypeOK
<1>5. ASSUME NEW b \in Backup, SaveHistory(b) PROVE VictimsExceed'
  BY <1>0, <1>2, <1>5, OwnPlace, OutcomeIsContent DEF SaveHistory, TypeOK
<1>6. ASSUME NEW p \in Pruner, NEW d \in Device, NEW limit \in Limit, PruneScan(p, d, limit)
      PROVE  VictimsExceed'
  <2>1. SUFFICES ASSUME NEW q \in Pruner, NEW k \in prune'[q]
                 PROVE  \E l \in Limit : l >= 1 /\ Cardinality(Newer(k)) >= l
    BY <1>6 DEF PruneScan, VictimsExceed, Newer, Files
  <2>2. CASE k \in prune[q]
    BY <1>0, <2>2 DEF VictimsExceed
  <2>3. CASE k \notin prune[q]
    <3>1. limit >= 1 /\ k \in {d} \X Excess(d, limit)
      BY <1>0, <1>6, <2>1, <2>3 DEF PruneScan, TypeOK
    <3>2. Cardinality(Newer(k)) >= limit
      BY <3>1 DEF Excess, Newer
    <3>3. QED
      BY <3>1, <3>2
  <2>4. QED
    BY <2>2, <2>3
<1>7. ASSUME NEW p \in Pruner, PruneRemove(p) PROVE VictimsExceed'
  BY <1>n, <1>7, RemovalSparesNewer
<1>8. CASE Tick \/ SetBack
  BY <1>2, <1>8 DEF Tick, SetBack
<1>9. CASE Crash
  BY <1>2, <1>9 DEF Crash
<1>10. CASE UNCHANGED historyVars
  BY <1>2, <1>10 DEF historyVars
<1>11. QED
  BY <1>3, <1>4, <1>5, <1>6, <1>7, <1>8, <1>9, <1>10 DEF Next

-----------------------------------------------------------------------------
(* Every variable of the local copies keeps its type *)
THEOREM TypeCorrect == Spec => []TypeOK
<1>1. HistoryInv => TypeOK
  BY DEF HistoryInv, NamingInv
<1>2. QED
  BY InitHistoryInv, NextHistoryInv, <1>1, PTL DEF Spec

(* A removal leaves at least as many files as some limit the cloud may give,
   even when other pruners removed files since the scan.                    *)
THEOREM LimitAlwaysKept == Spec => PruneKeepsLimit
<1> DEFINE Keeps == \A d \in Device : Files(d) \ Files(d)' # {} =>
                      \E limit \in Limit : limit >= 1 /\ Cardinality(Files(d)') >= limit
<1>1. HistoryInv /\ [Next]_historyVars /\ HistoryInv' => [Keeps]_historyVars
  <2> SUFFICES ASSUME HistoryInv, [Next]_historyVars, HistoryInv',
                      NEW d \in Device, Files(d) \ Files(d)' # {}
               PROVE  \E limit \in Limit : limit >= 1 /\ Cardinality(Files(d)') >= limit
    OBVIOUS
  <2>0. TypeOK /\ TypeOK' /\ VictimsExceed
    BY DEF HistoryInv, NamingInv
  <2>1. PICK p \in Pruner : PruneRemove(p)
    <3>1. \A b \in Backup : SaveHistory(b) => Files(d) \subseteq Files(d)'
      BY <2>0, OwnPlace, OutcomeIsContent DEF SaveHistory, Files, TypeOK
    <3>2. \A b \in Backup : OpenHistory(b) => Files(d) \subseteq Files(d)'
      BY <2>0, OwnPlace, HistoryAssumption DEF OpenHistory, Files, TypeOK
    <3>3. UNCHANGED history => Files(d)' = Files(d)
      BY DEF Files
    <3>4. QED
      BY <3>1, <3>2, <3>3
      DEF Next, SaveLatest, NameHistory, PruneScan, Tick, SetBack, Crash, historyVars
  <2>2. PICK v \in prune[p] :
          /\ v \in Device \X Second /\ Newer(v) \subseteq Newer(v)'
          /\ \A k \in Device \X Second :
               history'[k] = history[k] \/ (k = v /\ history'[k] = Absent)
    BY <2>0, <2>1, RemovalSparesNewer
  <2>3. d = v[1]
    <3>1. PICK t \in Second : history[<<d, t>>] # Absent /\ history'[<<d, t>>] = Absent
      BY DEF Files
    <3>2. <<d, t>> = v
      BY <2>2, <3>1
    <3>3. QED
      BY <3>2
  <2>4. PICK limit \in Limit : limit >= 1 /\ Cardinality(Newer(v)) >= limit
    BY <2>0, <2>2 DEF VictimsExceed
  <2>5. Cardinality(Newer(v)) <= Cardinality(Files(d)')
        /\ Cardinality(Newer(v)) \in Nat /\ Cardinality(Files(d)') \in Nat
    <3>1. Newer(v) \subseteq Files(d)'
      <4>1. Newer(v)' \subseteq Files(v[1])'
        BY DEF Newer
      <4>2. QED
        BY <2>2, <2>3, <4>1
    <3>2. IsFiniteSet(Files(d)')
      <4>1. IsFiniteSet(Second)
        BY HistoryAssumption, FS_Interval DEF Second
      <4>2. Files(d)' \in SUBSET Second
        BY DEF Files
      <4>3. QED
        BY <4>1, <4>2, FS_Subset
    <3>3. QED
      BY <3>1, <3>2, FS_Subset, FS_CardinalityType
  <2>6. QED
    BY <2>4, <2>5, HistoryAssumption
<1>2. QED
  BY InitHistoryInv, NextHistoryInv, <1>1, PTL DEF Spec, PruneKeepsLimit
-----------------------------------------------------------------------------
(* Every copy that was written is in the history, or it has been outdone:
   another backup of the device put a file under its name, or as many as some
   limit put files under newer names.                                       *)
Begun    == {"opened", "torn", "saved"}
Peers(b) == {c \in Backup \ {b} : DeviceOf[c] = DeviceOf[b] /\ phase[c] \in Begun}
Above(b) == {c \in Peers(b) : name[c] > name[b]}
Outdone(b) ==
  \/ \E c \in Peers(b) : name[c] = name[b]
  \/ \E limit \in Limit \ {0} : Cardinality(Above(b)) >= limit
FilesPlaced ==
  \A k \in Device \X Second : history[k] # Absent =>
    \E b \in Backup : phase[b] \in Begun /\ PlaceOf(b) = k
SavedKept == \A b \in Backup : phase[b] = "saved" => history[PlaceOf(b)] = b \/ Outdone(b)
OpenKept  == \A b \in Backup : phase[b] = "opened" => history[PlaceOf(b)] = Torn \/ Outdone(b)
KeptInv   == HistoryInv /\ FilesPlaced /\ SavedKept /\ OpenKept

(* A backup that put a file under a name has done so for good, so that what
   outdid another one goes on doing so.                                     *)
LEMMA OutdoneStays ==
  ASSUME TypeOK, NEW b \in Backup, Outdone(b), name'[b] = name[b],
         \A c \in Backup : phase[c] \in Begun => phase'[c] \in Begun /\ name'[c] = name[c]
  PROVE  Outdone(b)'
<1>1. Peers(b) \subseteq Peers(b)' /\ Above(b) \subseteq Above(b)'
  BY DEF Peers, Above
<1>2. IsFiniteSet(Above(b)') /\ Above(b)' \in SUBSET Backup
  <2>1. Above(b)' \in SUBSET Backup
    BY DEF Above, Peers
  <2>2. QED
    BY <2>1, HistoryAssumption, FS_Subset
<1>3. /\ Cardinality(Above(b)) <= Cardinality(Above(b)')
      /\ Cardinality(Above(b)) \in Nat /\ Cardinality(Above(b)') \in Nat
  BY <1>1, <1>2, FS_Subset, FS_CardinalityType
<1>4. CASE \E c \in Peers(b) : name[c] = name[b]
  BY <1>1, <1>4 DEF Outdone, Peers
<1>5. ASSUME NEW limit \in Limit \ {0}, Cardinality(Above(b)) >= limit
      PROVE  Outdone(b)'
  <2>1. limit \in Nat
    BY HistoryAssumption
  <2>2. Cardinality(Above(b)') >= limit
    BY <1>3, <1>5, <2>1
  <2>3. QED
    BY <2>2 DEF Outdone
<1>6. QED
  BY <1>4, <1>5 DEF Outdone

(* A pruner's victim has been outdone: its newer files have newer names *)
LEMMA VictimOutdone ==
  ASSUME KeptInv, NEW p \in Pruner, NEW b \in Backup, PlaceOf(b) \in prune[p]
  PROVE  Outdone(b)
<1>0. TypeOK /\ FilesPlaced /\ VictimsExceed /\ PlaceOf(b) \in Device \X Second
  BY OwnPlace DEF KeptInv, HistoryInv, NamingInv
<1>1. PICK limit \in Limit : limit >= 1 /\ Cardinality(Newer(PlaceOf(b))) >= limit
  BY <1>0 DEF VictimsExceed
<1> DEFINE Owns(c, u) == c \in Above(b) /\ name[c] = u
           owner == [u \in Newer(PlaceOf(b)) |-> CHOOSE c : Owns(c, u)]
<1>2. ASSUME NEW u \in Newer(PlaceOf(b)) PROVE Owns(owner[u], u)
  <2>1. /\ u \in Second /\ u > name[b] /\ history[<<DeviceOf[b], u>>] # Absent
        /\ <<DeviceOf[b], u>> \in Device \X Second
    BY <1>0 DEF Newer, Files, PlaceOf
  <2>2. PICK c \in Backup : phase[c] \in Begun /\ DeviceOf[c] = DeviceOf[b] /\ name[c] = u
    BY <1>0, <2>1 DEF FilesPlaced, PlaceOf
  <2>3. c # b
    <3>1. name[b] \in Nat
      BY <1>0, HistoryAssumption DEF TypeOK, Second
    <3>2. QED
      BY <2>1, <2>2, <3>1
  <2>4. Owns(c, u)
    BY <2>1, <2>2, <2>3 DEF Above, Peers
  <2> HIDE DEF Owns
  <2>5. QED
    BY <2>4
<1>3. owner \in Injection(Newer(PlaceOf(b)), Above(b))
  <2> HIDE DEF owner
  <2>1. owner \in [Newer(PlaceOf(b)) -> Above(b)]
    BY <1>2 DEF owner
  <2>2. \A u, v \in Newer(PlaceOf(b)) : owner[u] = owner[v] => u = v
    BY <1>2
  <2>3. QED
    BY <2>1, <2>2 DEF Injection, IsInjective
<1>4. IsFiniteSet(Above(b)) /\ Cardinality(Above(b)) \in Nat
  <2>1. Above(b) \in SUBSET Backup
    BY DEF Above, Peers
  <2>2. QED
    BY <2>1, HistoryAssumption, FS_Subset, FS_CardinalityType
<1>5. Cardinality(Newer(PlaceOf(b))) <= Cardinality(Above(b))
  <2> HIDE DEF owner
  <2>1. QED
    BY <1>3, <1>4, FS_Injection
<1>6. limit \in Limit \ {0} /\ Cardinality(Above(b)) >= limit
  BY <1>0, <1>1, <1>4, <1>5, NewerFinite, HistoryAssumption
<1>7. QED
  BY <1>6 DEF Outdone

LEMMA InitKeptInv == Init => KeptInv
BY InitHistoryInv DEF KeptInv, Init, FilesPlaced, SavedKept, OpenKept

LEMMA NextKeptInv == KeptInv /\ [Next]_historyVars => KeptInv'
<1> SUFFICES ASSUME KeptInv, [Next]_historyVars PROVE FilesPlaced' /\ SavedKept' /\ OpenKept'
  BY NextHistoryInv DEF KeptInv
<1>0. TypeOK /\ NamedByPhase /\ FilesPlaced /\ SavedKept /\ OpenKept /\ HistoryInv
  BY DEF KeptInv, HistoryInv, NamingInv
<1>p. \A b \in Backup : PlaceOf(b) \in Device \X Second
  BY <1>0, OwnPlace
(* What every step leaves: a file that was begun stays begun, under its name,
   and what outdid it still does.                                           *)
<1>b. \A c \in Backup : phase[c] \in Begun => phase'[c] \in Begun /\ name'[c] = name[c]
  BY <1>0
  DEF Begun, TypeOK, Next, SaveLatest, NameHistory, OpenHistory, SaveHistory, PruneScan,
      PruneRemove, Tick, SetBack, Crash, historyVars
<1>s. ASSUME NEW c \in Backup, phase[c] \in Begun
      PROVE  PlaceOf(c)' = PlaceOf(c) /\ (Outdone(c) => Outdone(c)')
  BY <1>0, <1>b, <1>s, OutdoneStays DEF PlaceOf
(* A step that changes no file and ends no write well *)
<1>1. ASSUME UNCHANGED history,
             \A c \in Backup : phase'[c] \in {"opened", "saved"} => phase'[c] = phase[c]
      PROVE  FilesPlaced' /\ SavedKept' /\ OpenKept'
  <2>1. FilesPlaced'
    BY <1>0, <1>1, <1>b, <1>s DEF FilesPlaced
  <2>2. SavedKept' /\ OpenKept'
    BY <1>0, <1>1, <1>s DEF SavedKept, OpenKept, Begun
  <2>3. QED
    BY <2>1, <2>2
<1>2. ASSUME NEW b \in Backup, SaveLatest(b) \/ NameHistory(b)
      PROVE  FilesPlaced' /\ SavedKept' /\ OpenKept'
  BY <1>0, <1>1, <1>2 DEF SaveLatest, NameHistory, TypeOK
(* The worker of b changes at most the file of its own name *)
<1>3. ASSUME NEW b \in Backup, UNCHANGED name, phase'[b] \in Begun,
             \A c \in Backup \ {b} : phase'[c] = phase[c],
             \A k \in Device \X Second : k # PlaceOf(b) => history'[k] = history[k],
             phase'[b] = "saved" => history'[PlaceOf(b)] = b \/ Outdone(b),
             phase'[b] = "opened" => history'[PlaceOf(b)] = Torn \/ Outdone(b)
      PROVE  FilesPlaced' /\ SavedKept' /\ OpenKept'
  <2>1. \A c \in Backup : PlaceOf(c)' = PlaceOf(c)
    BY <1>3 DEF PlaceOf
  <2>2. FilesPlaced'
    <3>1. SUFFICES ASSUME NEW k \in Device \X Second, history'[k] # Absent
                   PROVE  \E c \in Backup : phase'[c] \in Begun /\ PlaceOf(c) = k
      BY <2>1 DEF FilesPlaced
    <3>2. CASE k = PlaceOf(b)
      BY <1>3, <3>2
    <3>3. CASE k # PlaceOf(b)
      <4>1. PICK c \in Backup : phase[c] \in Begun /\ PlaceOf(c) = k
        BY <1>0, <1>3, <3>1, <3>3 DEF FilesPlaced
      <4>2. QED
        BY <1>b, <4>1
    <3>4. QED
      BY <3>2, <3>3
  <2>3. Outdone(b) => Outdone(b)'
    BY <1>0, <1>3, <1>b, OutdoneStays
  <2>4. ASSUME NEW c \in Backup \ {b}, phase'[c] \in Begun
        PROVE  Outdone(c)' \/ history'[PlaceOf(c)] = history[PlaceOf(c)]
    <3>1. CASE PlaceOf(c) = PlaceOf(b)
      <4>1. b \in Peers(c)' /\ name'[b] = name'[c]
        BY <1>3, <3>1 DEF PlaceOf, Peers
      <4>2. QED
        BY <4>1 DEF Outdone
    <3>2. CASE PlaceOf(c) # PlaceOf(b)
      BY <1>p, <1>3, <3>2
    <3>3. QED
      BY <3>1, <3>2
  <2>5. SavedKept' /\ OpenKept'
    <3>1. ASSUME NEW c \in Backup, phase'[c] = "saved"
          PROVE  history'[PlaceOf(c)] = c \/ Outdone(c)'
      BY <1>0, <1>3, <1>s, <2>3, <2>4, <3>1 DEF SavedKept, Begun
    <3>2. ASSUME NEW c \in Backup, phase'[c] = "opened"
          PROVE  history'[PlaceOf(c)] = Torn \/ Outdone(c)'
      BY <1>0, <1>3, <1>s, <2>3, <2>4, <3>2 DEF OpenKept, Begun
    <3>3. QED
      BY <2>1, <3>1, <3>2 DEF SavedKept, OpenKept
  <2>6. QED
    BY <2>2, <2>5
<1>4. ASSUME NEW b \in Backup, OpenHistory(b) PROVE FilesPlaced' /\ SavedKept' /\ OpenKept'
  <2>1. CASE phase' = [phase EXCEPT ![b] = "unsaved"] /\ UNCHANGED history
    BY <1>0, <1>1, <2>1 DEF TypeOK
  <2>2. CASE /\ history' = [history EXCEPT ![PlaceOf(b)] = Torn]
             /\ phase' = [phase EXCEPT ![b] = "opened"]
    <3>1. phase'[b] = "opened" /\ history'[PlaceOf(b)] = Torn
      BY <1>0, <1>p, <2>2 DEF TypeOK
    <3>2. /\ \A c \in Backup \ {b} : phase'[c] = phase[c]
          /\ \A k \in Device \X Second : k # PlaceOf(b) => history'[k] = history[k]
      BY <1>0, <2>2 DEF TypeOK
    <3>3. QED
      BY <1>3, <1>4, <3>1, <3>2 DEF OpenHistory, Begun
  <2>3. QED
    BY <1>4, <2>1, <2>2 DEF OpenHistory
<1>5. ASSUME NEW b \in Backup, SaveHistory(b) PROVE FilesPlaced' /\ SavedKept' /\ OpenKept'
  <2>0. phase[b] = "opened" /\ UNCHANGED name
    BY <1>5 DEF SaveHistory
  <2>1. CASE phase' = [phase EXCEPT ![b] = "torn"] /\ UNCHANGED history
    BY <1>0, <1>1, <2>1 DEF TypeOK
  <2>2. ASSUME NEW c \in Outcomes(b), history' = [history EXCEPT ![PlaceOf(b)] = c],
               phase' = [phase EXCEPT ![b] = "saved"]
        PROVE  FilesPlaced' /\ SavedKept' /\ OpenKept'
    <3>1. phase'[b] = "saved" /\ history'[PlaceOf(b)] = c
      BY <1>0, <1>p, <2>2 DEF TypeOK
    <3>2. /\ \A e \in Backup \ {b} : phase'[e] = phase[e]
          /\ \A k \in Device \X Second : k # PlaceOf(b) => history'[k] = history[k]
      BY <1>0, <2>2 DEF TypeOK
    <3>3. c = b \/ Outdone(b)
      <4>1. CASE Outdone(b)
        BY <4>1
      <4>2. CASE ~ Outdone(b)
        <5>1. history[PlaceOf(b)] = Torn
          BY <1>0, <2>0, <4>2 DEF OpenKept
        <5>2. ~ Sharing(b)
          BY <4>2 DEF Sharing, Outdone, Peers, PlaceOf, Begun
        <5>3. QED
          BY <5>1, <5>2, HistoryAssumption DEF Outcomes
      <4>3. QED
        BY <4>1, <4>2
    <3>4. QED
      BY <1>3, <2>0, <3>1, <3>2, <3>3 DEF Begun
  <2>3. QED
    BY <1>5, <2>1, <2>2 DEF SaveHistory
<1>6. ASSUME NEW p \in Pruner, PruneRemove(p) PROVE FilesPlaced' /\ SavedKept' /\ OpenKept'
  <2>0. TypeOK'
    BY NextHistoryInv DEF KeptInv, HistoryInv, NamingInv
  <2>1. PICK v \in prune[p] :
          \A k \in Device \X Second :
            history'[k] = history[k] \/ (k = v /\ history'[k] = Absent)
    BY <1>0, <1>6, <2>0, RemovalSparesNewer
  <2>2. UNCHANGED <<phase, name>>
    BY <1>6 DEF PruneRemove
  <2>3. \A c \in Backup : PlaceOf(c)' = PlaceOf(c) /\ (Outdone(c)' <=> Outdone(c))
    BY <2>2 DEF PlaceOf, Outdone, Above, Peers
  <2>4. FilesPlaced'
    BY <1>0, <2>1, <2>2, <2>3 DEF FilesPlaced
  <2>5. \A c \in Backup : history'[PlaceOf(c)] = history[PlaceOf(c)] \/ Outdone(c)
    BY <1>p, <2>1, VictimOutdone
  <2>6. SavedKept' /\ OpenKept'
    BY <1>0, <2>2, <2>3, <2>5 DEF SavedKept, OpenKept
  <2>7. QED
    BY <2>4, <2>6
<1>7. CASE Crash
  BY <1>1, <1>7 DEF Crash
<1>8. CASE UNCHANGED <<history, phase>>
  BY <1>1, <1>8
<1>9. QED
  BY <1>2, <1>4, <1>5, <1>6, <1>7, <1>8 DEF Next, PruneScan, Tick, SetBack, historyVars

(* A copy that was written stays in the history until another backup of its
   device put a file under its name or enough of them under newer names,
   whatever pruners do and whatever writes and removals fail.               *)
THEOREM SavedStays == Spec => []SavedKept
<1>1. KeptInv => SavedKept
  BY DEF KeptInv
<1>2. QED
  BY <1>1, InitKeptInv, NextKeptInv, PTL DEF Spec

(* The newest whole copy of a device is not pruned, for any number of backups
   and pruners whose scans and removals overlap, and whatever writes fail or
   are cut short, but for the exceptions that NewestSurvives names: as many
   later files that are not whole as some limit, a save in the same second, a
   clock that was set back.                                                 *)
THEOREM NewestAlwaysSurvives == Spec => []NewestSurvives
<1>1. KeptInv => NewestSurvives
  <2> SUFFICES ASSUME KeptInv, setBacks = 0, NEW d \in Device, NEW b \in SavedOf(d),
                      \A c \in SavedOf(d) : age[c] <= age[b],
                      history[PlaceOf(b)] # b, ~ Replaced(b)
               PROVE  \E limit \in Limit \ {0} : Cardinality(Unfinished(b)) >= limit
    BY DEF NewestSurvives
  <2>0. TypeOK /\ NamedByPhase /\ NamesInOrder /\ SavedKept
    BY DEF KeptInv, HistoryInv, NamingInv
  <2>1. b \in Backup /\ phase[b] = "saved" /\ DeviceOf[b] = d /\ b \in Named
    BY <2>0 DEF SavedOf, NamedByPhase, Named
  <2>2. ~ \E c \in Peers(b) : name[c] = name[b]
    BY DEF Replaced, Peers, PlaceOf, Begun
  <2>3. PICK limit \in Limit \ {0} : Cardinality(Above(b)) >= limit
    BY <2>0, <2>1, <2>2 DEF SavedKept, Outdone
  <2>4. Above(b) \subseteq Unfinished(b)
    <3>1. SUFFICES ASSUME NEW c \in Above(b), phase[c] = "saved" PROVE FALSE
      BY DEF Above, Peers, Unfinished, Begun
    <3>2. c \in Named /\ age[c] <= age[b]
      BY <2>0, <2>1, <3>1 DEF Above, Peers, SavedOf, NamedByPhase, Named
    <3>3. name[c] <= name[b] /\ name[c] > name[b]
      BY <2>0, <2>1, <3>2 DEF NamesInOrder, Above
    <3>4. name[c] \in Nat /\ name[b] \in Nat
      BY <2>0, <2>1, <3>2, HistoryAssumption DEF TypeOK, Second, Named
    <3>5. QED
      BY <3>3, <3>4
  <2>5. /\ Cardinality(Above(b)) <= Cardinality(Unfinished(b))
        /\ Cardinality(Above(b)) \in Nat /\ Cardinality(Unfinished(b)) \in Nat
    <3>1. Unfinished(b) \in SUBSET Backup
      BY DEF Unfinished
    <3>2. QED
      BY <2>4, <3>1, HistoryAssumption, FS_Subset, FS_CardinalityType
  <2>6. QED
    BY <2>3, <2>5, HistoryAssumption
<1>2. QED
  BY <1>1, InitKeptInv, NextKeptInv, PTL DEF Spec
=============================================================================
