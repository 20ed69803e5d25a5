------------------------------ MODULE Host_proofs ------------------------------
(* Proofs about Host: an inductive invariant for each of its components, for
   any numbers of agents, sessions, process numbers, addresses and vendors;
   then their composition, of which every step is, for each component, one of
   its own steps or a stutter, so that the invariants carry over.           *)
EXTENDS Host, WellFoundedInduction, TLAPS

-----------------------------------------------------------------------------
(* PidLock *)

(* The system gives a number to one living process at a time *)
PidsApart ==
  /\ \A a \in Agent : life[a] \in Lock!Alive => pidOf[a] \in Pid \ foreign
  /\ \A a, b \in Agent :
       life[a] \in Lock!Alive /\ life[b] \in Lock!Alive /\ pidOf[a] = pidOf[b] => a = b

(* What agents that acquire the lock one at a time can rely on: while one of
   them probes, the file holds the number it read or has been removed; when it
   has found nobody, nobody serves and the number in the file is not its own. *)
OneAcquires == \A a, b \in Agent : life[a] \in Lock!Acquiring /\ life[b] \in Lock!Acquiring => a = b
FileOfServer == \A a \in Agent : life[a] = "serving" => pidFile = pidOf[a]
FileProbed == \A a \in Agent : life[a] = "probing" => pidFile \in {found[a], Absent}
FileTaken ==
  \A a \in Agent : life[a] \in {"writing", "truncated"} =>
    /\ \A b \in Agent : life[b] # "serving"
    /\ life[a] = "truncated" => pidFile = Empty
NotItsOwn == \A a \in Agent : life[a] \in {"writing", "finishing"} => pidFile # pidOf[a]
Guarded == OneAcquires /\ FileOfServer /\ FileProbed /\ FileTaken /\ NotItsOwn
TypeInv == Lock!TypeOK /\ PidsApart

LEMMA InitTypeInv ==
  ASSUME Lock!PidAssumption PROVE Lock!Init => TypeInv
<1> SUFFICES ASSUME Lock!Init PROVE TypeInv
  OBVIOUS
<1>1. given \in 0 .. MaxForeign
  BY DEF Lock!PidAssumption, Lock!Init
<1>2. Lock!TypeOK
  BY <1>1 DEF Lock!Init, Lock!TypeOK
<1>3. PidsApart
  BY DEF Lock!Init, PidsApart, Lock!Alive, Lock!Acquiring, Lock!Running, Lock!Left
<1>4. QED
  BY <1>2, <1>3 DEF TypeInv

(* A step of an agent that lives on and keeps its number *)
LEMMA NumbersKept ==
  ASSUME TypeInv, NEW a \in Agent, NEW l \in Lock!Alive,
         life[a] \in Lock!Alive, life' = [life EXCEPT ![a] = l], UNCHANGED <<pidOf, foreign>>
  PROVE  PidsApart' /\ life' \in [Agent -> {"none", "gone"} \cup Lock!Alive]
BY DEF TypeInv, Lock!TypeOK, PidsApart

(* The end of an agent *)
LEMMA NumberGivenBack ==
  ASSUME TypeInv, NEW a \in Agent, Lock!Ends(a), UNCHANGED foreign
  PROVE  PidsApart' /\ life' \in [Agent -> {"none", "gone"} \cup Lock!Alive]
         /\ pidOf' \in [Agent -> Pid \cup {NoPid}] /\ found' \in [Agent -> Pid \cup {NoPid}]
BY DEF TypeInv, Lock!TypeOK, PidsApart, Lock!Ends, Lock!Alive, Lock!Acquiring, Lock!Running, Lock!Left

LEMMA NextTypeInv ==
  ASSUME Lock!PidAssumption PROVE TypeInv /\ [Lock!Next]_lockVars => TypeInv'
<1> SUFFICES ASSUME TypeInv, [Lock!Next]_lockVars PROVE TypeInv'
  OBVIOUS
<1> USE DEF Lock!Alive, Lock!Acquiring, Lock!Running, Lock!Left
<1>0. Lock!TypeOK /\ PidsApart
  BY DEF TypeInv
<1>1. ASSUME NEW a \in Agent, Lock!Start(a) PROVE TypeInv'
  <2>1. PICK p \in Pid : ~ Lock!InUse(p) /\ pidOf' = [pidOf EXCEPT ![a] = p]
    BY <1>1 DEF Lock!Start
  <2>2. life' = [life EXCEPT ![a] = "starting"] /\ UNCHANGED <<found, pidFile, foreign, given, unguarded>>
    BY <1>1 DEF Lock!Start, Lock!Goto
  <2>3. Lock!TypeOK'
    BY <1>0, <2>1, <2>2 DEF Lock!TypeOK
  <2>4. PidsApart'
    BY <1>0, <2>1, <2>2 DEF Lock!TypeOK, PidsApart, Lock!InUse
  <2>5. QED
    BY <2>3, <2>4 DEF TypeInv
<1>2. ASSUME NEW a \in Agent, Lock!ReadLock(a) PROVE TypeInv'
  <2>1. PICK l \in {"probing", "writing"} :
          life[a] = "starting" /\ life' = [life EXCEPT ![a] = l]
    BY <1>2 DEF Lock!ReadLock, Lock!Goto
  <2>2. PidsApart' /\ life' \in [Agent -> {"none", "gone"} \cup Lock!Alive]
    BY <1>2, <2>1, NumbersKept DEF Lock!ReadLock
  <2>3. found' \in [Agent -> Pid \cup {NoPid}] /\ unguarded' \in BOOLEAN
    BY <1>0, <1>2 DEF Lock!TypeOK, Lock!ReadLock, Lock!Overlapping
  <2>4. QED
    BY <1>0, <1>2, <2>2, <2>3 DEF TypeInv, Lock!TypeOK, Lock!ReadLock
<1>3. ASSUME NEW a \in Agent, Lock!Refuse(a) \/ Lock!CannotWrite(a) \/ Lock!Exit(a) PROVE TypeInv'
  BY <1>0, <1>3, NumberGivenBack DEF TypeInv, Lock!TypeOK, Lock!Refuse, Lock!CannotWrite,
    Lock!Exit
<1>4. ASSUME NEW a \in Agent, Lock!FindDead(a) PROVE TypeInv'
  <2>1. PidsApart' /\ life' \in [Agent -> {"none", "gone"} \cup Lock!Alive]
    BY <1>4, NumbersKept DEF Lock!FindDead, Lock!Goto
  <2>2. QED
    BY <1>0, <1>4, <2>1 DEF TypeInv, Lock!TypeOK, Lock!FindDead
<1>5. ASSUME NEW a \in Agent, Lock!Truncate(a) PROVE TypeInv'
  <2>1. PidsApart' /\ life' \in [Agent -> {"none", "gone"} \cup Lock!Alive]
    BY <1>5, NumbersKept DEF Lock!Truncate, Lock!Goto
  <2>2. QED
    BY <1>0, <1>5, <2>1 DEF TypeInv, Lock!TypeOK, Lock!Truncate
<1>6. ASSUME NEW a \in Agent, Lock!WritePid(a) PROVE TypeInv'
  <2>1. PidsApart' /\ life' \in [Agent -> {"none", "gone"} \cup Lock!Alive]
    BY <1>6, NumbersKept DEF Lock!WritePid, Lock!Goto
  <2>2. pidOf[a] \in Pid
    BY <1>0, <1>6 DEF PidsApart, Lock!WritePid, Lock!Goto
  <2>3. pidFile' \in Pid \cup {Absent, Empty}
    BY <1>6, <2>2 DEF Lock!WritePid, Lock!Written
  <2>4. QED
    BY <1>0, <1>6, <2>1, <2>3 DEF TypeInv, Lock!TypeOK, Lock!WritePid
<1>7. ASSUME NEW a \in Agent, Lock!Return(a) PROVE TypeInv'
  <2>1. PidsApart' /\ life' \in [Agent -> {"none", "gone"} \cup Lock!Alive]
    BY <1>7, NumbersKept DEF Lock!Return, Lock!Cleanup, Lock!Goto
  <2>2. QED
    BY <1>0, <1>7, <2>1 DEF TypeInv, Lock!TypeOK, Lock!Return, Lock!Cleanup
<1>8. CASE Lock!Foreign
  <2>1. UNCHANGED <<life, pidOf, found, pidFile, unguarded>>
    BY <1>8 DEF Lock!Foreign
  <2>2. given' \in 0 .. MaxForeign /\ foreign' \subseteq Pid
    BY <1>0, <1>8 DEF Lock!PidAssumption, Lock!Foreign, Lock!TypeOK
  <2>3. \A p \in foreign' \ foreign : ~ Lock!InUse(p)
    BY <1>8 DEF Lock!Foreign
  <2>4. PidsApart'
    BY <1>0, <2>1, <2>3 DEF PidsApart, Lock!InUse
  <2>5. QED
    BY <1>0, <2>1, <2>2, <2>4 DEF TypeInv, Lock!TypeOK
<1>9. CASE UNCHANGED lockVars
  BY <1>9 DEF lockVars, TypeInv, Lock!TypeOK, PidsApart
<1>10. QED
  BY <1>1, <1>2, <1>3, <1>4, <1>5, <1>6, <1>7, <1>8, <1>9 DEF Lock!Next, Lock!Step

-----------------------------------------------------------------------------
LockInv == TypeInv /\ (unguarded \/ Guarded)

(* The end of an agent only takes it out of what Guarded says *)
LEMMA EndsGuarded ==
  ASSUME TypeInv, Guarded, NEW a \in Agent, Lock!Ends(a), UNCHANGED pidFile
  PROVE  Guarded'
<1>1. /\ life \in [Agent -> {"none", "gone"} \cup Lock!Alive]
      /\ pidOf \in [Agent -> Pid \cup {NoPid}] /\ found \in [Agent -> Pid \cup {NoPid}]
  BY DEF TypeInv, Lock!TypeOK
<1>2. /\ life'[a] = "gone"
      /\ \A b \in Agent \ {a} : life'[b] = life[b] /\ pidOf'[b] = pidOf[b] /\ found'[b] = found[b]
  BY <1>1 DEF Lock!Ends
<1>3. OneAcquires'
  BY <1>2 DEF Guarded, OneAcquires, Lock!Acquiring
<1>4. FileOfServer' /\ FileProbed'
  BY <1>2 DEF Guarded, FileOfServer, FileProbed
<1>5. FileTaken' /\ NotItsOwn'
  BY <1>2 DEF Guarded, FileTaken, NotItsOwn
<1>6. QED
  BY <1>3, <1>4, <1>5 DEF Guarded

LEMMA NextLockInv ==
  ASSUME Lock!PidAssumption PROVE LockInv /\ [Lock!Next]_lockVars => LockInv'
<1> SUFFICES ASSUME LockInv, [Lock!Next]_lockVars, unguarded' = FALSE PROVE Guarded'
  <2>1. LockInv /\ [Lock!Next]_lockVars => unguarded' \in BOOLEAN /\ TypeInv'
    BY NextTypeInv DEF LockInv, TypeInv, Lock!TypeOK
  <2>2. QED
    BY <2>1 DEF LockInv
<1>0. TypeInv /\ Guarded /\ unguarded = FALSE
  <2>1. unguarded = FALSE
    BY DEF LockInv, TypeInv, Lock!TypeOK, Lock!Next, Lock!Step, Lock!Start,
           Lock!ReadLock, Lock!Refuse, Lock!FindDead,
           Lock!Truncate, Lock!CannotWrite, Lock!WritePid, Lock!Return, Lock!Exit,
           Lock!Foreign, lockVars
  <2>2. QED
    BY <2>1 DEF LockInv
<1>t. /\ life \in [Agent -> {"none", "gone"} \cup Lock!Alive]
      /\ pidOf \in [Agent -> Pid \cup {NoPid}] /\ found \in [Agent -> Pid \cup {NoPid}]
      /\ pidFile \in Pid \cup {Absent, Empty}
  BY <1>0 DEF TypeInv, Lock!TypeOK
<1>d. /\ \A a \in Agent : life[a] \in Lock!Alive => pidOf[a] \in Pid \ foreign
      /\ \A a, b \in Agent :
           life[a] \in Lock!Alive /\ life[b] \in Lock!Alive /\ pidOf[a] = pidOf[b] => a = b
  BY <1>0 DEF TypeInv, PidsApart
<1>g. OneAcquires /\ FileOfServer /\ FileProbed /\ FileTaken /\ NotItsOwn
  BY <1>0 DEF Guarded
<1>1. ASSUME NEW a \in Agent, Lock!Start(a) PROVE Guarded'
  <2>1. /\ life'[a] = "starting" /\ pidFile' = pidFile /\ found' = found
        /\ \A b \in Agent \ {a} : life'[b] = life[b] /\ pidOf'[b] = pidOf[b]
    BY <1>1, <1>t DEF Lock!Start, Lock!Goto
  <2>2. OneAcquires' /\ FileOfServer' /\ FileProbed' /\ FileTaken' /\ NotItsOwn'
    BY <1>g, <2>1 DEF OneAcquires, FileOfServer, FileProbed, FileTaken, NotItsOwn,
                      Lock!Acquiring
  <2>3. QED
    BY <2>2 DEF Guarded
<1>2. ASSUME NEW a \in Agent, Lock!ReadLock(a) PROVE Guarded'
  <2>1. /\ life[a] = "starting" /\ pidFile' = pidFile /\ pidOf' = pidOf
        /\ \A b \in Agent \ {a} : life'[b] = life[b] /\ found'[b] = found[b]
    BY <1>2, <1>t DEF Lock!ReadLock, Lock!Goto
  <2>2. \A b \in Agent \ {a} : life[b] \notin Lock!Acquiring
    BY <1>2, <1>0 DEF Lock!ReadLock, Lock!Overlapping
  <2>3. \/ pidFile \in Pid /\ life'[a] = "probing" /\ found'[a] = pidFile
        \/ pidFile \notin Pid /\ life'[a] = "writing" /\ found'[a] = found[a]
    BY <1>2, <1>0, <1>t DEF Lock!ReadLock, Lock!Goto
  <2>4. OneAcquires'
    BY <2>1, <2>2 DEF OneAcquires, Lock!Acquiring
  <2>5. FileOfServer' /\ FileProbed'
    BY <1>g, <2>1, <2>3 DEF FileOfServer, FileProbed
  <2>6. FileTaken' /\ NotItsOwn'
    <3>1. life'[a] = "writing" => \A b \in Agent : life'[b] # "serving"
      BY <1>d, <1>g, <2>1, <2>3 DEF FileOfServer, Lock!Alive, Lock!Running, Lock!Left
    <3>2. life'[a] = "writing" => pidFile' # pidOf'[a]
      BY <1>d, <2>1, <2>3 DEF Lock!Alive
    <3>3. QED
      BY <1>g, <2>1, <2>2, <2>3, <3>1, <3>2 DEF FileTaken, NotItsOwn, Lock!Acquiring
  <2>7. QED
    BY <2>4, <2>5, <2>6 DEF Guarded
<1>3. ASSUME NEW a \in Agent, Lock!Refuse(a) \/ Lock!CannotWrite(a) \/ Lock!Exit(a) PROVE Guarded'
  BY <1>0, <1>3, EndsGuarded DEF Lock!Refuse, Lock!CannotWrite, Lock!Exit
<1>4. ASSUME NEW a \in Agent, Lock!FindDead(a) PROVE Guarded'
  <2>1. /\ life[a] = "probing" /\ life'[a] = "writing" /\ pidFile' = pidFile /\ pidOf' = pidOf
        /\ \A b \in Agent \ {a} : life'[b] = life[b] /\ found'[b] = found[b]
    BY <1>4, <1>t DEF Lock!FindDead, Lock!Goto
  <2>2. \A b \in Agent : life[b] \in Lock!Alive => found[a] # pidOf[b]
    BY <1>4, <1>d DEF Lock!FindDead, Lock!MayTake, Lock!InUse
  <2>3. \A b \in Agent : life[b] \in Lock!Alive => pidFile # pidOf[b]
    BY <1>d, <1>g, <2>1, <2>2 DEF Lock!PidAssumption, FileProbed
  <2>4. OneAcquires'
    BY <1>g, <2>1 DEF OneAcquires, Lock!Acquiring
  <2>5. FileOfServer' /\ FileProbed' /\ NotItsOwn'
    BY <1>g, <2>1, <2>3 DEF FileOfServer, FileProbed, NotItsOwn, Lock!Alive, Lock!Acquiring
  <2>6. FileTaken'
    BY <1>g, <2>1, <2>3 DEF FileOfServer, FileTaken, Lock!Alive, Lock!Running, Lock!Left
  <2>7. QED
    BY <2>4, <2>5, <2>6 DEF Guarded
<1>5. ASSUME NEW a \in Agent, Lock!Truncate(a) PROVE Guarded'
  <2>1. /\ life[a] = "writing" /\ life'[a] = "truncated" /\ pidFile' = Empty
        /\ pidOf' = pidOf /\ found' = found /\ \A b \in Agent \ {a} : life'[b] = life[b]
    BY <1>5, <1>t DEF Lock!Truncate, Lock!Goto
  <2>2. \A b \in Agent : life[b] # "serving"
    BY <1>g, <2>1 DEF FileTaken
  <2>3. \A b \in Agent \ {a} : life[b] \notin Lock!Acquiring
    BY <1>g, <2>1 DEF OneAcquires, Lock!Acquiring
  <2>4. OneAcquires' /\ FileOfServer' /\ FileProbed' /\ FileTaken'
    BY <2>1, <2>2, <2>3 DEF OneAcquires, FileOfServer, FileProbed, FileTaken, Lock!Acquiring
  <2>5. NotItsOwn'
    BY <1>d, <2>1 DEF Lock!PidAssumption, NotItsOwn, Lock!Alive, Lock!Acquiring,
                      Lock!Running, Lock!Left
  <2>6. QED
    BY <2>4, <2>5 DEF Guarded
<1>6. ASSUME NEW a \in Agent, Lock!WritePid(a) PROVE Guarded'
  <2>1. /\ life[a] = "truncated" /\ life'[a] = "serving"
        /\ pidOf' = pidOf /\ found' = found /\ \A b \in Agent \ {a} : life'[b] = life[b]
    BY <1>6, <1>t DEF Lock!WritePid, Lock!Goto
  <2>2. pidFile' = pidOf[a]
    BY <1>0, <1>6, <1>g, <2>1 DEF Lock!PidAssumption, Lock!WritePid, Lock!Written, FileTaken
  <2>3. \A b \in Agent \ {a} : life[b] \notin Lock!Acquiring \cup {"serving"}
    BY <1>g, <2>1 DEF OneAcquires, FileTaken, Lock!Acquiring
  <2>4. OneAcquires' /\ FileOfServer' /\ FileProbed' /\ FileTaken'
    BY <2>1, <2>2, <2>3 DEF OneAcquires, FileOfServer, FileProbed, FileTaken, Lock!Acquiring
  <2>5. NotItsOwn'
    BY <1>d, <2>1, <2>2, <2>3 DEF NotItsOwn, Lock!Alive, Lock!Acquiring, Lock!Running, Lock!Left
  <2>6. QED
    BY <2>4, <2>5 DEF Guarded
<1>7. ASSUME NEW a \in Agent, Lock!Return(a) PROVE Guarded'
  <2>1. /\ life[a] = "serving"
        /\ \/ life'[a] = "finishing" /\ pidFile' = Absent
           \/ life'[a] = "stranded" /\ pidFile' = pidFile
        /\ pidOf' = pidOf /\ found' = found /\ \A b \in Agent \ {a} : life'[b] = life[b]
    BY <1>7, <1>t DEF Lock!Return, Lock!Goto, Lock!Cleanup
  <2>2. \A b \in Agent \ {a} : life[b] \notin {"serving", "writing", "truncated"}
    BY <1>d, <1>g, <2>1 DEF FileOfServer, FileTaken, Lock!Alive, Lock!Running, Lock!Left
  <2>3. OneAcquires' /\ FileOfServer' /\ FileProbed' /\ FileTaken'
    BY <1>g, <2>1, <2>2 DEF OneAcquires, FileOfServer, FileProbed, FileTaken, Lock!Acquiring
  <2>4. NotItsOwn'
    BY <1>d, <1>g, <2>1 DEF Lock!PidAssumption, NotItsOwn, Lock!Alive, Lock!Acquiring,
                            Lock!Running, Lock!Left
  <2>5. QED
    BY <2>3, <2>4 DEF Guarded
<1>8. CASE Lock!Foreign \/ UNCHANGED lockVars
  <2>1. UNCHANGED <<life, pidOf, found, pidFile>>
    BY <1>8 DEF Lock!Foreign, lockVars
  <2>2. QED
    BY <1>0, <2>1 DEF Guarded, OneAcquires, FileOfServer, FileProbed, FileTaken, NotItsOwn
<1>9. QED
  BY <1>1, <1>2, <1>3, <1>4, <1>5, <1>6, <1>7, <1>8 DEF Lock!Next, Lock!Step

LEMMA InitLockInv ==
  ASSUME Lock!PidAssumption PROVE Lock!Init => LockInv
BY InitTypeInv
DEF Lock!Init, LockInv, Guarded, OneAcquires, FileOfServer, FileProbed, FileTaken, NotItsOwn,
    Lock!Acquiring

(* A serving agent is the one agent.pid names, and numbers are apart *)
LEMMA LockInvServesAlone == LockInv => Lock!ServesAlone
BY DEF LockInv, TypeInv, PidsApart, Guarded, FileOfServer, Lock!ServesAlone, Lock!Alive,
       Lock!Running, Lock!Left

LEMMA LockInvNamesServer ==
  ASSUME Lock!PidAssumption PROVE LockInv => Lock!LockNamesServer
<1> SUFFICES ASSUME LockInv, Guarded, NEW a \in Agent
             PROVE  /\ life[a] = "serving" => pidFile = pidOf[a]
                    /\ life[a] \in Lock!Alive /\ pidFile = pidOf[a] =>
                         life[a] \in {"serving", "stranded", "starting", "probing"}
  BY DEF LockInv, Lock!LockNamesServer
<1>1. life[a] = "truncated" => pidFile # pidOf[a]
  BY DEF Lock!PidAssumption, LockInv, TypeInv, PidsApart, Guarded, FileTaken, Lock!Alive,
         Lock!Acquiring
<1>2. QED
  BY <1>1 DEF Guarded, FileOfServer, NotItsOwn, Lock!Alive, Lock!Acquiring, Lock!Running, Lock!Left

-----------------------------------------------------------------------------
(* KnownHosts *)

(* A set of line numbers has a largest one: the smallest distance from the end *)
LEMMA LargestNumber ==
  ASSUME NEW n \in Nat, NEW S \in SUBSET (1 .. n), S # {}
  PROVE  \E i \in S : \A j \in S : j <= i
<1> DEFINE Distances == {n - i : i \in S}
<1> DEFINE Less == OpToRel(<, Nat)
<1>1. Distances \subseteq Nat /\ Distances # {}
  <2>1. \A i \in S : n - i \in Nat
    OBVIOUS
  <2>2. QED
    BY <2>1
<1>2. PICK x \in Distances : \A y \in Distances : <<y, x>> \notin Less
  <2> HIDE DEF Distances
  <2>1. QED
    BY <1>1, NatLessThanWellFounded, WFMin
<1>3. \A y \in Distances : ~ (y < x)
  BY <1>1, <1>2 DEF OpToRel
<1>4. PICK i \in S : x = n - i
  OBVIOUS
<1>5. \A j \in S : j <= i
  BY <1>3, <1>4
<1>6. QED
  BY <1>5

Line == [address : Address, key : HostKey]

(* Recorded, of any sequence of lines *)
LinesIn(h, address) == {i \in DOMAIN h : h[i].address = address}
KeyIn(h, address) ==
  IF LinesIn(h, address) = {} THEN NoKey
  ELSE h[CHOOSE i \in LinesIn(h, address) : \A j \in LinesIn(h, address) : j <= i].key
OneLineEach(h) == \A i, j \in DOMAIN h : h[i].address = h[j].address => i = j

LEMMA RecordedIsKeyIn == \A address : Hosts!Recorded(address) = KeyIn(hosts, address)
BY DEF Hosts!Recorded, Hosts!LinesOf, KeyIn, LinesIn

(* Of the only line of an address, the key; of an address with none, NoKey *)
LEMMA KeyOfOnlyLine ==
  ASSUME NEW h \in Seq(Line), OneLineEach(h), NEW i \in DOMAIN h
  PROVE  KeyIn(h, h[i].address) = h[i].key
<1> DEFINE Lines == LinesIn(h, h[i].address)
<1>1. Lines = {i}
  BY DEF OneLineEach, LinesIn
<1>2. i \in Nat
  OBVIOUS
<1>3. (CHOOSE k \in Lines : \A j \in Lines : j <= k) = i
  BY <1>1, <1>2
<1>4. QED
  BY <1>1, <1>3 DEF KeyIn

LEMMA NoKeyNoLine ==
  ASSUME Hosts!HostsAssumption, NEW h \in Seq(Line), OneLineEach(h),
         NEW address, KeyIn(h, address) = NoKey
  PROVE  LinesIn(h, address) = {}
<1> SUFFICES ASSUME NEW i \in DOMAIN h, h[i].address = address PROVE FALSE
  BY DEF LinesIn
<1>1. KeyIn(h, address) = h[i].key
  BY KeyOfOnlyLine
<1>2. h[i] \in Line
  OBVIOUS
<1>3. h[i].key \in HostKey
  BY <1>2 DEF Line
<1>4. QED
  BY <1>1, <1>3 DEF Hosts!HostsAssumption

(* A line for an address that had none becomes its key and changes no other *)
LEMMA KeyAppended ==
  ASSUME NEW h \in Seq(Line), OneLineEach(h), NEW line \in Line,
         LinesIn(h, line.address) = {}
  PROVE  LET g == Append(h, line)
         IN /\ g \in Seq(Line) /\ OneLineEach(g)
            /\ KeyIn(g, line.address) = line.key
            /\ \A address \in Address \ {line.address} : KeyIn(g, address) = KeyIn(h, address)
<1> DEFINE g == Append(h, line)
<1>1. g \in Seq(Line) /\ DOMAIN g = DOMAIN h \cup {Len(h) + 1}
  OBVIOUS
<1>2. g[Len(h) + 1] = line /\ \A i \in DOMAIN h : g[i] = h[i]
  OBVIOUS
<1>3. \A i \in DOMAIN h : h[i].address # line.address
  BY DEF LinesIn
<1>4. OneLineEach(g)
  BY <1>1, <1>2, <1>3 DEF OneLineEach
<1>5. KeyIn(g, line.address) = line.key
  BY <1>1, <1>2, <1>4, KeyOfOnlyLine
<1>6. ASSUME NEW address \in Address \ {line.address}
      PROVE  KeyIn(g, address) = KeyIn(h, address)
  <2>1. LinesIn(g, address) = LinesIn(h, address)
    BY <1>1, <1>2 DEF LinesIn
  <2>2. CASE LinesIn(h, address) = {}
    BY <2>1, <2>2 DEF KeyIn
  <2>3. ASSUME NEW i \in DOMAIN h, h[i].address = address
        PROVE  KeyIn(g, address) = KeyIn(h, address)
    <3>1. i \in DOMAIN g /\ g[i] = h[i]
      BY <1>1, <1>2
    <3>2. QED
      BY <1>1, <1>4, <2>3, <3>1, KeyOfOnlyLine
  <2>4. QED
    BY <2>2, <2>3 DEF LinesIn
<1>7. QED
  BY <1>1, <1>4, <1>5, <1>6

-----------------------------------------------------------------------------
(* As long as no two processes meet and the file can be read: one session is
   in the callback, what it has read still holds, and the sessions that were
   let through showed the key recorded for their address.                   *)
OneInside == \A s, t \in Session : at[s] \in Hosts!Inside /\ at[t] \in Hosts!Inside => s = t
SeenHolds == \A s \in Session : at[s] = "looked" => seen[s] = KeyIn(hosts, AddressOf[s])
ShownHolds ==
  \A s \in Session : at[s] = "accepted" =>
    shown[s] \in HostKey /\ KeyIn(hosts, AddressOf[s]) = shown[s]
Sound == OneInside /\ OneLineEach(hosts) /\ SeenHolds /\ ShownHolds
HostsInv == Hosts!TypeOK /\ (clashed \/ Sound)

LEMMA InitHostsInv == Hosts!Init => HostsInv
<1> SUFFICES ASSUME Hosts!Init PROVE HostsInv
  OBVIOUS
<1>1. hosts \in Seq(Line) /\ DOMAIN hosts = {}
  BY DEF Hosts!Init
<1>2. Hosts!TypeOK
  BY <1>1 DEF Hosts!Init, Hosts!TypeOK, Line
<1>3. OneLineEach(hosts)
  BY <1>1 DEF OneLineEach
<1>4. OneInside /\ SeenHolds /\ ShownHolds
  BY DEF Hosts!Init, OneInside, SeenHolds, ShownHolds, Hosts!Inside
<1>5. QED
  BY <1>2, <1>3, <1>4 DEF HostsInv, Sound

LEMMA NextHostsTypeOK ==
  ASSUME Hosts!HostsAssumption PROVE Hosts!TypeOK /\ [Hosts!Next]_hostVars => Hosts!TypeOK'
<1> SUFFICES ASSUME Hosts!TypeOK, [Hosts!Next]_hostVars PROVE Hosts!TypeOK'
  OBVIOUS
<1> USE DEF Hosts!Inside, Hosts!Ended
<1>0. /\ at \in [Session -> {"idle"} \cup Hosts!Inside \cup Hosts!Ended]
      /\ shown \in [Session -> HostKey \cup {NoKey}]
      /\ seen \in [Session -> HostKey \cup {NoKey}]
      /\ hosts \in Seq(Line) /\ clashed \in BOOLEAN
  BY DEF Hosts!TypeOK, Line
<1>k. ASSUME NEW s \in Session PROVE Hosts!Recorded(AddressOf[s]) \in HostKey \cup {NoKey}
  <2> DEFINE A == Hosts!LinesOf(AddressOf[s])
  <2> DEFINE last == CHOOSE i \in A : \A j \in A : j <= i
  <2>1. CASE Hosts!LinesOf(AddressOf[s]) = {}
    BY <2>1 DEF Hosts!Recorded
  <2>2. CASE Hosts!LinesOf(AddressOf[s]) # {}
    <3>1. A \subseteq 1 .. Len(hosts) /\ Len(hosts) \in Nat
      BY <1>0 DEF Hosts!LinesOf
    <3>2. \E i \in A : \A j \in A : j <= i
      BY <2>2, <3>1, LargestNumber
    <3>3. last \in DOMAIN hosts
      BY <3>2 DEF Hosts!LinesOf
    <3>4. hosts[last] \in Line
      BY <1>0, <3>3
    <3>5. Hosts!Recorded(AddressOf[s]) = hosts[last].key
      BY <2>2 DEF Hosts!Recorded
    <3>6. QED
      BY <3>4, <3>5 DEF Line
  <2>3. QED
    BY <2>1, <2>2
<1>1. ASSUME NEW s \in Session, Hosts!Lock(s) PROVE Hosts!TypeOK'
  BY <1>0, <1>1 DEF Hosts!TypeOK, Hosts!Lock, Hosts!Goto, Line
<1>2. ASSUME NEW s \in Session, Hosts!LookUp(s) PROVE Hosts!TypeOK'
  <2>1. seen' \in [Session -> HostKey \cup {NoKey}]
    BY <1>0, <1>2, <1>k DEF Hosts!LookUp
  <2>2. QED
    BY <1>0, <1>2, <2>1 DEF Hosts!TypeOK, Hosts!LookUp, Hosts!Goto, Line
<1>3. ASSUME NEW s \in Session, Hosts!Trust(s) PROVE Hosts!TypeOK'
  <2>1. PICK k \in HostKey :
          Hosts!Accepts(s, k) /\ hosts' = Append(hosts, [address |-> AddressOf[s],
          key |-> k])
    BY <1>3 DEF Hosts!Trust
  <2>2. [address |-> AddressOf[s], key |-> k] \in Line
    BY DEF Hosts!HostsAssumption, Line
  <2>3. hosts' \in Seq(Line)
    BY <1>0, <2>1, <2>2
  <2>4. QED
    BY <1>0, <1>3, <2>1, <2>3 DEF Hosts!TypeOK, Hosts!Trust, Hosts!Accepts, Hosts!Forget,
      Hosts!Goto, Line
<1>4. ASSUME NEW s \in Session, Hosts!CannotRecord(s) PROVE Hosts!TypeOK'
  BY <1>0, <1>4 DEF Hosts!TypeOK, Hosts!CannotRecord, Hosts!Forget, Hosts!Rejects,
                    Hosts!Goto, Line
<1>5. ASSUME NEW s \in Session, Hosts!Compare(s) PROVE Hosts!TypeOK'
  BY <1>0, <1>5 DEF Hosts!TypeOK, Hosts!Compare, Hosts!Forget, Hosts!Accepts,
                    Hosts!Rejects, Hosts!Goto, Line
<1>6. ASSUME NEW p \in Process, Hosts!Killed(p) PROVE Hosts!TypeOK'
  BY <1>0, <1>6 DEF Hosts!TypeOK, Hosts!Killed, Line
<1>7. CASE UNCHANGED hostVars
  BY <1>7 DEF hostVars, Hosts!TypeOK
<1>8. QED
  BY <1>1, <1>2, <1>3, <1>4, <1>5, <1>6, <1>7 DEF Hosts!Next, Hosts!Callback

LEMMA NextHostsInv ==
  ASSUME Hosts!HostsAssumption PROVE HostsInv /\ [Hosts!Next]_hostVars => HostsInv'
<1> SUFFICES ASSUME HostsInv, [Hosts!Next]_hostVars, clashed' = FALSE PROVE Sound'
  <2>1. HostsInv /\ [Hosts!Next]_hostVars => Hosts!TypeOK' /\ clashed' \in BOOLEAN
    BY NextHostsTypeOK DEF HostsInv, Hosts!TypeOK
  <2>2. QED
    BY <2>1 DEF HostsInv
<1>0. Hosts!TypeOK /\ Sound /\ clashed = FALSE
  <2>1. clashed = FALSE
    BY DEF HostsInv, Hosts!TypeOK, Hosts!Next, Hosts!Callback, Hosts!Lock, Hosts!LookUp,
           Hosts!Trust, Hosts!CannotRecord, Hosts!Compare,
           Hosts!Killed, hostVars
  <2>2. QED
    BY <2>1 DEF HostsInv
<1>t. /\ at \in [Session -> {"idle"} \cup Hosts!Inside \cup Hosts!Ended]
      /\ shown \in [Session -> HostKey \cup {NoKey}]
      /\ seen \in [Session -> HostKey \cup {NoKey}]
      /\ hosts \in Seq(Line)
  BY <1>0 DEF Hosts!TypeOK, Line
<1>s. OneInside /\ OneLineEach(hosts) /\ SeenHolds /\ ShownHolds
  BY <1>0 DEF Sound
<1>1. ASSUME NEW s \in Session, Hosts!Lock(s) PROVE Sound'
  <2>1. /\ at'[s] = "locked" /\ UNCHANGED <<shown, seen, hosts>>
        /\ \A t \in Session \ {s} : at'[t] = at[t]
    BY <1>1, <1>t DEF Hosts!Lock, Hosts!Goto
  <2>2. \A t \in Session \ {s} : at[t] \notin Hosts!Inside
    BY <1>1, <1>0 DEF Hosts!Lock, Hosts!Free
  <2>3. OneInside'
    BY <2>1, <2>2 DEF OneInside
  <2>4. SeenHolds' /\ ShownHolds'
    BY <1>s, <2>1 DEF SeenHolds, ShownHolds
  <2>5. QED
    BY <1>s, <2>1, <2>3, <2>4 DEF Sound
<1>2. ASSUME NEW s \in Session, Hosts!LookUp(s) PROVE Sound'
  <2>1. /\ at[s] = "locked" /\ at'[s] = "looked" /\ UNCHANGED <<shown, hosts>>
        /\ \A t \in Session \ {s} : at'[t] = at[t] /\ seen'[t] = seen[t]
    BY <1>2, <1>t DEF Hosts!LookUp, Hosts!Goto
  <2>2. seen'[s] = KeyIn(hosts, AddressOf[s])
    BY <1>2, <1>0, <1>t, RecordedIsKeyIn DEF Hosts!LookUp
  <2>3. OneInside' /\ SeenHolds' /\ ShownHolds'
    BY <1>s, <2>1, <2>2 DEF OneInside, SeenHolds, ShownHolds, Hosts!Inside
  <2>4. QED
    BY <1>s, <2>1, <2>3 DEF Sound
<1>3. ASSUME NEW s \in Session, Hosts!Trust(s) PROVE Sound'
  <2> DEFINE here == AddressOf[s]
  <2>1. PICK k \in HostKey :
          Hosts!Accepts(s, k) /\ hosts' = Append(hosts, [address |-> here, key |-> k])
    BY <1>3 DEF Hosts!Trust
  <2>2. /\ at[s] = "looked" /\ at'[s] = "accepted" /\ shown'[s] = k
        /\ \A t \in Session \ {s} : at'[t] = at[t] /\ shown'[t] = shown[t]
    BY <1>t, <2>1 DEF Hosts!Accepts, Hosts!Goto
  <2>3. KeyIn(hosts, here) = NoKey
    BY <1>3, <1>s, <2>2 DEF Hosts!Trust, SeenHolds
  <2>4. LinesIn(hosts, here) = {}
    BY <1>t, <1>s, <2>3, NoKeyNoLine
  <2>5. [address |-> here, key |-> k] \in Line
    BY DEF Hosts!HostsAssumption, Line
  <2>6. /\ OneLineEach(hosts') /\ KeyIn(hosts', here) = k
        /\ \A address \in Address \ {here} : KeyIn(hosts', address) = KeyIn(hosts, address)
    BY <1>t, <1>s, <2>1, <2>4, <2>5, KeyAppended
  <2>7. \A t \in Session \ {s} : at[t] \notin Hosts!Inside
    BY <1>s, <2>2 DEF OneInside, Hosts!Inside
  <2>8. OneInside' /\ SeenHolds'
    BY <2>2, <2>7 DEF OneInside, SeenHolds, Hosts!Inside
  <2>9. ShownHolds'
    <3>1. ASSUME NEW t \in Session \ {s}, at[t] = "accepted"
          PROVE  shown[t] \in HostKey /\ KeyIn(hosts', AddressOf[t]) = shown[t]
      <4>1. shown[t] \in HostKey /\ KeyIn(hosts, AddressOf[t]) = shown[t]
        BY <1>s, <3>1 DEF ShownHolds
      <4>2. AddressOf[t] \in Address \ {here}
        BY <2>3, <4>1 DEF Hosts!HostsAssumption
      <4>3. QED
        BY <2>6, <4>1, <4>2
    <3>2. QED
      BY <2>2, <2>6, <3>1 DEF ShownHolds
  <2>10. QED
    BY <2>6, <2>8, <2>9 DEF Sound
<1>4. ASSUME NEW s \in Session, Hosts!CannotRecord(s) PROVE Sound'
  <2>1. /\ at'[s] = "rejected" /\ UNCHANGED <<shown, hosts>>
        /\ \A t \in Session \ {s} : at'[t] = at[t] /\ seen'[t] = seen[t]
    BY <1>4, <1>t DEF Hosts!CannotRecord, Hosts!Rejects, Hosts!Forget, Hosts!Goto
  <2>2. OneInside' /\ SeenHolds' /\ ShownHolds'
    BY <1>s, <2>1 DEF OneInside, SeenHolds, ShownHolds, Hosts!Inside
  <2>3. QED
    BY <1>s, <2>1, <2>2 DEF Sound
<1>5. ASSUME NEW s \in Session, Hosts!Compare(s) PROVE Sound'
  <2>1. /\ at[s] = "looked" /\ hosts' = hosts
        /\ \/ at'[s] = "accepted" /\ shown'[s] = seen[s] /\ seen[s] \in HostKey
           \/ at'[s] = "rejected"
        /\ \A t \in Session \ {s} :
             at'[t] = at[t] /\ seen'[t] = seen[t] /\ shown'[t] = shown[t]
    BY <1>5, <1>t DEF Hosts!Compare, Hosts!Accepts, Hosts!Rejects, Hosts!Forget, Hosts!Goto
  <2>2. KeyIn(hosts, AddressOf[s]) = seen[s]
    BY <1>s, <2>1 DEF SeenHolds
  <2>3. OneInside' /\ SeenHolds' /\ ShownHolds'
    BY <1>s, <2>1, <2>2 DEF OneInside, SeenHolds, ShownHolds, Hosts!Inside
  <2>4. QED
    BY <1>s, <2>1, <2>3 DEF Sound
<1>6. ASSUME NEW p \in Process, Hosts!Killed(p) PROVE Sound'
  <2>1. /\ hosts' = hosts
        /\ \A s \in Session : \/ at'[s] = "killed"
                              \/ at'[s] = at[s] /\ seen'[s] = seen[s] /\ shown'[s] = shown[s]
    BY <1>6 DEF Hosts!Killed
  <2>2. OneInside' /\ SeenHolds' /\ ShownHolds'
    BY <1>s, <2>1 DEF OneInside, SeenHolds, ShownHolds, Hosts!Inside
  <2>3. QED
    BY <1>s, <2>1, <2>2 DEF Sound
<1>7. CASE UNCHANGED hostVars
  BY <1>0, <1>7 DEF hostVars, Sound, OneInside, SeenHolds, ShownHolds
<1>8. QED
  BY <1>1, <1>2, <1>3, <1>4, <1>5, <1>6, <1>7 DEF Hosts!Next, Hosts!Callback

LEMMA HostsInvFirstKey == HostsInv => Hosts!FirstKeyStays
BY RecordedIsKeyIn
DEF HostsInv, Sound, OneLineEach, ShownHolds, Hosts!FirstKeyStays

-----------------------------------------------------------------------------
(* ModelCache *)

(* The session that fills the cache of a process is the one that has its lock *)
WriterFills ==
  \A s \in Session : step[s] = "compiling" <=> writer[ProcessOf[s]] = s
(* The two entries of a vendor are from one session, except while the session
   that has the lock is between the one and the other.                      *)
EntriesAgree ==
  \A c \in Process \X Vendor :
    \/ modelsCache[c] = regexCache[c]
    \/ \E s \in Session : step[s] = "compiling" /\ Cache!Entry(s) = c /\ modelsCache[c] = s
ModelsCached ==
  \A s \in Session :
    /\ step[s] = "compiling" => Cache!Cached(s) = s
    /\ step[s] \in {"ready", "sanitized"} => model[s] = Cache!Cached(s) /\ model[s] \in Session
    /\ step[s] = "sanitized" => filters[s] = model[s]
CacheInv == Cache!TypeOK /\ WriterFills /\ EntriesAgree /\ ModelsCached

LEMMA InitCacheInv ==
  ASSUME Cache!CacheAssumption PROVE Cache!Init => CacheInv
<1> SUFFICES ASSUME Cache!Init PROVE CacheInv
  OBVIOUS
<1>1. Cache!TypeOK
  BY DEF Cache!Init, Cache!TypeOK, Cache!Steps
<1>2. WriterFills
  BY DEF Cache!CacheAssumption, Cache!Init, WriterFills
<1>3. EntriesAgree /\ ModelsCached
  BY DEF Cache!Init, EntriesAgree, ModelsCached
<1>4. QED
  BY <1>1, <1>2, <1>3 DEF CacheInv

(* Where nobody has the lock, the caches agree on every vendor *)
LEMMA FreeAgrees ==
  ASSUME Cache!CacheAssumption, CacheInv, NEW s \in Session, Cache!MayRead(s)
  PROVE  modelsCache[Cache!Entry(s)] = regexCache[Cache!Entry(s)]
<1>1. Cache!Entry(s) \in Process \X Vendor
  BY DEF Cache!CacheAssumption, Cache!Entry
<1>2. \A t \in Session : Cache!Entry(t) = Cache!Entry(s) => step[t] # "compiling"
  BY DEF Cache!CacheAssumption, CacheInv, WriterFills, Cache!MayRead, Cache!Entry
<1>3. QED
  BY <1>1, <1>2 DEF CacheInv, EntriesAgree

LEMMA NextCacheInv ==
  ASSUME Cache!CacheAssumption PROVE CacheInv /\ [Cache!Next]_cacheVars => CacheInv'
<1> SUFFICES ASSUME CacheInv, [Cache!Next]_cacheVars PROVE CacheInv'
  OBVIOUS
<1>t. /\ step \in [Session -> Cache!Steps]
      /\ model \in [Session -> Session \cup {None}]
      /\ filters \in [Session -> Session \cup {None}]
      /\ writer \in [Process -> Session \cup {None}]
      /\ modelsCache \in [Process \X Vendor -> Session \cup {None}]
      /\ regexCache \in [Process \X Vendor -> Session \cup {None}]
  BY DEF CacheInv, Cache!TypeOK
<1>i. WriterFills /\ EntriesAgree /\ ModelsCached
  BY DEF CacheInv
<1>e. \A s \in Session :
        ProcessOf[s] \in Process /\ Cache!Entry(s) \in Process \X Vendor /\ Cache!Entry(s)[1] = ProcessOf[s]
  BY DEF Cache!CacheAssumption, Cache!Entry
<1>1. ASSUME NEW s \in Session, Cache!ReadModel(s) \/ Cache!DoubleCheck(s) PROVE CacheInv'
  <2>1. /\ step[s] \in {"idle", "absent"} /\ UNCHANGED <<writer, modelsCache, regexCache, filters>>
        /\ \/ step' = [step EXCEPT ![s] = "absent"] /\ model' = model
           \/ /\ step' = [step EXCEPT ![s] = "ready"] /\ Cache!Cached(s) # None
              /\ model' = [model EXCEPT ![s] = Cache!Cached(s)]
    BY <1>1 DEF Cache!ReadModel, Cache!DoubleCheck, Cache!Goto, Cache!Filled
  <2>2. Cache!Cached(s) \in Session \cup {None}
    BY <1>t, <1>e DEF Cache!Cached
  <2>3. Cache!TypeOK'
    BY <1>t, <2>1, <2>2 DEF Cache!TypeOK, Cache!Steps
  <2>4. WriterFills' /\ EntriesAgree'
    BY <1>t, <1>i, <2>1 DEF WriterFills, EntriesAgree
  <2>5. ModelsCached'
    BY <1>t, <1>i, <2>1, <2>2 DEF ModelsCached, Cache!Cached
  <2>6. QED
    BY <2>3, <2>4, <2>5 DEF CacheInv
<1>2. ASSUME NEW s \in Session, Cache!ParseModel(s) PROVE CacheInv'
  <2>1. /\ step[s] = "absent" /\ step' = [step EXCEPT ![s] = "compiling"]
        /\ writer[ProcessOf[s]] = None /\ writer' = [writer EXCEPT ![ProcessOf[s]] = s]
        /\ modelsCache[Cache!Entry(s)] = None /\ modelsCache' = [modelsCache EXCEPT ![Cache!Entry(s)] = s]
        /\ UNCHANGED <<model, regexCache, filters>>
    BY <1>2 DEF Cache!ParseModel, Cache!Goto, Cache!Filled, Cache!Cached
  <2>2. Cache!TypeOK'
    BY <1>t, <2>1 DEF Cache!TypeOK, Cache!Steps
  <2>3. \A t \in Session : ProcessOf[t] = ProcessOf[s] => step[t] # "compiling"
    BY <1>i, <2>1 DEF Cache!CacheAssumption, WriterFills
  <2>4. WriterFills'
    <3>1. \A t \in Session \ {s} :
            step'[t] = step[t] /\ (writer'[ProcessOf[t]] = t <=> writer[ProcessOf[t]] = t)
      BY <1>t, <1>e, <2>1 DEF Cache!CacheAssumption
    <3>2. step'[s] = "compiling" /\ writer'[ProcessOf[s]] = s
      BY <1>t, <1>e, <2>1
    <3>3. QED
      BY <1>i, <3>1, <3>2 DEF WriterFills
  <2>5. EntriesAgree'
    <3>1. ASSUME NEW c \in Process \X Vendor, c # Cache!Entry(s)
          PROVE  \/ modelsCache'[c] = regexCache'[c]
                 \/ \E t \in Session : step'[t] = "compiling" /\ Cache!Entry(t) = c /\ modelsCache'[c] = t
      <4>1. modelsCache'[c] = modelsCache[c] /\ regexCache'[c] = regexCache[c]
        BY <1>t, <2>1, <3>1
      <4>2. \A t \in Session : step[t] = "compiling" => step'[t] = "compiling"
        BY <1>t, <2>1
      <4>3. QED
        BY <1>i, <4>1, <4>2 DEF EntriesAgree
    <3>2. step'[s] = "compiling" /\ modelsCache'[Cache!Entry(s)] = s
      BY <1>t, <1>e, <2>1
    <3>3. QED
      BY <3>1, <3>2 DEF EntriesAgree, Cache!Entry
  <2>6. ModelsCached'
    <3>1. \A t \in Session : Cache!Entry(t) = Cache!Entry(s) => step[t] \notin {"ready", "sanitized"}
      BY <1>i, <2>1 DEF Cache!CacheAssumption, ModelsCached, Cache!Cached
    <3>2. \A t \in Session \ {s} : step'[t] = step[t] /\
            (Cache!Entry(t) # Cache!Entry(s) => modelsCache'[Cache!Entry(t)] = modelsCache[Cache!Entry(t)])
      BY <1>t, <1>e, <2>1
    <3>3. \A t \in Session \ {s} : step[t] = "compiling" => Cache!Entry(t) # Cache!Entry(s)
      BY <2>3 DEF Cache!Entry
    <3>4. step'[s] = "compiling" /\ modelsCache'[Cache!Entry(s)] = s
      BY <1>t, <1>e, <2>1
    <3>5. QED
      BY <1>i, <2>1, <3>1, <3>2, <3>3, <3>4 DEF ModelsCached, Cache!Cached, Cache!Entry
  <2>7. QED
    BY <2>2, <2>4, <2>5, <2>6 DEF CacheInv
<1>3. ASSUME NEW s \in Session, Cache!CompileFilters(s) PROVE CacheInv'
  <2>1. /\ step[s] = "compiling" /\ step' = [step EXCEPT ![s] = "ready"]
        /\ writer' = [writer EXCEPT ![ProcessOf[s]] = None]
        /\ regexCache' = [regexCache EXCEPT ![Cache!Entry(s)] = s]
        /\ model' = [model EXCEPT ![s] = s]
        /\ UNCHANGED <<modelsCache, filters>>
    BY <1>3 DEF Cache!CompileFilters, Cache!Goto
  <2>2. Cache!TypeOK'
    BY <1>t, <2>1 DEF Cache!TypeOK, Cache!Steps
  <2>3. writer[ProcessOf[s]] = s /\ modelsCache[Cache!Entry(s)] = s
    BY <1>i, <2>1 DEF WriterFills, ModelsCached, Cache!Cached
  <2>4. WriterFills'
    <3>1. \A t \in Session \ {s} :
            step'[t] = step[t] /\ (writer'[ProcessOf[t]] = t <=> writer[ProcessOf[t]] = t)
      BY <1>t, <1>e, <2>1, <2>3 DEF Cache!CacheAssumption
    <3>2. step'[s] # "compiling" /\ writer'[ProcessOf[s]] # s
      BY <1>t, <1>e, <2>1 DEF Cache!CacheAssumption
    <3>3. QED
      BY <1>i, <3>1, <3>2 DEF WriterFills
  <2>5. EntriesAgree'
    <3>1. ASSUME NEW c \in Process \X Vendor, c # Cache!Entry(s)
          PROVE  \/ modelsCache'[c] = regexCache'[c]
                 \/ \E t \in Session : step'[t] = "compiling" /\ Cache!Entry(t) = c /\ modelsCache'[c] = t
      <4>1. modelsCache'[c] = modelsCache[c] /\ regexCache'[c] = regexCache[c]
        BY <1>t, <2>1, <3>1
      <4>2. \A t \in Session : step[t] = "compiling" /\ Cache!Entry(t) = c => step'[t] = "compiling"
        BY <1>t, <2>1, <3>1
      <4>3. QED
        BY <1>i, <4>1, <4>2 DEF EntriesAgree
    <3>2. modelsCache'[Cache!Entry(s)] = regexCache'[Cache!Entry(s)]
      BY <1>t, <1>e, <2>1, <2>3
    <3>3. QED
      BY <3>1, <3>2 DEF EntriesAgree
  <2>6. ModelsCached'
    BY <1>t, <1>i, <2>1, <2>3 DEF ModelsCached, Cache!Cached
  <2>7. QED
    BY <2>2, <2>4, <2>5, <2>6 DEF CacheInv
<1>4. ASSUME NEW s \in Session, Cache!Sanitize(s) PROVE CacheInv'
  <2>1. /\ step[s] = "ready" /\ step' = [step EXCEPT ![s] = "sanitized"] /\ Cache!MayRead(s)
        /\ filters' = [filters EXCEPT ![s] = regexCache[Cache!Entry(s)]]
        /\ UNCHANGED <<model, writer, modelsCache, regexCache>>
    BY <1>4 DEF Cache!Sanitize, Cache!Goto
  <2>2. regexCache[Cache!Entry(s)] = modelsCache[Cache!Entry(s)]
    BY <2>1, FreeAgrees
  <2>3. Cache!TypeOK'
    BY <1>t, <1>e, <2>1 DEF Cache!TypeOK, Cache!Steps
  <2>4. WriterFills' /\ EntriesAgree'
    BY <1>t, <1>i, <2>1 DEF WriterFills, EntriesAgree
  <2>5. ModelsCached'
    BY <1>t, <1>i, <2>1, <2>2 DEF ModelsCached, Cache!Cached
  <2>6. QED
    BY <2>3, <2>4, <2>5 DEF CacheInv
<1>5. ASSUME NEW p \in Process, Cache!Killed(p) PROVE CacheInv'
  <2>1. /\ \A s \in Session : /\ ProcessOf[s] = p => step'[s] = "killed"
                              /\ ProcessOf[s] # p => /\ step'[s] = step[s] /\ model'[s] = model[s]
                                                     /\ filters'[s] = filters[s]
        /\ \A c \in Process \X Vendor :
             /\ c[1] = p => modelsCache'[c] = None /\ regexCache'[c] = None
             /\ c[1] # p => modelsCache'[c] = modelsCache[c] /\ regexCache'[c] = regexCache[c]
        /\ writer' = [writer EXCEPT ![p] = None]
    BY <1>5, <1>t DEF Cache!Killed
  <2>2. Cache!TypeOK'
    BY <1>5, <1>t DEF Cache!Killed, Cache!TypeOK, Cache!Steps
  <2>3. WriterFills'
    BY <1>t, <1>i, <1>e, <2>1 DEF Cache!CacheAssumption, WriterFills
  <2>4. EntriesAgree'
    <3>1. ASSUME NEW c \in Process \X Vendor, c[1] # p, NEW t \in Session, Cache!Entry(t) = c
          PROVE  step'[t] = step[t]
      BY <1>e, <2>1, <3>1
    <3>2. QED
      BY <1>i, <2>1, <3>1 DEF EntriesAgree
  <2>5. ModelsCached'
    BY <1>i, <1>e, <2>1 DEF ModelsCached, Cache!Cached
  <2>6. QED
    BY <2>2, <2>3, <2>4, <2>5 DEF CacheInv
<1>6. CASE UNCHANGED cacheVars
  BY <1>6 DEF cacheVars, CacheInv, Cache!TypeOK, WriterFills, EntriesAgree, ModelsCached,
              Cache!Cached
<1>7. QED
  BY <1>1, <1>2, <1>3, <1>4, <1>5, <1>6 DEF Cache!Next, Cache!GetDeviceModel

LEMMA CacheInvFilters ==
  ASSUME Cache!CacheAssumption PROVE CacheInv => Cache!FiltersOfModel
BY DEF Cache!CacheAssumption, CacheInv, ModelsCached, Cache!FiltersOfModel

-----------------------------------------------------------------------------
(* Every step of Host is one of each component, or a stutter of it *)
LEMMA StepsOfLock == [Next]_vars => [Lock!Next]_lockVars
<1> SUFFICES ASSUME [Next]_vars PROVE Lock!Next \/ UNCHANGED lockVars
  OBVIOUS
<1>1. ASSUME NEW a \in Agent, AgentStep(a) \/ AgentExits(a) PROVE Lock!Next
  BY <1>1 DEF AgentStep, AgentExits, Lock!Next, Lock!Step
<1>2. CASE OtherProgram
  BY <1>2 DEF OtherProgram, Lock!Next
<1>3. CASE CheckExits \/ \E s \in Session : LoadModel(s) \/ VerifyHost(s) \/ Sanitize(s)
  BY <1>3 DEF CheckExits, LoadModel, VerifyHost, Sanitize
<1>4. CASE UNCHANGED vars
  BY <1>4 DEF vars
<1>5. QED
  BY <1>1, <1>2, <1>3, <1>4 DEF Next

LEMMA StepsOfHosts == [Next]_vars => [Hosts!Next]_hostVars
<1> SUFFICES ASSUME [Next]_vars PROVE Hosts!Next \/ UNCHANGED hostVars
  OBVIOUS
<1>1. ASSUME NEW a \in Agent, AgentStep(a) PROVE UNCHANGED hostVars
  BY <1>1 DEF AgentStep
<1>2. CASE (\E a \in Agent : AgentExits(a)) \/ CheckExits
  BY <1>2 DEF AgentExits, CheckExits, Hosts!Next, Process
<1>3. CASE OtherProgram \/ \E s \in Session : LoadModel(s) \/ Sanitize(s)
  BY <1>3 DEF OtherProgram, LoadModel, Sanitize
<1>4. CASE \E s \in Session : VerifyHost(s)
  BY <1>4 DEF VerifyHost, Hosts!Next
<1>5. CASE UNCHANGED vars
  BY <1>5 DEF vars
<1>6. QED
  BY <1>1, <1>2, <1>3, <1>4, <1>5 DEF Next

LEMMA StepsOfCache == [Next]_vars => [Cache!Next]_cacheVars
<1> SUFFICES ASSUME [Next]_vars PROVE Cache!Next \/ UNCHANGED cacheVars
  OBVIOUS
<1>1. ASSUME NEW a \in Agent, AgentStep(a) PROVE UNCHANGED cacheVars
  BY <1>1 DEF AgentStep
<1>2. CASE \E a \in Agent : AgentExits(a)
  BY <1>2 DEF AgentExits, Cache!Next, Process
<1>3. CASE CheckExits \/ OtherProgram \/ \E s \in Session : VerifyHost(s)
  BY <1>3 DEF CheckExits, OtherProgram, VerifyHost
<1>4. CASE \E s \in Session : LoadModel(s) \/ Sanitize(s)
  BY <1>4 DEF LoadModel, Sanitize, Cache!Next
<1>5. CASE UNCHANGED vars
  BY <1>5 DEF vars
<1>6. QED
  BY <1>1, <1>2, <1>3, <1>4, <1>5 DEF Next

-----------------------------------------------------------------------------
HostInv == LockInv /\ HostsInv /\ CacheInv

LEMMA InitHostInv == Init => HostInv
<1> SUFFICES ASSUME Init PROVE HostInv
  OBVIOUS
<1>1. LockInv
  BY HostAssumption, InitLockInv DEF Init
<1>2. HostsInv
  BY InitHostsInv DEF Init
<1>3. CacheInv
  BY HostAssumption, InitCacheInv DEF Init
<1>4. QED
  BY <1>1, <1>2, <1>3 DEF HostInv

LEMMA NextHostInv == HostInv /\ [Next]_vars => HostInv'
<1> SUFFICES ASSUME HostInv, [Next]_vars PROVE HostInv'
  OBVIOUS
<1>1. LockInv'
  <2>1. [Lock!Next]_lockVars
    BY StepsOfLock
  <2>2. QED
    BY <2>1, HostAssumption, NextLockInv DEF HostInv
<1>2. HostsInv'
  <2>1. [Hosts!Next]_hostVars
    BY StepsOfHosts
  <2>2. QED
    BY <2>1, HostAssumption, NextHostsInv DEF HostInv
<1>3. CacheInv'
  <2>1. [Cache!Next]_cacheVars
    BY StepsOfCache
  <2>2. QED
    BY <2>1, HostAssumption, NextCacheInv DEF HostInv
<1>4. QED
  BY <1>1, <1>2, <1>3 DEF HostInv

-----------------------------------------------------------------------------
(* Every variable keeps its type, in any composition of agents and sessions *)
THEOREM TypeCorrect == Spec => []TypeOK
<1>1. HostInv => TypeOK
  BY DEF HostInv, TypeOK, LockInv, TypeInv, HostsInv, CacheInv, Lock!TypeOK, Hosts!TypeOK,
        Cache!TypeOK, Lock!Alive, Lock!Acquiring, Lock!Running, Lock!Left, Hosts!Inside,
        Hosts!Ended, Cache!Steps
<1>2. QED
  BY InitHostInv, NextHostInv, <1>1, PTL DEF Spec

(* At most one agent serves a configuration, for any number of agents, kills
   and reused numbers, unless two acquisitions overlapped or agent.pid could
   not be read.                                                             *)
THEOREM AgentsServeAlone == Spec => []ServesAlone
<1>1. HostInv => ServesAlone
  BY LockInvServesAlone
  DEF HostInv, ServesAlone, Lock!ServesAlone
<1>2. QED
  BY InitHostInv, NextHostInv, <1>1, PTL DEF Spec

(* Meanwhile agent.pid names the agent that serves, and none that left run() and
   could remove it.                                                         *)
THEOREM LockAlwaysNamesServer == Spec => []LockNamesServer
<1>1. HostInv => LockNamesServer
  BY HostAssumption, LockInvNamesServer
  DEF HostInv, LockNamesServer, Lock!LockNamesServer, Lock!Alive, Lock!Acquiring,
        Lock!Running, Lock!Left
<1>2. QED
  BY InitHostInv, NextHostInv, <1>1, PTL DEF Spec

(* The first key that was trusted at an address stays, and every session let
   through there showed it, unless two processes met in the callback.       *)
THEOREM FirstKeyAlwaysStays == Spec => []FirstKeyStays
<1>1. HostInv => FirstKeyStays
  BY HostsInvFirstKey
  DEF HostInv, FirstKeyStays, Hosts!FirstKeyStays, Hosts!Recorded, Hosts!LinesOf
<1>2. QED
  BY InitHostInv, NextHostInv, <1>1, PTL DEF Spec

(* Every backup is sanitized with the filters of its vendor's one model *)
THEOREM FiltersAlwaysOfModel == Spec => []FiltersOfModel
<1>1. HostInv => FiltersOfModel
  BY HostAssumption, CacheInvFilters
  DEF HostInv, FiltersOfModel, Cache!FiltersOfModel, Cache!Cached, Cache!Entry
<1>2. QED
  BY InitHostInv, NextHostInv, <1>1, PTL DEF Spec
=============================================================================
