---------------------------- MODULE Daemon_proofs ----------------------------
(* Proofs about Daemon, for any number of backups and slots *)
EXTENDS Daemon, FiniteSetTheorems, TLAPS

(* What the properties rest on: the counters, that Stop asks only for backups
   that are counted, and that cron runs only while run() does.              *)
AskedCounted == \A b \in asked : backup[b] \in Active \cup {"done"}
CronWithRun  == loop \in {"start", "returned"} => cronOn = FALSE
DaemonInv    == TypeOK /\ CountersMatch /\ AskedCounted /\ StopWaitsForAll /\ CronWithRun

(* A set of states that a backup enters or leaves gains or loses one *)
LEMMA InStateFinite ==
  ASSUME NEW S PROVE IsFiniteSet(InState(S)) /\ Cardinality(InState(S)) \in Nat
<1>1. InState(S) \subseteq Backup
  BY DEF InState
<1>2. QED
  BY <1>1, DaemonAssumption, FS_Subset, FS_CardinalityType

LEMMA Entered ==
  ASSUME NEW S, NEW b \in Backup, NEW st \in S, backup[b] \notin S,
         backup \in [Backup -> Active \cup {"none", "fired", "done"}],
         backup' = [backup EXCEPT ![b] = st]
  PROVE  Cardinality(InState(S)') = Cardinality(InState(S)) + 1
<1>1. InState(S)' = InState(S) \cup {b} /\ b \notin InState(S)
  BY DEF InState
<1>2. QED
  BY <1>1, InStateFinite, FS_AddElement

LEMMA Left ==
  ASSUME NEW S, NEW b \in Backup, NEW st, st \notin S, backup[b] \in S,
         backup \in [Backup -> Active \cup {"none", "fired", "done"}],
         backup' = [backup EXCEPT ![b] = st]
  PROVE  /\ Cardinality(InState(S)') = Cardinality(InState(S)) - 1
         /\ Cardinality(InState(S)) >= 1
<1>1. InState(S)' = InState(S) \ {b} /\ b \in InState(S)
  BY DEF InState
<1>2. Cardinality(InState(S)') = Cardinality(InState(S)) - 1
  BY <1>1, InStateFinite, FS_RemoveElement
<1>3. Cardinality(InState(S)) # 0
  BY <1>1, InStateFinite, FS_EmptySet
<1>4. QED
  BY <1>2, <1>3, InStateFinite

LEMMA Within ==
  ASSUME NEW S, NEW b \in Backup, NEW st, (st \in S) <=> (backup[b] \in S),
         backup \in [Backup -> Active \cup {"none", "fired", "done"}],
         backup' = [backup EXCEPT ![b] = st]
  PROVE  InState(S)' = InState(S)
BY DEF InState

LEMMA InitDaemonInv == Init => DaemonInv
<1> SUFFICES ASSUME Init PROVE DaemonInv
  OBVIOUS
<1>1. TypeOK
  <2>1. wg \in Nat /\ sem \in 0 .. Slots
    BY DaemonAssumption DEF Init
  <2>2. {cronOn, exit, alive, installed, pidFile, creds} \subseteq BOOLEAN
    BY Zenon DEF Init
  <2>3. QED
    BY <2>1, <2>2 DEF Init, TypeOK, Loop, Active
<1>2. InState({"running"}) = {} /\ InState(Active) = {}
  BY DEF Init, InState, Active
<1>3. CountersMatch
  BY <1>2, FS_EmptySet DEF Init, CountersMatch
<1>4. AskedCounted /\ StopWaitsForAll /\ CronWithRun
  BY DEF Init, AskedCounted, StopWaitsForAll, CronWithRun
<1>5. QED
  BY <1>1, <1>3, <1>4 DEF DaemonInv

(* A step that leaves the backups and their counters alone *)
LEMMA BackupsUntouched ==
  ASSUME DaemonInv, UNCHANGED <<backup, wg, sem>>, TypeOK', CronWithRun',
         AskedCounted', StopWaitsForAll'
  PROVE  DaemonInv'
BY DEF DaemonInv, CountersMatch, InState

LEMMA NextDaemonInv == DaemonInv /\ [Next]_vars => DaemonInv'
<1> SUFFICES ASSUME DaemonInv, [Next]_vars PROVE DaemonInv'
  OBVIOUS
<1> USE DEF stopVars, procVars
<1>0. TypeOK /\ DaemonAssumption
  BY DaemonAssumption DEF DaemonInv
<1>1. CASE Run
  <2>1. CASE StopSelf
    <3>1. TypeOK'
      BY <1>0, <2>1 DEF TypeOK, StopSelf, BeginStop, InState, Loop
    <3>2. CronWithRun' /\ AskedCounted' /\ StopWaitsForAll'
      BY <1>0, <2>1
      DEF DaemonInv, CronWithRun, AskedCounted, StopWaitsForAll, StopSelf, BeginStop, InState
    <3>3. QED
      BY <2>1, <3>1, <3>2, BackupsUntouched DEF StopSelf
  <2>2. CASE ~ StopSelf
    <3>1. TypeOK'
      BY <1>0, <1>1, <2>2
      DEF TypeOK, Loop, Run, LoadFails, LockRefused, StartUp, Return, SeeExit, QueueTick,
          QueueDone, HeartbeatShutdown, StopSelfReturns, Uninstall, CleanLocalConfig
    <3>2. CronWithRun'
      BY <1>0, <1>1, <2>2
      DEF DaemonInv, CronWithRun, Run, LoadFails, LockRefused, StartUp, Return, SeeExit,
          QueueTick, QueueDone, HeartbeatShutdown, StopSelfReturns, Uninstall, CleanLocalConfig
    <3>3. UNCHANGED <<backup, wg, sem, asked, stop>>
      BY <1>1, <2>2
      DEF Run, LoadFails, LockRefused, StartUp, SeeExit, QueueTick, QueueDone,
          HeartbeatShutdown, StopSelfReturns, Uninstall, CleanLocalConfig
    <3>4. AskedCounted' /\ StopWaitsForAll'
      BY <3>3 DEF DaemonInv, AskedCounted, StopWaitsForAll
    <3>5. QED
      BY <3>1, <3>2, <3>3, <3>4, BackupsUntouched
  <2>3. QED
    BY <2>1, <2>2
<1>2. CASE Stop
  <2>1. TypeOK' /\ CronWithRun' /\ AskedCounted'
    BY <1>0, <1>2
    DEF DaemonInv, TypeOK, CronWithRun, AskedCounted, Stop, AllCompleted, StopTimesOut, ProcessExits
  <2>2. StopWaitsForAll'
    <3>1. CASE AllCompleted
      <4>1. InState(Active) = {}
        <5>1. Cardinality(InState(Active)) = 0
          BY <3>1 DEF AllCompleted, DaemonInv, CountersMatch
        <5>2. QED
          BY <5>1, InStateFinite, FS_EmptySet
      <4>2. \A b \in asked : backup[b] = "done"
        BY <1>0, <4>1 DEF DaemonInv, TypeOK, AskedCounted, InState
      <4>3. QED
        BY <3>1, <4>2 DEF AllCompleted, StopWaitsForAll
    <3>2. CASE StopTimesOut \/ ProcessExits
      BY <3>2 DEF DaemonInv, StopWaitsForAll, StopTimesOut, ProcessExits
    <3>3. QED
      BY <1>2, <3>1, <3>2 DEF Stop
  <2>3. QED
    BY <1>2, <2>1, <2>2, BackupsUntouched DEF Stop, AllCompleted, StopTimesOut, ProcessExits
<1>3. CASE StopCalled \/ Killed
  <2>1. TypeOK' /\ CronWithRun' /\ AskedCounted' /\ StopWaitsForAll'
    BY <1>0, <1>3
    DEF DaemonInv, TypeOK, CronWithRun, AskedCounted, StopWaitsForAll, StopCalled, Killed,
        BeginStop, InState
  <2>2. QED
    BY <1>3, <2>1, BackupsUntouched DEF StopCalled, Killed
<1>4. ASSUME NEW b \in Backup, Command(b) \/ CronFires(b) \/ Goroutine(b) PROVE DaemonInv'
  <2>0. backup \in [Backup -> Active \cup {"none", "fired", "done"}]
        /\ wg \in Nat /\ sem \in Nat /\ sem \in 0 .. Slots
        /\ wg = Cardinality(InState(Active)) /\ sem = Cardinality(InState({"running"}))
    BY <1>0 DEF TypeOK, DaemonInv, CountersMatch
  <2>1. UNCHANGED <<loop, cronOn, exit, stop, asked, alive, installed, pidFile, creds>>
    BY <1>4 DEF Command, CronFires, Goroutine, CronJob, Acquire, Release, Done
  <2>2. PICK st \in Active \cup {"fired", "done"} :
          /\ backup' = [backup EXCEPT ![b] = st]
          /\ backup[b] = "none" => st \in {"fired", "spawned"}
          /\ backup[b] = "fired" => st = "spawned"
          /\ backup[b] \in Active => st \in Active \cup {"done"}
          /\ backup[b] # "done"
    BY <1>4 DEF Command, CronFires, Goroutine, CronJob, Acquire, Release, Done, Spawn, Active
  <2>3. AskedCounted' /\ StopWaitsForAll' /\ CronWithRun'
    BY <2>0, <2>1, <2>2 DEF DaemonInv, AskedCounted, StopWaitsForAll, CronWithRun, TypeOK, Active
  <2>4. TypeOK' /\ CountersMatch'
    <3>0. SUFFICES wg' \in Nat /\ sem' \in 0 .. Slots /\ CountersMatch'
      BY <1>0, <2>0, <2>1, <2>2 DEF TypeOK, Active
    <3>1. CASE Command(b) \/ CronJob(b)
      <4>1. backup' = [backup EXCEPT ![b] = "spawned"] /\ backup[b] \in {"none", "fired"}
            /\ wg' = wg + 1 /\ sem' = sem
        BY <3>1 DEF Command, CronJob, Spawn
      <4>2. Cardinality(InState(Active)') = Cardinality(InState(Active)) + 1
        BY <2>0, <4>1, Entered DEF Active
      <4>3. InState({"running"})' = InState({"running"})
        BY <2>0, <4>1, Within
      <4>4. QED
        BY <2>0, <4>1, <4>2, <4>3 DEF CountersMatch
    <3>2. CASE CronFires(b)
      <4>1. backup' = [backup EXCEPT ![b] = "fired"] /\ backup[b] = "none"
            /\ wg' = wg /\ sem' = sem
        BY <3>2 DEF CronFires
      <4>2. InState(Active)' = InState(Active) /\ InState({"running"})' = InState({"running"})
        BY <2>0, <4>1, Within DEF Active
      <4>3. QED
        BY <2>0, <4>1, <4>2 DEF CountersMatch
    <3>3. CASE Acquire(b)
      <4>1. backup' = [backup EXCEPT ![b] = "running"] /\ backup[b] = "spawned"
            /\ wg' = wg /\ sem' = sem + 1 /\ sem < Slots
        BY <3>3 DEF Acquire
      <4>2. Cardinality(InState({"running"})') = Cardinality(InState({"running"})) + 1
        BY <2>0, <4>1, Entered
      <4>3. InState(Active)' = InState(Active)
        BY <2>0, <4>1, Within DEF Active
      <4>4. QED
        BY <1>0, <2>0, <4>1, <4>2, <4>3 DEF CountersMatch, DaemonAssumption
    <3>4. CASE Release(b)
      <4>1. backup' = [backup EXCEPT ![b] = "released"] /\ backup[b] = "running"
            /\ wg' = wg /\ sem' = sem - 1
        BY <3>4 DEF Release
      <4>2. Cardinality(InState({"running"})') = Cardinality(InState({"running"})) - 1
            /\ Cardinality(InState({"running"})) >= 1
        BY <2>0, <4>1, Left
      <4>3. InState(Active)' = InState(Active)
        BY <2>0, <4>1, Within DEF Active
      <4>4. QED
        BY <1>0, <2>0, <4>1, <4>2, <4>3 DEF CountersMatch, DaemonAssumption
    <3>5. CASE Done(b)
      <4>1. backup' = [backup EXCEPT ![b] = "done"] /\ backup[b] = "released"
            /\ wg' = wg - 1 /\ sem' = sem
        BY <3>5 DEF Done
      <4>2. Cardinality(InState(Active)') = Cardinality(InState(Active)) - 1
            /\ Cardinality(InState(Active)) >= 1
        BY <2>0, <4>1, Left DEF Active
      <4>3. InState({"running"})' = InState({"running"})
        BY <2>0, <4>1, Within
      <4>4. QED
        BY <2>0, <4>1, <4>2, <4>3 DEF CountersMatch
    <3>6. QED
      BY <1>4, <3>1, <3>2, <3>3, <3>4, <3>5 DEF Goroutine
  <2>5. QED
    BY <2>3, <2>4 DEF DaemonInv
<1>5. CASE UNCHANGED vars
  BY <1>5
  DEF vars, DaemonInv, TypeOK, CountersMatch, AskedCounted, StopWaitsForAll, CronWithRun, InState
<1>6. QED
  BY <1>1, <1>2, <1>3, <1>4, <1>5 DEF Next

(* Every variable keeps its type: p.sem never holds more tokens than it has
   slots and p.wg, which is counted down by goroutines of its own, never goes
   below zero.                                                              *)
THEOREM TypeCorrect == Spec => []TypeOK
<1>1. DaemonInv => TypeOK
  BY DEF DaemonInv
<1>2. QED
  BY InitDaemonInv, NextDaemonInv, <1>1, PTL DEF Spec

(* The tokens in p.sem and the count of p.wg are the backups they stand for,
   on every path a backup may take.                                         *)
THEOREM CountersAlwaysMatch == Spec => []CountersMatch
<1>1. DaemonInv => CountersMatch
  BY DEF DaemonInv
<1>2. QED
  BY InitDaemonInv, NextDaemonInv, <1>1, PTL DEF Spec

(* When Stop says that all completed, every backup it found under way has *)
THEOREM StopWaited == Spec => []StopWaitsForAll
<1>1. DaemonInv => StopWaitsForAll
  BY DEF DaemonInv
<1>2. QED
  BY InitDaemonInv, NextDaemonInv, <1>1, PTL DEF Spec

(* No backup is asked for once run() has returned, however it did *)
THEOREM NothingAfterReturn == Spec => NoBackupAfterReturn
<1>1. DaemonInv /\ [Next]_vars =>
        [loop = "returned" =>
           \A b \in Backup : backup[b] = "none" => backup'[b] = "none"]_vars
  <2> SUFFICES ASSUME DaemonInv, [Next]_vars, loop = "returned",
                      NEW b \in Backup, backup[b] = "none"
               PROVE  backup'[b] = "none"
    OBVIOUS
  <2>0. cronOn = FALSE /\ backup \in [Backup -> Active \cup {"none", "fired", "done"}]
    BY DEF DaemonInv, CronWithRun, TypeOK
  <2>1. CASE Run \/ Stop \/ StopCalled \/ Killed \/ UNCHANGED vars
    BY <2>1
    DEF vars, Run, LoadFails, LockRefused, StartUp, SeeExit, QueueTick, QueueDone, StopSelf,
        HeartbeatShutdown, StopSelfReturns, Uninstall, CleanLocalConfig,
        Stop, AllCompleted, StopTimesOut, ProcessExits, StopCalled, Killed
  <2>2. ASSUME NEW c \in Backup, Command(c) \/ CronFires(c) \/ Goroutine(c)
        PROVE  backup'[b] = "none"
    BY <2>0, <2>2
    DEF Command, CronFires, Goroutine, CronJob, Acquire, Release, Done, Spawn
  <2>3. QED
    BY <2>1, <2>2 DEF Next
<1>2. QED
  BY InitDaemonInv, NextDaemonInv, <1>1, PTL DEF Spec, NoBackupAfterReturn
=============================================================================
