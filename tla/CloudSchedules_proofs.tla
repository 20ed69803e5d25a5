------------------------ MODULE CloudSchedules_proofs ------------------------
(* Proofs about CloudSchedules, for any devices and schedules and any number
   of edits and restarts.                                                   *)
EXTENDS CloudSchedules, TLAPS

(* The entries that cronJobs asks for *)
Wanted == {[id |-> jobs[d].entry, dev |-> d, sched |-> jobs[d].sched] :
             d \in {c \in Device : jobs[c] # NoJob}}

(* Entry ids are handed out once: those in use are below the next one and no
   two jobs share one.  Without this a removal by id could take the entry of
   another device.                                                          *)
IdsBelow  == \A d \in Device : jobs[d] # NoJob => jobs[d].entry < nextId
IdsApart  == \A c, d \in Device :
               jobs[c] # NoJob /\ jobs[d] # NoJob /\ jobs[c].entry = jobs[d].entry => c = d
(* Registration at start-up meets no job of the device *)
Fresh     == phase = "register" => \A d \in todo : jobs[d] = NoJob
TableInv  == TypeOK /\ EntriesMatchJobs /\ IdsBelow /\ IdsApart /\ Fresh

LEMMA InitTableInv == Init => TableInv
<1> SUFFICES ASSUME Init PROVE TableInv
  OBVIOUS
<1>1. /\ listed \in Remote /\ entries = {}
      /\ jobs \in [Device -> Job \cup {NoJob}] /\ before \in [Device -> Job \cup {NoJob}]
  BY DEF Init, Remote
<1>2. nextId \in Nat /\ edits \in 0 .. MaxEdits /\ restarts \in 0 .. MaxRestarts
  BY ScheduleAssumption DEF Init
<1>3. TypeOK
  BY <1>1, <1>2 DEF Init, TypeOK, Phase
<1>4. EntriesMatchJobs /\ IdsBelow /\ IdsApart /\ Fresh
  BY DEF Init, EntriesMatchJobs, IdsBelow, IdsApart, Fresh
<1>5. QED
  BY <1>3, <1>4 DEF TableInv

(* A step that leaves the table alone *)
LEMMA TableUntouched ==
  ASSUME TableInv, UNCHANGED <<jobs, entries, nextId>>, TypeOK',
         phase' = "register" => phase = "register" /\ todo' \subseteq todo
  PROVE  TableInv'
BY DEF TableInv, EntriesMatchJobs, IdsBelow, IdsApart, Fresh

(* Removing by id the entries of a set of devices leaves those of the others *)
LEMMA RemoveById ==
  ASSUME TableInv, NEW D \in SUBSET Device
  PROVE  {e \in entries : ~ \E d \in D : jobs[d] # NoJob /\ e.id = jobs[d].entry}
         = {[id |-> jobs[d].entry, dev |-> d, sched |-> jobs[d].sched] :
              d \in {c \in Device \ D : jobs[c] # NoJob}}
<1> DEFINE Entry(d) == [id |-> jobs[d].entry, dev |-> d, sched |-> jobs[d].sched]
<1> DEFINE Left == {e \in entries : ~ \E d \in D : jobs[d] # NoJob /\ e.id = jobs[d].entry}
<1> DEFINE Rest == {Entry(d) : d \in {c \in Device \ D : jobs[c] # NoJob}}
<1>0. entries = {Entry(d) : d \in {c \in Device : jobs[c] # NoJob}}
  BY DEF TableInv, EntriesMatchJobs
<1>1. ASSUME NEW e \in Left PROVE e \in Rest
  <2>1. PICK d \in Device : jobs[d] # NoJob /\ e = Entry(d)
    BY <1>0, <1>1
  <2>2. d \notin D
    BY <1>1, <2>1
  <2>3. QED
    BY <2>1, <2>2
<1>2. ASSUME NEW e \in Rest PROVE e \in Left
  <2>1. PICK d \in Device \ D : jobs[d] # NoJob /\ e = Entry(d)
    BY <1>2
  <2>2. \A c \in D : jobs[c] # NoJob => e.id # jobs[c].entry
    BY <2>1 DEF TableInv, IdsApart
  <2>3. QED
    BY <1>0, <2>1, <2>2
<1>3. QED
  BY <1>1, <1>2

(* Register, given that the entry of the device is out of the table *)
LEMMA RegisterKeeps ==
  ASSUME TableInv, NEW d \in Device, NEW s,
         NEW others,
         others = {[id |-> jobs[c].entry, dev |-> c, sched |-> jobs[c].sched] :
                     c \in {x \in Device \ {d} : jobs[x] # NoJob}},
         Register(d, s, others)
  PROVE  /\ jobs' \in [Device -> Job \cup {NoJob}] /\ nextId' \in Nat
         /\ entries' \subseteq [id : Nat, dev : Device, sched : Valid]
         /\ EntriesMatchJobs' /\ IdsBelow' /\ IdsApart'
         /\ \A c \in Device \ {d} : jobs'[c] = jobs[c]
<1>0. jobs \in [Device -> Job \cup {NoJob}] /\ nextId \in Nat
  BY DEF TableInv, TypeOK
<1>1. CASE s \in Valid
  <2> DEFINE new == [entry |-> nextId, sched |-> s]
  <2>1. new \in Job /\ new # NoJob
    BY <1>0, <1>1, ScheduleAssumption DEF Job
  <2>2. jobs' = [jobs EXCEPT ![d] = new] /\ nextId' = nextId + 1
        /\ entries' = others \cup {[id |-> nextId, dev |-> d, sched |-> s]}
    BY <1>1 DEF Register
  <2>3. jobs' \in [Device -> Job \cup {NoJob}] /\ nextId' \in Nat
        /\ \A c \in Device \ {d} : jobs'[c] = jobs[c]
    BY <1>0, <2>1, <2>2
  <2>4. jobs'[d] = new
    BY <1>0, <2>2
  <2>5. EntriesMatchJobs'
    BY <2>1, <2>2, <2>3, <2>4 DEF EntriesMatchJobs
  <2>6. IdsBelow' /\ IdsApart'
    BY <1>0, <2>1, <2>2, <2>3, <2>4 DEF TableInv, IdsBelow, IdsApart, Job
  <2>7. entries' \subseteq [id : Nat, dev : Device, sched : Valid]
    BY <1>0, <1>1, <2>2 DEF Job
  <2>8. QED
    BY <2>3, <2>5, <2>6, <2>7
<1>2. CASE s \notin Valid
  <2>1. jobs' = [jobs EXCEPT ![d] = NoJob] /\ nextId' = nextId /\ entries' = others
    BY <1>2 DEF Register
  <2>2. jobs' \in [Device -> Job \cup {NoJob}] /\ jobs'[d] = NoJob
        /\ \A c \in Device \ {d} : jobs'[c] = jobs[c]
    BY <1>0, <2>1
  <2>3. EntriesMatchJobs'
    BY <2>1, <2>2 DEF EntriesMatchJobs
  <2>4. IdsBelow' /\ IdsApart'
    BY <2>1, <2>2 DEF TableInv, IdsBelow, IdsApart
  <2>5. entries' \subseteq [id : Nat, dev : Device, sched : Valid]
    BY <1>0, <2>1 DEF Job
  <2>6. QED
    BY <1>0, <2>1, <2>2, <2>3, <2>4, <2>5
<1>3. QED
  BY <1>1, <1>2

LEMMA NextTableInv == TableInv /\ [Next]_vars => TableInv'
<1> SUFFICES ASSUME TableInv, [Next]_vars PROVE TableInv'
  OBVIOUS
<1> USE DEF Phase
<1>0. TypeOK
  BY DEF TableInv
<1>1. ASSUME NEW d \in Device, RegisterLocal(d) PROVE TableInv'
  <2>1. CASE cfg[d] \in {Empty, Missing}
    <3>1. TypeOK'
      BY <1>0, <1>1, <2>1 DEF TypeOK, RegisterLocal, configVars
    <3>2. QED
      BY <1>1, <2>1, <3>1, TableUntouched DEF RegisterLocal
  <2>2. CASE cfg[d] \notin {Empty, Missing}
    <3>1. Register(d, cfg[d], entries) /\ d \in todo /\ phase = "register"
      BY <1>1, <2>2 DEF RegisterLocal
    <3>2. jobs[d] = NoJob
      BY <3>1 DEF TableInv, Fresh
    <3>3. entries = {[id |-> jobs[c].entry, dev |-> c, sched |-> jobs[c].sched] :
                       c \in {x \in Device \ {d} : jobs[x] # NoJob}}
      BY <3>2 DEF TableInv, EntriesMatchJobs
    <3>4. /\ jobs' \in [Device -> Job \cup {NoJob}] /\ nextId' \in Nat
          /\ entries' \subseteq [id : Nat, dev : Device, sched : Valid]
          /\ EntriesMatchJobs' /\ IdsBelow' /\ IdsApart'
          /\ \A c \in Device \ {d} : jobs'[c] = jobs[c]
      BY <3>1, <3>3, RegisterKeeps
    <3>5. TypeOK'
      BY <1>0, <1>1, <3>4 DEF TypeOK, RegisterLocal, configVars
    <3>6. Fresh'
      BY <1>0, <1>1, <3>4 DEF TableInv, Fresh, TypeOK, RegisterLocal
    <3>7. QED
      BY <3>4, <3>5, <3>6 DEF TableInv
  <2>3. QED
    BY <2>1, <2>2
<1>2. ASSUME NEW d \in Device, Apply(d) PROVE TableInv'
  <2>1. CASE cfg[d] = Missing \/ (jobs[d] # NoJob /\ jobs[d].sched = Target(d))
    <3>1. TypeOK'
      BY <1>0, <1>2, <2>1 DEF TypeOK, Apply, configVars
    <3>2. QED
      BY <1>2, <2>1, <3>1, TableUntouched DEF Apply
  <2>2. CASE ~ (cfg[d] = Missing \/ (jobs[d] # NoJob /\ jobs[d].sched = Target(d)))
    <3>1. Register(d, Target(d), Without(d)) /\ phase = "apply" /\ phase' = phase
      BY <1>2, <2>2 DEF Apply
    <3>2. Without(d) = {e \in entries : ~ \E c \in {d} : jobs[c] # NoJob /\ e.id = jobs[c].entry}
      BY DEF Without
    <3>3. Without(d) = {[id |-> jobs[c].entry, dev |-> c, sched |-> jobs[c].sched] :
                          c \in {x \in Device \ {d} : jobs[x] # NoJob}}
      BY <3>2, RemoveById
    <3>4. /\ jobs' \in [Device -> Job \cup {NoJob}] /\ nextId' \in Nat
          /\ entries' \subseteq [id : Nat, dev : Device, sched : Valid]
          /\ EntriesMatchJobs' /\ IdsBelow' /\ IdsApart'
      BY <3>1, <3>3, RegisterKeeps
    <3>5. TypeOK'
      BY <1>0, <1>2, <3>4 DEF TypeOK, Apply, configVars
    <3>6. Fresh'
      BY <3>1 DEF Fresh
    <3>7. QED
      BY <3>4, <3>5, <3>6 DEF TableInv
  <2>3. QED
    BY <2>1, <2>2
<1>3. CASE StartLoop \/ EndApply
  <2>1. TypeOK'
    BY <1>0, <1>3 DEF TypeOK, StartLoop, EndApply, configVars
  <2>2. QED
    BY <1>3, <2>1, TableUntouched DEF StartLoop, EndApply
<1>4. CASE Heartbeat
  <2>1. TypeOK'
    BY <1>0, <1>4 DEF TypeOK, Heartbeat, configVars
  <2>2. QED
    BY <1>4, <2>1, TableUntouched DEF Heartbeat
<1>5. CASE Reload
  <2>1. TypeOK'
    BY <1>0, <1>5 DEF TypeOK, Reload, Loads, LoadConfig, configVars
  <2>2. QED
    BY <1>5, <2>1, TableUntouched DEF Reload
<1>6. CASE Prune
  <2> DEFINE Gone == {d \in Device : listed[d] = Missing}
  <2>1. /\ jobs' = [d \in Device |-> IF d \in Gone THEN NoJob ELSE jobs[d]]
        /\ nextId' = nextId /\ phase' = "loop"
    BY <1>6 DEF Prune
  <2>2. entries' = {e \in entries : ~ \E d \in Gone : jobs[d] # NoJob /\ e.id = jobs[d].entry}
    BY <1>6 DEF Prune
  <2>3. entries' = {[id |-> jobs[d].entry, dev |-> d, sched |-> jobs[d].sched] :
                      d \in {c \in Device \ Gone : jobs[c] # NoJob}}
    BY <2>2, RemoveById
  <2>4. TypeOK'
    BY <1>0, <1>6, <2>1, <2>2 DEF TypeOK, Prune, configVars
  <2>5. EntriesMatchJobs'
    BY <2>1, <2>3 DEF EntriesMatchJobs
  <2>6. IdsBelow' /\ IdsApart' /\ Fresh'
    BY <2>1 DEF TableInv, IdsBelow, IdsApart, Fresh
  <2>7. QED
    BY <2>4, <2>5, <2>6 DEF TableInv
<1>7. CASE Restart
  <2>0. /\ jobs' \in [Device -> Job \cup {NoJob}] /\ before' \in [Device -> Job \cup {NoJob}]
        /\ entries' \subseteq [id : Nat, dev : Device, sched : Valid]
        /\ restarts' \in 0 .. MaxRestarts
    BY <1>0, <1>7, ScheduleAssumption DEF TypeOK, Restart
  <2>1. TypeOK'
    BY <1>0, <1>7, <2>0 DEF TypeOK, Restart, Loads, LoadConfig, configVars
  <2>2. EntriesMatchJobs' /\ IdsBelow' /\ IdsApart' /\ Fresh'
    BY <1>7 DEF EntriesMatchJobs, IdsBelow, IdsApart, Fresh, Restart
  <2>3. QED
    BY <2>1, <2>2 DEF TableInv
<1>8. CASE EditFile
  <2>1. file' \in Local \cup {Broken} /\ fileLink' \in BOOLEAN
    BY <1>0, <1>8 DEF TypeOK, EditFile, Local
  <2>2. edits' \in 0 .. MaxEdits
    BY <1>0, <1>8, ScheduleAssumption DEF TypeOK, EditFile
  <2>3. TypeOK'
    BY <1>0, <1>8, <2>1, <2>2 DEF TypeOK, EditFile
  <2>4. QED
    BY <1>8, <2>3, TableUntouched DEF EditFile
<1>9. CASE EditCloud
  <2>1. TypeOK'
    BY <1>0, <1>9, ScheduleAssumption DEF TypeOK, EditCloud, Remote, configVars
  <2>2. QED
    BY <1>9, <2>1, TableUntouched DEF EditCloud
<1>10. CASE SaveBegins \/ SaveEnds
  <2>1. file' \in Local \cup {Broken} /\ fileLink' \in BOOLEAN /\ saving' \in BOOLEAN
    BY <1>0, <1>10 DEF TypeOK, SaveBegins, SaveEnds, NoDevices, Local
  <2>2. edits' \in 0 .. MaxEdits
    BY <1>0, <1>10, ScheduleAssumption DEF TypeOK, SaveBegins, SaveEnds
  <2>3. TypeOK'
    BY <1>0, <1>10, <2>1, <2>2 DEF TypeOK, SaveBegins, SaveEnds
  <2>4. QED
    BY <1>10, <2>3, TableUntouched DEF SaveBegins, SaveEnds
<1>11. CASE UNCHANGED vars
  BY <1>11 DEF vars, configVars, TableInv, TypeOK, EntriesMatchJobs, IdsBelow, IdsApart, Fresh
<1>12. QED
  BY <1>1, <1>2, <1>3, <1>4, <1>5, <1>6, <1>7, <1>8, <1>9, <1>10, <1>11 DEF Next, Daemon

(* The entries cron would fire are those cronJobs names, one for each job, at
   every moment: no device is ever backed up twice on its schedule, and there
   is no entry that a later heartbeat could not remove.                     *)
THEOREM EntriesAlwaysMatch == Spec => []EntriesMatchJobs
<1>1. TableInv => EntriesMatchJobs
  BY DEF TableInv
<1>2. QED
  BY InitTableInv, NextTableInv, <1>1, PTL DEF Spec

(* Every variable keeps its type; above all cron only ever holds schedules
   that its parser accepts.                                                 *)
THEOREM TypeCorrect == Spec => []TypeOK
<1>1. TableInv => TypeOK
  BY DEF TableInv
<1>2. QED
  BY InitTableInv, NextTableInv, <1>1, PTL DEF Spec

-----------------------------------------------------------------------------
(* Why a synchronisation ends with what it set out for: the devices that are
   done stay as they were left, since only the main goroutine touches the
   table, and edits reach it only through the next reload.  The devices still
   to do have the jobs they had when the heartbeat was answered, which is what
   one that config.yaml lacks keeps.                                        *)
SyncInv ==
  /\ phase = "reload" => jobs = before
  /\ phase = "apply" => /\ \A d \in todo : jobs[d] = before[d]
                        /\ \A d \in Device \ todo :
                             listed[d] # Missing => Served(d, listed, cfg)
  /\ phase = "prune" => \A d \in Device : listed[d] # Missing => Served(d, listed, cfg)

(* What one Apply does to the table *)
LEMMA ApplyServes ==
  ASSUME TableInv, SyncInv, NEW d \in Device, Apply(d), listed[d] # Missing
  PROVE  Served(d, listed, cfg)' /\ \A c \in Device \ {d} : jobs'[c] = jobs[c]
<1>0. jobs \in [Device -> Job \cup {NoJob}] /\ nextId \in Nat
  BY DEF TableInv, TypeOK
<1>1. UNCHANGED <<listed, cfg, before>> /\ Target(d)' = Target(d)
  BY DEF Apply, Target, configVars
<1>2. /\ \/ cfg[d] = Missing /\ jobs'[d] = before[d]
         \/ /\ cfg[d] # Missing
            /\ IF Target(d) \in Valid THEN jobs'[d] # NoJob /\ jobs'[d].sched = Target(d)
               ELSE jobs'[d] = NoJob
      /\ \A c \in Device \ {d} : jobs'[c] = jobs[c]
  <2>1. CASE cfg[d] = Missing \/ (jobs[d] # NoJob /\ jobs[d].sched = Target(d))
    <3>1. jobs' = jobs /\ jobs[d] = before[d]
      BY <2>1 DEF Apply, SyncInv
    <3>2. CASE cfg[d] = Missing
      BY <3>1, <3>2
    <3>3. CASE cfg[d] # Missing
      BY <1>0, <2>1, <3>1, <3>3 DEF Job
    <3>4. QED
      BY <3>2, <3>3
  <2>2. CASE ~ (cfg[d] = Missing \/ (jobs[d] # NoJob /\ jobs[d].sched = Target(d)))
    <3>1. CASE Target(d) \in Valid
      <4> DEFINE new == [entry |-> nextId, sched |-> Target(d)]
      <4>1. new # NoJob /\ new.sched = Target(d)
        BY <1>0, <3>1, ScheduleAssumption
      <4>2. jobs' = [jobs EXCEPT ![d] = new]
        BY <2>2, <3>1 DEF Apply, Register
      <4>3. QED
        BY <1>0, <2>2, <3>1, <4>1, <4>2
    <3>2. CASE Target(d) \notin Valid
      BY <1>0, <2>2, <3>2 DEF Apply, Register
    <3>3. QED
      BY <3>1, <3>2
  <2>3. QED
    BY <2>1, <2>2
<1>3. QED
  BY <1>1, <1>2 DEF Served, Target

LEMMA InitSyncInv == Init => SyncInv
BY DEF Init, SyncInv

LEMMA NextSyncInv == TableInv /\ SyncInv /\ [Next]_vars => SyncInv'
<1> SUFFICES ASSUME TableInv, SyncInv, [Next]_vars PROVE SyncInv'
  OBVIOUS
<1>1. ASSUME NEW d \in Device, RegisterLocal(d) PROVE SyncInv'
  BY <1>1 DEF RegisterLocal, SyncInv
<1>2. ASSUME NEW d \in Device, Apply(d) PROVE SyncInv'
  <2>0. phase = "apply" /\ phase' = "apply" /\ todo' = todo \ {d}
        /\ UNCHANGED <<listed, cfg, before>>
    BY <1>2 DEF Apply, configVars
  <2>1. ASSUME NEW c \in Device \ todo', listed'[c] # Missing
        PROVE  Served(c, listed, cfg)'
    <3>1. CASE c = d
      BY <1>2, <2>0, <2>1, <3>1, ApplyServes
    <3>2. CASE c # d
      <4>1. Served(c, listed, cfg)
        BY <2>0, <2>1, <3>2 DEF SyncInv
      <4>2. jobs'[c] = jobs[c]
        <5>1. CASE listed[d] # Missing
          BY <1>2, <2>1, <3>2, <5>1, ApplyServes
        <5>2. CASE listed[d] = Missing
          BY <1>2, <2>1, <3>2 DEF Apply, Register, TableInv, TypeOK
        <5>3. QED
          BY <5>1, <5>2
      <4>3. QED
        BY <2>0, <4>1, <4>2 DEF Served
    <3>3. QED
      BY <3>1, <3>2
  <2>2. ASSUME NEW c \in todo' PROVE jobs'[c] = before'[c]
    <3>1. c \in Device \ {d} /\ jobs[c] = before[c]
      BY <2>0, <2>2 DEF SyncInv, TableInv, TypeOK
    <3>2. jobs'[c] = jobs[c]
      BY <1>2, <3>1 DEF Apply, Register, TableInv, TypeOK
    <3>3. QED
      BY <2>0, <3>1, <3>2
  <2>3. QED
    BY <2>0, <2>1, <2>2 DEF SyncInv
<1>3. CASE StartLoop \/ Heartbeat
  BY <1>3 DEF StartLoop, Heartbeat, SyncInv
<1>4. CASE Reload
  BY <1>4 DEF Reload, SyncInv, TableInv, TypeOK
<1>5. CASE EndApply
  BY <1>5 DEF EndApply, SyncInv, Served, configVars
<1>6. CASE Prune \/ Restart
  BY <1>6 DEF Prune, Restart, SyncInv
<1>7. CASE EditFile \/ SaveBegins \/ SaveEnds \/ EditCloud \/ UNCHANGED vars
  BY <1>7 DEF EditFile, SaveBegins, SaveEnds, EditCloud, vars, configVars, SyncInv, Served
<1>8. QED
  BY <1>1, <1>2, <1>3, <1>4, <1>5, <1>6, <1>7 DEF Next, Daemon

(* The step that ends a synchronisation leaves every device with the schedule
   that the heartbeat and the file it was carried out with give it, whatever
   the table held before and whatever was edited meanwhile; a device that the
   cloud lists and the file lacks has the job it had at the heartbeat.      *)
THEOREM SyncsApply == Spec => SyncApplies
<1>1. TableInv /\ SyncInv /\ [Next]_vars =>
        [phase = "prune" /\ phase' = "loop" =>
           \A d \in Device : Served(d, listed, cfg)']_vars
  <2> SUFFICES ASSUME TableInv, SyncInv, [Next]_vars,
                      phase = "prune", phase' = "loop", NEW d \in Device
               PROVE  Served(d, listed, cfg)'
    OBVIOUS
  <2>1. Prune
    BY DEF Next, Daemon, RegisterLocal, StartLoop, Heartbeat, Reload, Apply, EndApply,
           Restart, EditFile, SaveBegins, SaveEnds, EditCloud, vars
  <2>2. UNCHANGED <<listed, cfg, before>>
        /\ jobs'[d] = IF listed[d] = Missing THEN NoJob ELSE jobs[d]
    BY <2>1 DEF Prune, configVars
  <2>3. CASE listed[d] = Missing
    BY <2>2, <2>3 DEF Served
  <2>4. CASE listed[d] # Missing
    <3>1. Served(d, listed, cfg)
      BY <2>4 DEF SyncInv
    <3>2. QED
      BY <2>2, <2>4, <3>1 DEF Served
  <2>5. QED
    BY <2>3, <2>4
<1>2. QED
  BY InitTableInv, NextTableInv, InitSyncInv, NextSyncInv, <1>1, PTL DEF Spec, SyncApplies

=============================================================================
