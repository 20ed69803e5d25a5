--------------------------- MODULE CloudSchedules ---------------------------
(***************************************************************************)
(* The schedule table of the daemon (daemon.go): run() registers a cron    *)
(* entry for each device with a local schedule, then handleCloudSchedules  *)
(* brings the entries in line with what each heartbeat answers and with    *)
(* config.yaml, which it reads again every time.  The administrator edits  *)
(* the file and the cloud's schedules meanwhile, or provisions the agent   *)
(* anew with xconf-agent install, which writes the file in two steps.      *)
(* A process that starts on a file that does not load keeps running without *)
(* run(): it has no schedules and sends no heartbeat.                      *)
(* config.yaml also says how to reach the cloud (supabase_url, agent_jwt): *)
(* that is its link, right or not.                                         *)
(***************************************************************************)
EXTENDS Naturals, FiniteSets

CONSTANTS
  Device,
  Schedule,     \* the schedule strings in use
  Valid,        \* those that the cron parser accepts
  Empty,        \* "": manual backup only
  Missing,      \* no such device in config.yaml; not in the cloud's list
  Unset,        \* backup_schedule null: the local schedule applies
  Broken,       \* a config.yaml LoadConfig refuses
  NoJob,
  MaxEdits, MaxRestarts   \* bounds on edits and on restarts of the daemon

ASSUME ScheduleAssumption ==
  /\ Valid \subseteq Schedule /\ Empty \notin Schedule
  /\ Missing \notin Schedule \cup {Empty, Unset}
  /\ Unset \notin Schedule \cup {Empty}
  /\ NoJob \notin [entry : Nat, sched : Valid]
  /\ Broken \notin [Device -> Schedule \cup {Empty, Missing}]
  /\ MaxEdits \in Nat /\ MaxRestarts \in Nat

VARIABLES
  file,      \* config.yaml: the schedule of each device in it, or Broken
  cloud,     \* the backup_schedule the cloud holds for each device
  cfg,       \* p.cfg, as last loaded
  fileLink, cfgLink,  \* config.yaml, and p.cfg, let the agent reach the cloud
  saving,    \* SaveConfig has truncated config.yaml and not written it yet
  listed,    \* the schedules of the heartbeat being handled
  jobs,      \* p.cronJobs
  before,    \* ghost: the jobs there were when the heartbeat was answered
  entries,   \* the entries of p.cron: [id, dev, sched]
  nextId,    \* the next EntryID of p.cron
  phase, todo,  \* where the main goroutine is, and the devices left to do
  edits, restarts

configVars == <<file, fileLink, saving, cfg, cfgLink>>
vars == <<configVars, cloud, listed, before, jobs, entries, nextId, phase, todo, edits, restarts>>

Local  == [Device -> Schedule \cup {Empty, Missing}]
Remote == [Device -> Schedule \cup {Empty, Unset, Missing}]
Job    == [entry : Nat, sched : Valid]
Phase  == {"register", "loop", "reload", "apply", "prune", "idle"}

TypeOK ==
  /\ file \in Local \cup {Broken} /\ cfg \in Local
  /\ cloud \in Remote /\ listed \in Remote
  /\ jobs \in [Device -> Job \cup {NoJob}] /\ before \in [Device -> Job \cup {NoJob}]
  /\ entries \subseteq [id : Nat, dev : Device, sched : Valid]
  /\ nextId \in Nat /\ phase \in Phase /\ todo \subseteq Device
  /\ fileLink \in BOOLEAN /\ cfgLink \in BOOLEAN /\ saving \in BOOLEAN
  /\ edits \in 0 .. MaxEdits /\ restarts \in 0 .. MaxRestarts

Init ==
  /\ file \in Local /\ cfg = file
  /\ fileLink = TRUE /\ cfgLink = TRUE /\ saving = FALSE
  /\ cloud \in Remote /\ listed = [d \in Device |-> Missing]
  /\ jobs = [d \in Device |-> NoJob] /\ before = jobs
  /\ entries = {} /\ nextId = 1
  /\ phase = "register" /\ todo = Device
  /\ edits = 0 /\ restarts = 0

-----------------------------------------------------------------------------
(* Slip: the error of AddFunc is ignored *)
RegisterUnchecked(d, s, others) ==
  /\ entries' = others \cup {[id |-> nextId, dev |-> d, sched |-> s]}
  /\ jobs' = [jobs EXCEPT ![d] = [entry |-> nextId, sched |-> s]]
  /\ nextId' = nextId + 1
(* cron.AddFunc refuses a schedule it cannot parse; then there is no job *)
Register(d, s, others) ==
  IF s \in Valid
    THEN /\ entries' = others \cup {[id |-> nextId, dev |-> d, sched |-> s]}
         /\ jobs' = [jobs EXCEPT ![d] = [entry |-> nextId, sched |-> s]]
         /\ nextId' = nextId + 1
    ELSE /\ entries' = others
         /\ jobs' = [jobs EXCEPT ![d] = NoJob]
         /\ UNCHANGED nextId

(* Slip: the job is dropped from the map but not from cron *)
WithoutRemove(d) == entries
(* cron.Remove of the job of d, if it has one *)
Without(d) == {e \in entries : jobs[d] = NoJob \/ e.id # jobs[d].entry}

RegisterLocal(d) ==
  /\ phase = "register" /\ d \in todo /\ todo' = todo \ {d}
  /\ IF cfg[d] \in {Empty, Missing} THEN UNCHANGED <<jobs, entries, nextId>>
     ELSE Register(d, cfg[d], entries)
  /\ UNCHANGED <<configVars, cloud, listed, before, phase, edits, restarts>>
StartLoop ==
  /\ phase = "register" /\ todo = {} /\ phase' = "loop"
  /\ UNCHANGED <<configVars, cloud, listed, before, jobs, entries, nextId, todo, edits, restarts>>

(* A heartbeat that is answered, which takes the right address and token; one
   that is not changes nothing, so that config.yaml is not read again either. *)
Heartbeat ==
  /\ phase = "loop" /\ cfgLink /\ phase' = "reload"
  /\ listed' = cloud /\ before' = jobs
  /\ UNCHANGED <<configVars, cloud, jobs, entries, nextId, todo, edits, restarts>>

(* LoadConfig.  A file that was truncated and not written yet does load: it
   has no device and no link.                                               *)
Loads == file # Broken
LoadConfig == cfg' = file /\ cfgLink' = fileLink /\ UNCHANGED <<file, fileLink, saving>>

(* A config.yaml that does not load leaves everything as it is *)
Reload ==
  /\ phase = "reload"
  /\ IF ~ Loads THEN phase' = "loop" /\ UNCHANGED <<configVars, todo>>
     ELSE /\ phase' = "apply" /\ LoadConfig
          /\ todo' = {d \in Device : listed[d] # Missing}
  /\ UNCHANGED <<cloud, listed, before, jobs, entries, nextId, edits, restarts>>

(* Slip: the local schedule overrides the cloud's *)
TargetLocalFirst(d) == IF cfg[d] = Empty /\ listed[d] # Unset THEN listed[d] ELSE cfg[d]
(* The cloud's schedule overrides the local one *)
Target(d) == IF listed[d] = Unset THEN cfg[d] ELSE listed[d]

Apply(d) ==
  /\ phase = "apply" /\ d \in todo /\ todo' = todo \ {d}
  /\ IF cfg[d] = Missing \/ (jobs[d] # NoJob /\ jobs[d].sched = Target(d))
       THEN UNCHANGED <<jobs, entries, nextId>>
       ELSE Register(d, Target(d), Without(d))
  /\ UNCHANGED <<configVars, cloud, listed, before, phase, edits, restarts>>
EndApply ==
  /\ phase = "apply" /\ todo = {} /\ phase' = "prune"
  /\ UNCHANGED <<configVars, cloud, listed, before, jobs, entries, nextId, todo, edits, restarts>>

(* Slip: jobs of devices the cloud no longer lists are left alone *)
PruneNothing ==
  /\ phase = "prune" /\ phase' = "loop"
  /\ UNCHANGED <<configVars, cloud, listed, before, jobs, entries, nextId, todo, edits, restarts>>
Prune ==
  /\ phase = "prune" /\ phase' = "loop"
  /\ jobs' = [d \in Device |-> IF listed[d] = Missing THEN NoJob ELSE jobs[d]]
  /\ entries' = {e \in entries :
       ~ \E d \in Device : listed[d] = Missing /\ jobs[d] # NoJob /\ e.id = jobs[d].entry}
  /\ UNCHANGED <<configVars, cloud, listed, before, nextId, todo, edits, restarts>>

(* A new process: cron starts empty.  On a file that does not load run()
   returns (daemon.go:61-65), and the process idles until the next restart. *)
Restart ==
  /\ restarts < MaxRestarts /\ restarts' = restarts + 1
  /\ jobs' = [d \in Device |-> NoJob] /\ before' = jobs' /\ entries' = {} /\ nextId' = 1
  /\ todo' = Device
  /\ IF Loads THEN phase' = "register" /\ LoadConfig
     ELSE phase' = "idle" /\ UNCHANGED configVars
  /\ UNCHANGED <<cloud, listed, edits>>

EditFile ==
  /\ ~ saving /\ edits < MaxEdits /\ edits' = edits + 1
  /\ \/ \E d \in Device, s \in Schedule \cup {Empty, Missing} :
          file # Broken /\ file' = [file EXCEPT ![d] = s] /\ UNCHANGED fileLink
     \/ file # Broken /\ file' = Broken /\ UNCHANGED fileLink
     \/ file = Broken /\ file' = cfg /\ fileLink' = cfgLink
     \/ fileLink' = ~ fileLink /\ UNCHANGED file
  /\ UNCHANGED <<saving, cfg, cfgLink, cloud, listed, before, jobs, entries, nextId, phase, todo, restarts>>

(* xconf-agent install: SaveConfig truncates config.yaml and then writes one
   with the link that was verified and a sample device in place of those there
   were.  It may die in between, and leave the truncated file.              *)
NoDevices == [d \in Device |-> Missing]
SaveBegins ==
  /\ ~ saving /\ edits < MaxEdits /\ edits' = edits + 1
  /\ saving' = TRUE /\ file' = NoDevices /\ fileLink' = FALSE
  /\ UNCHANGED <<cfg, cfgLink, cloud, listed, before, jobs, entries, nextId, phase, todo, restarts>>
SaveEnds ==
  /\ saving /\ saving' = FALSE
  /\ fileLink' \in BOOLEAN /\ UNCHANGED file
  /\ UNCHANGED <<cfg, cfgLink, cloud, listed, before, jobs, entries, nextId, phase, todo, edits, restarts>>
EditCloud ==
  /\ edits < MaxEdits /\ edits' = edits + 1
  /\ \E d \in Device, s \in Schedule \cup {Empty, Unset, Missing} :
       cloud' = [cloud EXCEPT ![d] = s]
  /\ UNCHANGED <<configVars, listed, before, jobs, entries, nextId, phase, todo, restarts>>

Daemon ==
  \/ \E d \in Device : RegisterLocal(d) \/ Apply(d)
  \/ StartLoop \/ Heartbeat \/ Reload \/ EndApply \/ Prune
Next == Daemon \/ Restart \/ EditFile \/ SaveBegins \/ SaveEnds \/ EditCloud

Spec == Init /\ [][Next]_vars

(* The heartbeat ticker fires every minute and some heartbeat is answered *)
FairSpec == Spec /\ WF_vars(Daemon)

-----------------------------------------------------------------------------
(* The entries that cron would fire are those of cronJobs, one for each job,
   with its device and schedule, at every moment of a synchronisation: no
   device is backed up twice and no entry is left that nothing can remove.  *)
EntriesMatchJobs ==
  entries = {[id |-> jobs[d].entry, dev |-> d, sched |-> jobs[d].sched] :
               d \in {c \in Device : jobs[c] # NoJob}}

(* What a device should have once list and config are applied.  One that the
   cloud lists and config.yaml lacks is passed over (daemon.go:246-249): the
   job it had before stays, with the settings it had, and goes on firing.   *)
Served(d, list, config) ==
  LET s == IF list[d] = Unset THEN config[d] ELSE list[d]
  IN CASE list[d] = Missing -> jobs[d] = NoJob
       [] list[d] # Missing /\ config[d] = Missing -> jobs[d] = before[d]
       [] OTHER -> IF s \in Valid THEN jobs[d] # NoJob /\ jobs[d].sched = s
                   ELSE jobs[d] = NoJob

(* When the main loop has handled a heartbeat, every device has the schedule
   that the cloud's answer and the file it read then give it, whatever the
   table held before and whatever was edited meanwhile; one that is in the
   cloud's list and not in the file has the job it had when the heartbeat was
   answered, or none as then.                                               *)
SyncApplies ==
  [][phase = "prune" /\ phase' = "loop" => \A d \in Device : Served(d, listed, cfg)']_vars

(* The table of an agent whose configuration does not reach the cloud: what
   the last heartbeat and the file read after it asked for, or after a restart
   what the file itself asks for.                                           *)
KeepsLast ==
  \/ \A d \in Device : Served(d, listed, cfg)
  \/ \A d \in Device : Served(d, [c \in Device |-> Unset], cfg)

(* Once nobody edits or restarts any more, the table comes to be, and stays,
   what the cloud and config.yaml ask for if the file loads, with two
   exceptions that only a restart ends.  An agent whose last loaded file did
   not reach the cloud, be it that install had only truncated it, reads no file
   again, as it does so only after an answered heartbeat (daemon.go:219): it
   keeps the table of that file.  One started on a file that did not load has
   no schedule at all, even when the file is good again (daemon.go:61-65).   *)
SchedulesSettle ==
  <>[](CASE phase = "idle" -> entries = {}
         [] phase # "idle" /\ ~ cfgLink -> KeepsLast
         [] OTHER -> Loads => \A d \in Device : Served(d, cloud, file))
=============================================================================
