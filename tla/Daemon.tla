------------------------------- MODULE Daemon -------------------------------
(***************************************************************************)
(* The life of the agent process (daemon.go): run() and its select loop on *)
(* the main goroutine, the cron scheduler, one goroutine per backup behind *)
(* a semaphore, the service manager's call of Stop on a goroutine of its   *)
(* own, and the decommissioning the cloud may order.  What a backup does   *)
(* is StorageManager's matter, which entries cron has is CloudSchedules'.  *)
(***************************************************************************)
EXTENDS Naturals, FiniteSets

CONSTANTS
  Backup,     \* backups that may be asked for in one life of the process
  Scheduled,  \* those cron fires; the cloud's commands ask for the others
  Slots,      \* capacity of p.sem
  Stuck,      \* backups of devices that accept the connection and then may
              \* never speak SSH: no deadline covers ssh.NewClientConn
  Outside     \* what may befall the process: "stop" (an administrator stops
              \* the service), "kill", "error" (of a file or service operation)

ASSUME DaemonAssumption ==
  /\ Scheduled \subseteq Backup /\ Stuck \subseteq Backup
  /\ IsFiniteSet(Backup) /\ Slots \in Nat \ {0}
  /\ Outside \subseteq {"stop", "kill", "error"}

VARIABLES
  loop,       \* where run() is
  cronOn,     \* p.cron is started
  exit,       \* p.exit is closed
  stop,       \* where Stop is
  backup,     \* the goroutine of each backup
  wg, sem,    \* p.wg and the number of tokens in p.sem
  alive,      \* the process exists
  installed,  \* it runs as a system service
  pidFile,    \* agent.pid names this process
  creds,      \* config.yaml holds agent_key and agent_jwt
  asked       \* the backups under way when Stop was called

vars == <<loop, cronOn, exit, stop, backup, wg, sem, alive, installed, pidFile, creds, asked>>
procVars == <<alive, installed, pidFile, creds>>
stopVars == <<exit, stop, asked>>

Loop   == {"start", "select", "queue", "stopSelf", "stopping", "uninstall",
           "clean", "returned"}
Active == {"spawned", "running", "released"}
InState(S) == {b \in Backup : backup[b] \in S}

TypeOK ==
  /\ loop \in Loop /\ stop \in {"no", "waiting", "drained", "timedOut"}
  /\ backup \in [Backup -> Active \cup {"none", "fired", "done"}]
  /\ wg \in Nat /\ sem \in 0 .. Slots /\ asked \subseteq Backup
  /\ {cronOn, exit, alive, installed, pidFile, creds} \subseteq BOOLEAN

Init ==
  /\ loop = "start" /\ cronOn = FALSE /\ exit = FALSE /\ stop = "no"
  /\ backup = [b \in Backup |-> "none"] /\ wg = 0 /\ sem = 0
  /\ alive = TRUE /\ installed \in BOOLEAN /\ pidFile = FALSE /\ creds = TRUE
  /\ asked = {}

-----------------------------------------------------------------------------
(* run() *)

(* logger.Fatal only logs: a config that does not load leaves the process
   running with nothing to do.                                              *)
LoadFails ==
  /\ alive /\ loop = "start" /\ loop' = "returned"
  /\ UNCHANGED <<cronOn, stopVars, backup, wg, sem, procVars>>
(* os.Exit(1) when the PID file names a running process *)
LockRefused ==
  /\ alive /\ loop = "start" /\ alive' = FALSE
  /\ UNCHANGED <<loop, cronOn, stopVars, backup, wg, sem, installed, pidFile, creds>>
StartUp ==
  /\ alive /\ loop = "start" /\ loop' = "select"
  /\ pidFile' = TRUE /\ cronOn' = TRUE
  /\ UNCHANGED <<stopVars, backup, wg, sem, alive, installed, creds>>

(* Slip: cron is not stopped *)
ReturnKeepsCron == loop' = "returned" /\ pidFile' = FALSE /\ UNCHANGED cronOn
(* The deferred calls of run(): cron.Stop and the removal of the PID file *)
Return == loop' = "returned" /\ cronOn' = FALSE /\ pidFile' = FALSE

SeeExit ==
  /\ alive /\ loop = "select" /\ exit /\ Return
  /\ UNCHANGED <<stopVars, backup, wg, sem, alive, installed, creds>>
QueueTick ==
  /\ alive /\ loop = "select" /\ loop' = "queue"
  /\ UNCHANGED <<cronOn, stopVars, backup, wg, sem, procVars>>
QueueDone ==
  /\ alive /\ loop = "queue" /\ loop' = "select"
  /\ UNCHANGED <<cronOn, stopVars, backup, wg, sem, procVars>>

(* Slip: no wg.Add before the go statement *)
SpawnUncounted(b, from) ==
  /\ backup[b] = from /\ backup' = [backup EXCEPT ![b] = "spawned"]
  /\ UNCHANGED wg
(* wg.Add(1) comes before the go statement *)
Spawn(b, from) ==
  /\ backup[b] = from /\ backup' = [backup EXCEPT ![b] = "spawned"]
  /\ wg' = wg + 1
Command(b) ==
  /\ alive /\ loop = "select" /\ b \in Backup \ Scheduled /\ Spawn(b, "none")
  /\ UNCHANGED <<loop, cronOn, stopVars, sem, procVars>>
(* Cron starts the function of an entry on a goroutine of its own, which
   cron.Stop() does not take back.                                          *)
CronFires(b) ==
  /\ alive /\ cronOn /\ b \in Scheduled
  /\ backup[b] = "none" /\ backup' = [backup EXCEPT ![b] = "fired"]
  /\ UNCHANGED <<loop, cronOn, stopVars, wg, sem, procVars>>
CronJob(b) ==
  /\ alive /\ Spawn(b, "fired")
  /\ UNCHANGED <<loop, cronOn, stopVars, sem, procVars>>

(* Slips: no token is taken; none is given back; wg.Done is left out *)
AcquireUnbounded(b) ==
  /\ alive /\ backup[b] = "spawned" /\ sem' = sem + 1
  /\ backup' = [backup EXCEPT ![b] = "running"]
  /\ UNCHANGED <<loop, cronOn, stopVars, wg, procVars>>
ReleaseNothing(b) ==
  /\ alive /\ backup[b] = "running"
  /\ backup' = [backup EXCEPT ![b] = "released"]
  /\ UNCHANGED <<loop, cronOn, stopVars, wg, sem, procVars>>
DoneUncounted(b) ==
  /\ alive /\ backup[b] = "released"
  /\ backup' = [backup EXCEPT ![b] = "done"]
  /\ UNCHANGED <<loop, cronOn, stopVars, wg, sem, procVars>>

(* The goroutine of a backup: p.sem <-, executeDeviceBackup, then the
   deferred calls in reverse order.                                         *)
Acquire(b) ==
  /\ alive /\ backup[b] = "spawned" /\ sem < Slots /\ sem' = sem + 1
  /\ backup' = [backup EXCEPT ![b] = "running"]
  /\ UNCHANGED <<loop, cronOn, stopVars, wg, procVars>>
Release(b) ==
  /\ alive /\ backup[b] = "running" /\ sem' = sem - 1
  /\ backup' = [backup EXCEPT ![b] = "released"]
  /\ UNCHANGED <<loop, cronOn, stopVars, wg, procVars>>
Done(b) ==
  /\ alive /\ backup[b] = "released" /\ wg' = wg - 1
  /\ backup' = [backup EXCEPT ![b] = "done"]
  /\ UNCHANGED <<loop, cronOn, stopVars, sem, procVars>>

-----------------------------------------------------------------------------
(* Stop, called by the service manager or on a signal *)

BeginStop == stop' = "waiting" /\ exit' = TRUE /\ asked' = InState(Active)

StopCalled ==
  /\ "stop" \in Outside /\ alive /\ stop = "no" /\ BeginStop
  /\ UNCHANGED <<loop, cronOn, backup, wg, sem, procVars>>
AllCompleted ==
  /\ alive /\ stop = "waiting" /\ wg = 0 /\ stop' = "drained"
  /\ UNCHANGED <<loop, cronOn, exit, asked, backup, wg, sem, procVars>>
StopTimesOut ==
  /\ alive /\ stop = "waiting" /\ stop' = "timedOut"
  /\ UNCHANGED <<loop, cronOn, exit, asked, backup, wg, sem, procVars>>

(* Slip: main waits for run() as well *)
ProcessExitsAfterRun ==
  /\ alive /\ stop \in {"drained", "timedOut"} /\ loop = "returned" /\ alive' = FALSE
  /\ UNCHANGED <<loop, cronOn, stopVars, backup, wg, sem, installed, pidFile, creds>>
(* Stop returns, then s.Run() and main(), without waiting for run() *)
ProcessExits ==
  /\ alive /\ stop \in {"drained", "timedOut"} /\ alive' = FALSE
  /\ UNCHANGED <<loop, cronOn, stopVars, backup, wg, sem, installed, pidFile, creds>>
Killed ==
  /\ "kill" \in Outside /\ alive /\ alive' = FALSE
  /\ UNCHANGED <<loop, cronOn, stopVars, backup, wg, sem, installed, pidFile, creds>>

-----------------------------------------------------------------------------
(* decommissionSelf, on the main goroutine *)

HeartbeatShutdown ==
  /\ alive /\ loop = "select" /\ loop' = "stopSelf"
  /\ UNCHANGED <<cronOn, stopVars, backup, wg, sem, procVars>>
(* s.Stop() has the service manager stop this very process, unless there is
   no such service or the call fails.                                       *)
StopSelf ==
  /\ alive /\ loop = "stopSelf"
  /\ \/ installed /\ stop = "no" /\ BeginStop /\ loop' = "stopping"
     \/ /\ ~installed \/ stop # "no" \/ "error" \in Outside
        /\ UNCHANGED stopVars /\ loop' = "uninstall"
  /\ UNCHANGED <<cronOn, backup, wg, sem, procVars>>
StopSelfReturns ==
  /\ alive /\ loop = "stopping" /\ loop' = "uninstall"
  /\ UNCHANGED <<cronOn, stopVars, backup, wg, sem, procVars>>
Uninstall ==
  /\ alive /\ loop = "uninstall" /\ loop' = "clean"
  /\ installed' \in {FALSE} \cup (IF "error" \in Outside THEN {installed} ELSE {})
  /\ UNCHANGED <<cronOn, stopVars, backup, wg, sem, alive, pidFile, creds>>
(* cleanLocalConfig writes the cleared copy and removes config.yaml, unless
   one of its file operations fails; then run() returns.                    *)
CleanLocalConfig ==
  /\ alive /\ loop = "clean" /\ Return
  /\ creds' \in {FALSE} \cup (IF "error" \in Outside THEN {creds} ELSE {})
  /\ UNCHANGED <<stopVars, backup, wg, sem, alive, installed>>

Run ==
  \/ LoadFails \/ LockRefused \/ StartUp \/ SeeExit \/ QueueTick \/ QueueDone
  \/ HeartbeatShutdown \/ StopSelf \/ StopSelfReturns \/ Uninstall \/ CleanLocalConfig
Goroutine(b) == CronJob(b) \/ Acquire(b) \/ Release(b) \/ Done(b)
Stop == AllCompleted \/ StopTimesOut \/ ProcessExits

Next ==
  \/ Run \/ Stop \/ StopCalled \/ Killed
  \/ \E b \in Backup : Command(b) \/ CronFires(b) \/ Goroutine(b)

Spec == Init /\ [][Next]_vars

(* Goroutines are scheduled, ProcessQueue ends (its clients have timeouts),
   Stop has a 30 s timer and a decommissioning goes on to its end.  A backup
   ends as well, except for a device that never completes the handshake.    *)
FairSpec ==
  /\ Spec /\ WF_vars(QueueDone) /\ WF_vars(Stop)
  /\ WF_vars(StopSelf \/ StopSelfReturns \/ Uninstall \/ CleanLocalConfig)
  /\ \A b \in Backup \ Stuck : WF_vars(Goroutine(b))

-----------------------------------------------------------------------------
(* The two counters count what they stand for, so that p.sem lets Slots
   backups run and no more, and p.wg is zero just when none is under way.   *)
CountersMatch ==
  /\ sem = Cardinality(InState({"running"}))
  /\ wg = Cardinality(InState(Active))

(* "All running backups completed." is true of every backup that was under
   way when Stop was called, also of those still waiting for a slot.        *)
StopWaitsForAll ==
  stop = "drained" => \A b \in asked : backup[b] = "done"

(* Once run() has returned no backup is asked for, by cron or by a command,
   although the process may live on.                                        *)
NoBackupAfterReturn ==
  [][loop = "returned" => \A b \in Backup : backup[b] = "none" => backup'[b] = "none"]_vars

(* Every backup asked for runs to its end, or the process goes away, although
   devices that never answer keep slots of p.sem (as long as not all).      *)
BackupsEnd ==
  \A b \in Backup \ Stuck : backup[b] # "none" ~> backup[b] = "done" \/ ~alive

(* A call of Stop ends the process, whatever the backups and run() do *)
StopEnds == stop = "waiting" ~> ~alive

(* A decommissioned agent clears the credentials in config.yaml
   (daemon.go:430).                                                         *)
DecommissionClears == loop = "stopSelf" ~> ~creds
=============================================================================
