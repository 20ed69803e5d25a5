--------------------------------- MODULE Host ---------------------------------
(***************************************************************************)
(* What the processes of one host share: agents that start and end         *)
(* (PidLock), their backups, which take a device model from the cache of   *)
(* their process, go through the handshake with the device and are         *)
(* sanitized (FetchDeviceConfig, driver/engine.go), and the sessions of    *)
(* xconf-agent check (cmd_check.go), which takes no lock and no model.     *)
(* Devices are those of protocol ssh that are not legacy_compatible.       *)
(***************************************************************************)
EXTENDS Naturals, Sequences

CONSTANTS
  Agent, Pid, NoPid, Absent, Empty, MaxForeign,
  Check,       \* the process of xconf-agent check
  Session, ProcessOf, Address, AddressOf, HostKey, NoKey,
  Vendor, VendorOf, None

VARIABLES
  life, pidOf, found, pidFile, foreign, given, unguarded,   \* PidLock
  at, shown, seen, hosts, clashed,                        \* KnownHosts
  step, model, writer, modelsCache, regexCache, filters     \* ModelCache

lockVars  == <<life, pidOf, found, pidFile, foreign, given, unguarded>>
hostVars  == <<at, shown, seen, hosts, clashed>>
cacheVars == <<step, model, writer, modelsCache, regexCache, filters>>
vars      == <<lockVars, hostVars, cacheVars>>

Process == Agent \cup {Check}
Lock  == INSTANCE PidLock
Hosts == INSTANCE KnownHosts
Cache == INSTANCE ModelCache

ASSUME HostAssumption ==
  /\ Lock!PidAssumption /\ Hosts!HostsAssumption /\ Cache!CacheAssumption
  /\ Check \notin Agent

Init == Lock!Init /\ Hosts!Init /\ Cache!Init

-----------------------------------------------------------------------------
AgentStep(a) ==
  /\ \/ Lock!Start(a) \/ Lock!ReadLock(a) \/ Lock!Refuse(a) \/ Lock!FindDead(a)
     \/ Lock!Truncate(a) \/ Lock!CannotWrite(a) \/ Lock!WritePid(a) \/ Lock!Return(a)
  /\ UNCHANGED <<hostVars, cacheVars>>
AgentExits(a) == Lock!Exit(a) /\ Hosts!Killed(a) /\ Cache!Killed(a)
CheckExits ==
  /\ \E s \in Session : ProcessOf[s] = Check /\ at[s] # "idle"
  /\ Hosts!Killed(Check) /\ UNCHANGED <<lockVars, cacheVars>>
OtherProgram  == Lock!Foreign /\ UNCHANGED <<hostVars, cacheVars>>

(* A backup that run() has started may wait for its slot (daemon.go:107-114,
   198-204) and begin when run() has returned.                              *)
LoadModel(s) ==
  /\ ProcessOf[s] \in Agent
  /\ step[s] = "idle" => life[ProcessOf[s]] \in Lock!Running
  /\ Cache!GetDeviceModel(s) /\ UNCHANGED <<lockVars, hostVars>>
VerifyHost(s) ==
  /\ ProcessOf[s] = Check \/ step[s] = "ready"
  /\ Hosts!Callback(s) /\ UNCHANGED <<lockVars, cacheVars>>
Sanitize(s) ==
  /\ at[s] = "accepted" /\ Cache!Sanitize(s) /\ UNCHANGED <<lockVars, hostVars>>

Next ==
  \/ \E a \in Agent : AgentStep(a) \/ AgentExits(a)
  \/ CheckExits \/ OtherProgram
  \/ \E s \in Session : LoadModel(s) \/ VerifyHost(s) \/ Sanitize(s)
Spec == Init /\ [][Next]_vars

-----------------------------------------------------------------------------
TypeOK == Lock!TypeOK /\ Hosts!TypeOK /\ Cache!TypeOK

(* At most one agent serves a configuration unless two acquisitions of its
   lock overlapped or agent.pid could not be read (AcquirePIDLock).         *)
ServesAlone == Lock!ServesAlone

(* Meanwhile agent.pid names the agent that serves, and no agent that has left
   run() and removed it, but lives on while its backups end (AcquirePIDLock,
   daemon.go:87).                                                           *)
LockNamesServer == Lock!LockNamesServer

(* A session is let through only with the key recorded for its address, as
   long as no two processes met in the host key callback.                   *)
FirstKeyStays == Hosts!FirstKeyStays

(* Every backup is sanitized with the filters of its vendor's one model *)
FiltersOfModel == Cache!FiltersOfModel
=============================================================================
