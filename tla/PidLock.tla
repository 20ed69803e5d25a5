------------------------------- MODULE PidLock -------------------------------
(***************************************************************************)
(* AcquirePIDLock (config/lock_unix.go, lock_windows.go) and its place in  *)
(* run(): data/agent.pid, the agents that start, serve and end on one      *)
(* configuration, and the numbers the system gives to processes.           *)
(*                                                                         *)
(* An agent is one execution of the program; numbers are given again.      *)
(* Agents may probe each other: they run as one user, or as root.          *)
(***************************************************************************)
EXTENDS Naturals, FiniteSets

CONSTANTS
  Agent,       \* executions of xconf-agent run
  Pid,         \* process numbers
  NoPid, Absent, Empty,
  MaxForeign   \* bound on processes of other programs that take a number

PidAssumption ==
  /\ {NoPid, Absent, Empty} \cap Pid = {} /\ Absent # Empty
  /\ NoPid \notin {Absent, Empty} /\ MaxForeign \in Nat

VARIABLES
  life,        \* where each agent is
  pidOf,       \* its number while it is alive
  found,       \* the number it read from agent.pid
  pidFile,     \* content of agent.pid
  foreign,     \* numbers other programs have
  given,       \* how many other programs have been started
  unguarded    \* two acquisitions overlapped, or one could not read the file

vars == <<life, pidOf, found, pidFile, foreign, given, unguarded>>

Acquiring == {"probing", "writing", "truncated"}
Left      == {"finishing", "stranded"}  \* run() returned; agent.pid stayed
Running   == {"serving"} \cup Left
Alive     == {"starting"} \cup Acquiring \cup Running

TypeOK ==
  /\ life \in [Agent -> {"none", "gone"} \cup Alive]
  /\ pidOf \in [Agent -> Pid \cup {NoPid}]
  /\ found \in [Agent -> Pid \cup {NoPid}]
  /\ pidFile \in Pid \cup {Absent, Empty}
  /\ foreign \subseteq Pid /\ given \in 0 .. MaxForeign /\ unguarded \in BOOLEAN

Init ==
  /\ life = [a \in Agent |-> "none"]
  /\ pidOf = [a \in Agent |-> NoPid] /\ found = [a \in Agent |-> NoPid]
  /\ pidFile = Absent /\ foreign = {} /\ given = 0 /\ unguarded = FALSE

Goto(a, from, to) == life[a] = from /\ life' = [life EXCEPT ![a] = to]
Ends(a) ==
  /\ life' = [life EXCEPT ![a] = "gone"]
  /\ pidOf' = [pidOf EXCEPT ![a] = NoPid] /\ found' = [found EXCEPT ![a] = NoPid]
InUse(p) == p \in foreign \/ \E a \in Agent : life[a] \in Alive /\ pidOf[a] = p

-----------------------------------------------------------------------------
Start(a) ==
  /\ Goto(a, "none", "starting")
  /\ \E p \in Pid : ~ InUse(p) /\ pidOf' = [pidOf EXCEPT ![a] = p]
  /\ UNCHANGED <<found, pidFile, foreign, given, unguarded>>

(* Any error of os.ReadFile or Atoi counts as "no lock" *)
Overlapping(a) == \E b \in Agent \ {a} : life[b] \in Acquiring
ReadLock(a) ==
  /\ \/ /\ pidFile \in Pid
        /\ Goto(a, "starting", "probing")
        /\ found' = [found EXCEPT ![a] = pidFile]
        /\ unguarded' = (unguarded \/ Overlapping(a))
     \/ /\ pidFile \notin Pid
        /\ Goto(a, "starting", "writing")
        /\ unguarded' = (unguarded \/ Overlapping(a)) /\ UNCHANGED found
     \/ /\ pidFile # Absent
        /\ Goto(a, "starting", "writing")
        /\ unguarded' = TRUE /\ UNCHANGED found
  /\ UNCHANGED <<pidOf, pidFile, foreign, given>>

(* Signal 0, or OpenProcess: the number is in use, the agent's own included.
   The process of another user may not be signalled and counts as none.     *)
Refuse(a) ==
  /\ life[a] = "probing" /\ InUse(found[a]) /\ Ends(a)
  /\ UNCHANGED <<pidFile, foreign, given, unguarded>>
(* Slip: the outcome of the probe is not looked at *)
MayTakeAlways(a) == TRUE
MayTake(a) == ~ InUse(found[a]) \/ found[a] \in foreign
FindDead(a) ==
  /\ Goto(a, "probing", "writing") /\ MayTake(a)
  /\ found' = [found EXCEPT ![a] = NoPid]
  /\ UNCHANGED <<pidOf, pidFile, foreign, given, unguarded>>

(* os.WriteFile truncates, then writes at the start of the file it opened.
   If agents meet, that file may be gone from its directory, or hold another
   number, of whose digits some may stay.  If it fails the agent exits.     *)
Truncate(a) ==
  /\ Goto(a, "writing", "truncated") /\ pidFile' = Empty
  /\ UNCHANGED <<pidOf, found, foreign, given, unguarded>>
CannotWrite(a) ==
  /\ life[a] \in {"writing", "truncated"} /\ Ends(a)
  /\ UNCHANGED <<pidFile, foreign, given, unguarded>>
(* Slip: the number that was read is written back *)
WrittenFound(a) == {found[a]}
Written(a) ==
  IF pidFile = Absent THEN {Absent}
  ELSE IF pidFile \in Pid THEN Pid
  ELSE {pidOf[a]} \cup (IF unguarded THEN {Empty} ELSE {})
WritePid(a) ==
  /\ Goto(a, "truncated", "serving") /\ pidFile' \in Written(a)
  /\ UNCHANGED <<pidOf, found, foreign, given, unguarded>>

(* Slip: the clean-up is left to the end of the process *)
CleanupNone(a) == Goto(a, "serving", "finishing") /\ UNCHANGED pidFile
(* os.Remove, whatever number the file holds; its error is ignored *)
Cleanup(a) ==
  \/ Goto(a, "serving", "finishing") /\ pidFile' = Absent
  \/ Goto(a, "serving", "stranded") /\ UNCHANGED pidFile
(* run() returns; the process lives on while Stop waits for the backups *)
Return(a) ==
  /\ Cleanup(a)
  /\ UNCHANGED <<pidOf, found, foreign, given, unguarded>>
(* The end of the process: after Stop, by a kill, or since Stop did not wait
   for run()                                                                *)
Exit(a) ==
  /\ life[a] \in Alive /\ Ends(a)
  /\ UNCHANGED <<pidFile, foreign, given, unguarded>>

(* Another program is started and gets a number, or ends *)
Foreign ==
  /\ \/ given < MaxForeign /\ given' = given + 1
        /\ \E p \in Pid : ~ InUse(p) /\ foreign' = foreign \cup {p}
     \/ \E p \in foreign : foreign' = foreign \ {p} /\ UNCHANGED given
  /\ UNCHANGED <<life, pidOf, found, pidFile, unguarded>>

Step(a) ==
  \/ Start(a) \/ ReadLock(a) \/ Refuse(a) \/ FindDead(a) \/ Truncate(a)
  \/ CannotWrite(a) \/ WritePid(a) \/ Return(a) \/ Exit(a)
Next == (\E a \in Agent : Step(a)) \/ Foreign
Spec == Init /\ [][Next]_vars

-----------------------------------------------------------------------------
(* Two agents never serve one configuration at once, through kills, reused
   numbers and files left behind, unless the one started while the other was
   between its look at agent.pid and its write, or the file, which was there,
   could not be read (lock_unix.go:15, "to lock execution to a single
   instance").                                                              *)
ServesAlone ==
  unguarded \/ \A a, b \in Agent : life[a] = "serving" /\ life[b] = "serving" => a = b

(* As long as ServesAlone is not excused, agent.pid names the agent that serves
   and no agent that has left run() and could remove it: one that starts is
   turned away only if an agent served when it looked, if one that left run()
   could not remove the file (lock_unix.go:48), or if the number of one that
   was killed was given to another program or to itself (lock_unix.go:33).  *)
LockNamesServer ==
  unguarded \/ \A a \in Agent :
    /\ life[a] = "serving" => pidFile = pidOf[a]
    /\ life[a] \in Alive /\ pidFile = pidOf[a] =>
         life[a] \in {"serving", "stranded", "starting", "probing"}
=============================================================================
