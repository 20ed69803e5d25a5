------------------------------ MODULE KnownHosts ------------------------------
(***************************************************************************)
(* tofuHostKeyCallback (driver/driver.go): data/known_hosts, read and      *)
(* appended to under a mutex that each process has for itself, by the      *)
(* daemon's backups and by xconf-agent check.                              *)
(***************************************************************************)
EXTENDS Naturals, Sequences, SequencesExt

CONSTANTS
  Session,     \* SSH handshakes
  Process, ProcessOf,
  Address, AddressOf,
  HostKey, NoKey

HostsAssumption ==
  /\ ProcessOf \in [Session -> Process] /\ AddressOf \in [Session -> Address]
  /\ NoKey \notin HostKey

VARIABLES
  at,          \* where each session is in the callback
  shown,       \* the key with which each session was let through
  seen,        \* the key the session read from the file
  hosts,       \* known_hosts, a sequence of lines
  clashed      \* two processes were in the callback at once, or one could not read

vars == <<at, shown, seen, hosts, clashed>>

Inside == {"locked", "looked"}
Ended  == {"accepted", "rejected", "killed"}
TypeOK ==
  /\ at \in [Session -> {"idle"} \cup Inside \cup Ended]
  /\ shown \in [Session -> HostKey \cup {NoKey}]
  /\ seen \in [Session -> HostKey \cup {NoKey}]
  /\ hosts \in Seq([address : Address, key : HostKey])
  /\ clashed \in BOOLEAN

Init ==
  /\ at = [s \in Session |-> "idle"]
  /\ shown = [s \in Session |-> NoKey] /\ seen = [s \in Session |-> NoKey]
  /\ hosts = <<>> /\ clashed = FALSE

Goto(s, from, to) == at[s] = from /\ at' = [at EXCEPT ![s] = to]

-----------------------------------------------------------------------------
(* Slip: no mutex *)
FreeAlways(s) == TRUE
Free(s) == \A t \in Session : ProcessOf[t] = ProcessOf[s] => at[t] \notin Inside
Lock(s) ==
  /\ Goto(s, "idle", "locked") /\ Free(s)
  /\ clashed' = (clashed \/ \E t \in Session :
                              ProcessOf[t] # ProcessOf[s] /\ at[t] \in Inside)
  /\ UNCHANGED <<shown, seen, hosts>>

(* The map is filled line by line: the last line of an address counts.  Lines
   are recorded under the address of the connection; the second look, under
   the name that was dialled (driver.go:107-109), finds none that the first
   does not, but a line put there by hand, and is left out.                 *)
LinesOf(address) == {i \in DOMAIN hosts : hosts[i].address = address}
Recorded(address) ==
  IF LinesOf(address) = {} THEN NoKey
  ELSE hosts[CHOOSE i \in LinesOf(address) : \A j \in LinesOf(address) : j <= i].key
(* An error of os.ReadFile counts as an empty file *)
LookUp(s) ==
  /\ Goto(s, "locked", "looked")
  /\ \/ seen' = [seen EXCEPT ![s] = Recorded(AddressOf[s])] /\ UNCHANGED clashed
     \/ hosts # <<>> /\ seen' = [seen EXCEPT ![s] = NoKey] /\ clashed' = TRUE
  /\ UNCHANGED <<shown, hosts>>

(* The callback returns and releases the mutex.  The device may show another
   key than the last time.                                                  *)
Accepts(s, k) == Goto(s, "looked", "accepted") /\ shown' = [shown EXCEPT ![s] = k]
Rejects(s)    == Goto(s, "looked", "rejected") /\ UNCHANGED shown
Forget(s)     == seen' = [seen EXCEPT ![s] = NoKey]

Trust(s) ==
  /\ seen[s] = NoKey /\ Forget(s)
  /\ \E k \in HostKey :
       Accepts(s, k) /\ hosts' = Append(hosts, [address |-> AddressOf[s], key |-> k])
  /\ UNCHANGED clashed
CannotRecord(s) ==
  /\ seen[s] = NoKey /\ Forget(s) /\ Rejects(s)
  /\ UNCHANGED <<hosts, clashed>>
Compare(s) ==
  /\ seen[s] # NoKey /\ Forget(s)
  /\ \E k \in HostKey : IF k = seen[s] THEN Accepts(s, k) ELSE Rejects(s)
  /\ UNCHANGED <<hosts, clashed>>

(* A process ends with all its sessions; what they recorded stays *)
Killed(p) ==
  LET Theirs == {s \in Session : ProcessOf[s] = p}
  IN /\ at' = [s \in Session |-> IF s \in Theirs THEN "killed" ELSE at[s]]
     /\ shown' = [s \in Session |-> IF s \in Theirs THEN NoKey ELSE shown[s]]
     /\ seen' = [s \in Session |-> IF s \in Theirs THEN NoKey ELSE seen[s]]
     /\ UNCHANGED <<hosts, clashed>>

Callback(s) == Lock(s) \/ LookUp(s) \/ Trust(s) \/ CannotRecord(s) \/ Compare(s)
Next == (\E s \in Session : Callback(s)) \/ \E p \in Process : Killed(p)
Spec == Init /\ [][Next]_vars

-----------------------------------------------------------------------------
(* The first key seen at an address stays the one recorded for it, and the
   sessions that were let through saw that key, whatever the device showed
   since and however the backups of a process meet, unless two processes were
   in the callback at once or the file could not be read.                   *)
FirstKeyStays ==
  clashed \/ /\ \A i, j \in DOMAIN hosts : hosts[i].address = hosts[j].address => i = j
             /\ \A s \in Session :
                  at[s] = "accepted" => Recorded(AddressOf[s]) = shown[s]
=============================================================================
