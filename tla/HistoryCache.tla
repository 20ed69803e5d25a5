---------------------------- MODULE HistoryCache ----------------------------
(***************************************************************************)
(* The local copies of the backups (storage.go): data/latest, which holds  *)
(* the last one of each device, and data/history, which holds one file per *)
(* device and second until pruneHistoryBackups removes the oldest names.   *)
(* Workers save and prune concurrently, and ProcessQueue prunes as well,   *)
(* with no lock between them.  A write that fails, or that a kill cuts     *)
(* short, leaves a file under the right name without the right bytes.      *)
(***************************************************************************)
EXTENDS Naturals, FiniteSets

CONSTANTS
  Backup, Device, DeviceOf,
  Pruner,      \* goroutines that call pruneHistoryBackups
  Limit,       \* the local_retention_limit values the cloud may answer
  Absent, Torn, \* no file; a file without the bytes it should have
  MaxClock,    \* bound on the wall clock
  MaxSetBacks  \* bound on how often the local wall clock is set back

ASSUME HistoryAssumption ==
  /\ IsFiniteSet(Backup)
  /\ DeviceOf \in [Backup -> Device]
  /\ Absent \notin Backup /\ Torn \notin Backup /\ Absent # Torn
  /\ Limit \subseteq Nat /\ MaxClock \in Nat /\ MaxSetBacks \in Nat

VARIABLES
  clock,     \* the local wall clock, in seconds
  setBacks,
  phase,     \* how far UploadBackup got with its local copies
  latest,    \* data/latest/dev_<id>.raw.enc
  history,   \* data/history/dev_<id>/dev_<id>_<second>.raw.enc
  name,      \* the second saveHistoryBackup put in the file name of a backup
  age,       \* the order in which it did so; 0: not yet
  prune      \* per pruner: the names still to be removed

historyVars == <<clock, setBacks, phase, latest, history, name, age, prune>>

Second   == 0 .. MaxClock
Content  == Backup \cup {Torn, Absent}
PlaceOf(b) == <<DeviceOf[b], name[b]>>
Files(d) == {t \in Second : history[<<d, t>>] # Absent}

TypeOK ==
  /\ clock \in Second /\ setBacks \in 0 .. MaxSetBacks
  /\ phase \in [Backup -> {"start", "latest", "named", "opened",
                       "saved", "torn", "unsaved"}]
  /\ latest \in [Device -> Content]
  /\ history \in [Device \X Second -> Content]
  /\ name \in [Backup -> Second]
  /\ age \in [Backup -> 0 .. Cardinality(Backup)]
  /\ prune \in [Pruner -> SUBSET (Device \X Second)]

Init ==
  /\ clock = 0 /\ setBacks = 0
  /\ phase = [b \in Backup |-> "start"]
  /\ latest = [d \in Device |-> Absent]
  /\ history = [k \in Device \X Second |-> Absent]
  /\ name = [b \in Backup |-> 0] /\ age = [b \in Backup |-> 0]
  /\ prune = [p \in Pruner |-> {}]

(* Written, cut short, or not touched: saveLatestCache has no result *)
SaveLatest(b) ==
  /\ phase[b] = "start" /\ phase' = [phase EXCEPT ![b] = "latest"]
  /\ \E c \in {b, Torn, latest[DeviceOf[b]]} :
       latest' = [latest EXCEPT ![DeviceOf[b]] = c]
  /\ UNCHANGED <<clock, setBacks, history, name, age, prune>>

(* Slip: the name is taken again while the write is retried *)
NameHistoryAgain(b) ==
  /\ phase[b] \in {"latest", "named"} /\ phase' = [phase EXCEPT ![b] = "named"]
  /\ name' = [name EXCEPT ![b] = clock]
  /\ age' = [age EXCEPT ![b] = 1 + Cardinality({c \in Backup : age[c] > 0})]
  /\ UNCHANGED <<clock, setBacks, latest, history, prune>>
(* The file is named first, then created or truncated, then written.  A step
   that fails is logged and UploadBackup goes on without the copy.          *)
NameHistory(b) ==
  /\ phase[b] = "latest" /\ phase' = [phase EXCEPT ![b] = "named"]
  /\ name' = [name EXCEPT ![b] = clock]
  /\ age' = [age EXCEPT ![b] = 1 + Cardinality({c \in Backup : age[c] > 0})]
  /\ UNCHANGED <<clock, setBacks, latest, history, prune>>
OpenHistory(b) ==
  /\ phase[b] = "named"
  /\ \/ /\ history' = [history EXCEPT ![PlaceOf(b)] = Torn]
        /\ phase' = [phase EXCEPT ![b] = "opened"]
     \/ phase' = [phase EXCEPT ![b] = "unsaved"] /\ UNCHANGED history
  /\ UNCHANGED <<clock, setBacks, latest, name, age, prune>>

(* A pruner may have unlinked the file, or another worker opened it too: its
   bytes, or a mixture, may then be what remains.                           *)
Sharing(b) ==
  \E c \in Backup \ {b} : PlaceOf(c) = PlaceOf(b) /\ phase[c] \in {"opened", "torn"}
Outcomes(b) ==
  LET now == history[PlaceOf(b)]
  IN IF now = Absent THEN {Absent}
     ELSE IF Sharing(b) \/ now # Torn THEN {b, Torn, now}
     ELSE {b}
SaveHistory(b) ==
  /\ phase[b] = "opened"
  /\ \/ /\ \E c \in Outcomes(b) : history' = [history EXCEPT ![PlaceOf(b)] = c]
        /\ phase' = [phase EXCEPT ![b] = "saved"]
     \/ phase' = [phase EXCEPT ![b] = "torn"] /\ UNCHANGED history
  /\ UNCHANGED <<clock, setBacks, latest, name, age, prune>>

(* Slips: sorted the other way; one too many *)
ExcessNewest(d, limit) ==
  {t \in Files(d) : Cardinality({u \in Files(d) : u < t}) >= limit}
ExcessOneMore(d, limit) ==
  {t \in Files(d) : Cardinality({u \in Files(d) : u >= t}) >= limit}
(* The names that are in excess of the limit, the lowest first; a limit the
   cloud left out (nil) or set below 1 prunes nothing.                      *)
Excess(d, limit) ==
  {t \in Files(d) : Cardinality({u \in Files(d) : u > t}) >= limit}
PruneScan(p, d, limit) ==
  /\ prune[p] = {}
  /\ prune' = [prune EXCEPT ![p] =
       IF limit >= 1 THEN {d} \X Excess(d, limit) ELSE {}]
  /\ UNCHANGED <<clock, setBacks, phase, latest, history, name, age>>

NextVictim(p) == CHOOSE k \in prune[p] : \A l \in prune[p] : k[2] <= l[2]
(* A file that another pruner already removed, or that cannot be removed, is
   only a warning.                                                          *)
PruneRemove(p) ==
  /\ prune[p] # {}
  /\ history' = [history EXCEPT ![NextVictim(p)] = Absent] \/ UNCHANGED history
  /\ prune' = [prune EXCEPT ![p] = @ \ {NextVictim(p)}]
  /\ UNCHANGED <<clock, setBacks, phase, latest, name, age>>

Tick ==
  /\ clock < MaxClock /\ clock' = clock + 1
  /\ UNCHANGED <<setBacks, phase, latest, history, name, age, prune>>
(* time.Now() is formatted in local time, which the end of daylight saving
   time sets back.                                                          *)
SetBack ==
  /\ clock > 0 /\ clock' = clock - 1
  /\ setBacks < MaxSetBacks /\ setBacks' = setBacks + 1
  /\ UNCHANGED <<phase, latest, history, name, age, prune>>

(* The process dies: a file that was not written yet stays as it is, and is
   there for the pruners of the next process.                               *)
Crash ==
  /\ phase' = [b \in Backup |-> CASE phase[b] \in {"latest", "named"} -> "unsaved"
                                [] phase[b] = "opened" -> "torn"
                                [] OTHER -> phase[b]]
  /\ prune' = [p \in Pruner |-> {}]
  /\ UNCHANGED <<clock, setBacks, latest, history, name, age>>

Next ==
  \/ \E b \in Backup : SaveLatest(b) \/ NameHistory(b) \/ OpenHistory(b) \/ SaveHistory(b)
  \/ \E p \in Pruner, d \in Device, limit \in Limit : PruneScan(p, d, limit)
  \/ \E p \in Pruner : PruneRemove(p)
  \/ Tick \/ SetBack \/ Crash

Spec == Init /\ [][Next]_historyVars

-----------------------------------------------------------------------------
SavedOf(d) == {b \in Backup : DeviceOf[b] = d /\ phase[b] = "saved"}

(* Another backup of the device put a file under the same name *)
Replaced(b) ==
  \E c \in Backup \ {b} : PlaceOf(c) = PlaceOf(b) /\ phase[c] \in {"opened", "torn", "saved"}
(* The files with later names that are not whole, or not yet *)
Unfinished(b) ==
  {c \in Backup : DeviceOf[c] = DeviceOf[b] /\ phase[c] \in {"opened", "torn"}
                  /\ name[c] > name[b]}

(* The newest copy of a device that was written whole stays whole, whatever
   goroutines save and prune at once and whatever of it fails: names sort by
   time and the oldest go (storage.go:478, 488).  Pruning counts files, not
   copies: it does remove the newest whole one once as many files that are not
   whole have later names as the limit says.  The other exceptions are a save
   in the same second and a local clock that was set back.                   *)
NewestSurvives ==
  setBacks = 0 =>
    \A d \in Device : \A b \in SavedOf(d) :
      (\A c \in SavedOf(d) : age[c] <= age[b]) =>
        \/ history[PlaceOf(b)] = b
        \/ Replaced(b)
        \/ \E limit \in Limit \ {0} : Cardinality(Unfinished(b)) >= limit

(* However prunings of a device overlap, and whatever limits the cloud gave
   them, a removal never leaves fewer files than the smallest of the limits. *)
PruneKeepsLimit ==
  [][\A d \in Device : Files(d) \ Files(d)' # {} =>
       \E limit \in Limit : limit >= 1 /\ Cardinality(Files(d)') >= limit]_historyVars
=============================================================================
