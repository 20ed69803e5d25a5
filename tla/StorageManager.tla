--------------------------- MODULE StorageManager ---------------------------
(***************************************************************************)
(* The whole of UploadBackup and ProcessQueue (storage.go): the local      *)
(* copies of HistoryCache and the queue and cloud of UploadQueue, in the   *)
(* order in which the two functions touch them.  A worker writes its local *)
(* copies first, asks for URLs, prunes the history when it gets them, then *)
(* uploads; ProcessQueue prunes after it removed a pair of files.          *)
(***************************************************************************)
EXTENDS Naturals, FiniteSets

CONSTANTS
  Backup, Device, DeviceOf, Refused, Limit,
  NoTime, Absent, Torn,
  Queue,       \* ProcessQueue, as a caller of pruneHistoryBackups
  MaxClock, MaxSetBacks, MaxFaults, MaxCrashes

ASSUME StorageAssumption ==
  /\ IsFiniteSet(Backup) /\ Device \subseteq Nat /\ DeviceOf \in [Backup -> Device]
  /\ Limit \subseteq Nat /\ MaxClock \in Nat /\ NoTime \notin 0 .. MaxClock
  /\ Absent \notin Backup /\ Torn \notin Backup /\ Absent # Torn
  /\ MaxSetBacks \in Nat /\ MaxFaults \in Nat /\ MaxCrashes \in Nat

VARIABLES
  pc, stamp, granted, rawFile, maskedFile, drain, rawObj, maskedObj,
  report, redelivered, unremoved, damaged, faults, crashes,
  clock, setBacks, phase, latest, history, name, age, prune

queueVars   == <<pc, stamp, granted, rawFile, maskedFile, drain, rawObj, maskedObj,
                 report, redelivered, unremoved, damaged, faults, crashes>>
historyVars == <<clock, setBacks, phase, latest, history, name, age, prune>>
vars        == <<queueVars, historyVars>>

Q == INSTANCE UploadQueue WITH Time <- 0 .. MaxClock
H == INSTANCE HistoryCache WITH Pruner <- Backup \cup {Queue}

Init == Q!Init /\ H!Init

SavedLocally(b) == phase[b] \in {"saved", "torn", "unsaved"}

SaveLocally(b) ==
  /\ pc[b] = "collected"
  /\ H!SaveLatest(b) \/ H!NameHistory(b) \/ H!OpenHistory(b) \/ H!SaveHistory(b)
  /\ UNCHANGED queueVars

RequestUrls(b) ==
  /\ SavedLocally(b) /\ Q!RequestUrls(b)
  /\ \E limit \in Limit : H!PruneScan(b, DeviceOf[b], limit)
RequestUrlsFails(b) ==
  /\ SavedLocally(b) /\ Q!RequestUrlsFails(b) /\ stamp'[b] = clock
  /\ UNCHANGED historyVars
PutFiles(b) ==
  /\ prune[b] = {} /\ Q!PutFiles(b) /\ stamp'[b] \in {NoTime, clock}
  /\ UNCHANGED historyVars
OtherStep(b) ==
  /\ \/ Q!Collect(b) \/ Q!ReportFailure(b) \/ Q!Report(b)
     \/ Q!OpenRaw(b) \/ Q!WriteRaw(b) \/ Q!OpenMasked(b) \/ Q!WriteMasked(b)
  /\ UNCHANGED historyVars

UploadBackup(b) ==
  \/ SaveLocally(b) \/ RequestUrls(b) \/ RequestUrlsFails(b) \/ PutFiles(b)
  \/ OtherStep(b)

DrainStep ==
  /\ prune[Queue] = {}
  /\ Q!ProcessQueue /\ drain.pc # "removeMasked"
  /\ UNCHANGED historyVars
DrainRemoveMasked ==
  /\ Q!RemoveMasked
  /\ \E limit \in Limit : H!PruneScan(Queue, drain.key[1], limit)

PruneStep == (\E p \in Backup \cup {Queue} : H!PruneRemove(p)) /\ UNCHANGED queueVars
ClockStep == (H!Tick \/ H!SetBack) /\ UNCHANGED queueVars
Crash     == Q!Crash /\ H!Crash

Next ==
  \/ \E b \in Backup : UploadBackup(b)
  \/ DrainStep \/ DrainRemoveMasked \/ PruneStep \/ ClockStep \/ Crash

Spec == Init /\ [][Next]_vars

-----------------------------------------------------------------------------
(* The raw bytes of b are in the cloud, in the queue or in the history *)
RawCopy(b) ==
  \/ b \in rawObj
  \/ \E k \in DOMAIN rawFile : rawFile[k] = b
  \/ \E k \in DOMAIN history : history[k] = b

(* The history no longer owes b: its file was not written, or not to its end,
   another backup of the device put one under its name, or as many as some
   limit put one, whole or not, under newer names.                          *)
HistoryGaveUp(b) ==
  LET Peers == {c \in Backup \ {b} : DeviceOf[c] = DeviceOf[b]
                                    /\ phase[c] \in {"opened", "torn", "saved"}}
  IN \/ phase[b] \in {"torn", "unsaved"}
     \/ \E c \in Peers : name[c] = name[b]
     \/ \E limit \in Limit \ {0} :
          Cardinality({c \in Peers : name[c] > name[b]}) >= limit

(* The raw configuration a device gave is not lost while the agent runs or
   dies: once UploadBackup is through with the history file there is a copy of
   it, in the history unless that gave it up; and then there still is one in
   the queue or the cloud if the backup ended and its save, if it had one, was
   not spoilt.                                                              *)
RawCopySurvives ==
  \A b \in Backup : SavedLocally(b) =>
    RawCopy(b) \/ (HistoryGaveUp(b) /\ (pc[b] # "done" \/ Q!Spoilt(b)))
=============================================================================
