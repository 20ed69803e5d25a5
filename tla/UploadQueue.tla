----------------------------- MODULE UploadQueue -----------------------------
(***************************************************************************)
(* The upload pipeline of the agent: executeDeviceBackup (backup.go),      *)
(* UploadBackup, saveToQueue, ReportFailure and ProcessQueue (storage.go), *)
(* the two directories of queue files they share and the cloud they talk   *)
(* to.  A worker goroutine runs each backup; the daemon's main goroutine   *)
(* drains the queue.  They take no lock: the file system is what they      *)
(* share.  The history directory, which touches none of this state, is in  *)
(* HistoryCache, and StorageManager puts the two together.                 *)
(*                                                                         *)
(* A backup stands for both of its byte strings: the encrypted raw one and *)
(* the masked one; a file holds the backup whose bytes it has.             *)
(***************************************************************************)
EXTENDS Naturals, FiniteSets

CONSTANTS
  Backup,      \* runs of executeDeviceBackup
  Device,      \* devices, numbered in the order of their identifiers
  DeviceOf,    \* the device a backup is of
  Time,        \* the seconds time.Now() may show, in file-name order
  Refused,     \* devices for which the cloud answers get-upload-url by an error
  NoTime, Absent, Torn,
  MaxFaults,   \* bound on failed requests, failed file operations and kills
  MaxCrashes   \* bound on kills of the agent process

ASSUME ValuesAssumption ==
  /\ Device \subseteq Nat /\ Time \subseteq Nat /\ NoTime \notin Time
  /\ DeviceOf \in [Backup -> Device]
  /\ Absent \notin Backup /\ Torn \notin Backup /\ Absent # Torn
ASSUME BoundsAssumption == MaxFaults \in Nat /\ MaxCrashes \in Nat

VARIABLES
  pc,          \* where the goroutine of each backup is
  stamp,       \* the second saveToQueue put in the names of its files
  granted,     \* backups whose get-upload-url was answered
  rawFile, maskedFile,  \* data/queue: *.raw.enc and *.masked.gz, by key
  drain,       \* ProcessQueue: [pc, todo, key, raw, masked]
  rawObj, maskedObj,    \* what PUT requests stored in the cloud
  report,      \* what the worker's backup-complete told the cloud
  redelivered, \* what ProcessQueue uploaded as completed: <<key, raw, masked>>
  unremoved,   \* the files it then could not remove: <<key, half>>
  damaged,     \* backups whose queue files met a disk error
  faults, crashes

workerVars == <<pc, stamp, granted, report>>
fileVars   == <<rawFile, maskedFile, damaged>>
cloudVars  == <<rawObj, maskedObj, redelivered, unremoved>>
vars == <<workerVars, fileVars, cloudVars, drain, faults, crashes>>

(* A key is the pair of names dev_<id>_<second>.raw.enc and .masked.gz *)
Key      == Device \X Time
NoKey    == <<NoTime, NoTime>>
Content  == Backup \cup {Torn}
KeyOf(b) == <<DeviceOf[b], stamp[b]>>

(* os.ReadDir returns the names sorted *)
Before(k, l) == k[1] < l[1] \/ (k[1] = l[1] /\ k[2] <= l[2])
First(K)     == CHOOSE k \in K : \A l \in K : Before(k, l)

Ended   == {"idle", "done", "killed"}
Saving  == {"openRaw", "writeRaw", "openMasked", "writeMasked"}
WorkerPC == Ended \cup Saving \cup {"failing", "collected", "upload", "report"}
DrainPC == {"idle", "next", "readRaw", "readMasked", "request", "put",
            "completed", "failed", "removeRaw", "removeMasked"}

NoDrain == [pc |-> "idle", todo |-> {}, key |-> NoKey,
            raw |-> Absent, masked |-> Absent]

TypeOK ==
  /\ pc \in [Backup -> WorkerPC]
  /\ stamp \in [Backup -> Time \cup {NoTime}]
  /\ granted \subseteq Backup /\ damaged \subseteq Backup
  /\ rawFile \in [Key -> Content \cup {Absent}]
  /\ maskedFile \in [Key -> Content \cup {Absent}]
  /\ drain \in [pc : DrainPC, todo : SUBSET Key, key : Key \cup {NoKey},
                raw : Content \cup {Absent}, masked : Content \cup {Absent}]
  /\ rawObj \subseteq Content /\ maskedObj \subseteq Content
  /\ report \in [Backup -> {"none", "lost", "completed", "failed"}]
  /\ redelivered \subseteq Key \X Content \X Content
  /\ unremoved \subseteq Key \X {"raw", "masked"}
  /\ faults \in 0 .. MaxFaults /\ crashes \in 0 .. MaxCrashes

Init ==
  /\ pc = [b \in Backup |-> "idle"]
  /\ stamp = [b \in Backup |-> NoTime]
  /\ granted = {} /\ damaged = {}
  /\ rawFile = [k \in Key |-> Absent] /\ maskedFile = [k \in Key |-> Absent]
  /\ drain = NoDrain
  /\ rawObj = {} /\ maskedObj = {} /\ redelivered = {} /\ unremoved = {}
  /\ report = [b \in Backup |-> "none"]
  /\ faults = 0 /\ crashes = 0

Fault   == faults < MaxFaults /\ faults' = faults + 1
NoFault == UNCHANGED faults

Goto(b, from, to) == pc[b] = from /\ pc' = [pc EXCEPT ![b] = to]

-----------------------------------------------------------------------------
(* The worker *)

(* GetDriver, FetchConfig, ValidateKey, EncryptConfig and the masking, none
   of which touches shared state, all succeed; or one of them fails.        *)
Collect(b) ==
  /\ Goto(b, "idle", "collected") \/ Goto(b, "idle", "failing")
  /\ UNCHANGED <<stamp, granted, report, fileVars, cloudVars, drain, faults, crashes>>

(* backup-complete: nobody retries a report that fails *)
Tell(b, status) ==
  \/ report' = [report EXCEPT ![b] = status] /\ NoFault
  \/ report' = [report EXCEPT ![b] = "lost"] /\ Fault

ReportFailure(b) ==
  /\ Goto(b, "failing", "done")
  /\ Tell(b, "failed")
  /\ UNCHANGED <<stamp, granted, fileVars, cloudVars, drain, crashes>>

(* saveToQueue reads the clock once, for both names *)
EnterSaveToQueue(b) == \E t \in Time : stamp' = [stamp EXCEPT ![b] = t]

RequestUrls(b) ==
  /\ Goto(b, "collected", "upload")
  /\ DeviceOf[b] \notin Refused
  /\ granted' = granted \cup {b}
  /\ UNCHANGED <<stamp, report, fileVars, cloudVars, drain, faults, crashes>>
RequestUrlsFails(b) ==
  /\ Goto(b, "collected", "openRaw")
  /\ IF DeviceOf[b] \in Refused THEN NoFault ELSE Fault
  /\ EnterSaveToQueue(b)
  /\ UNCHANGED <<granted, report, fileVars, cloudVars, drain, crashes>>

(* Both objects are PUT whatever becomes of the first; a PUT whose answer is
   lost counts as not stored, which is how the agent takes it.              *)
Put(raw, masked, okRaw, okMasked) ==
  /\ rawObj' = IF okRaw THEN rawObj \cup {raw} ELSE rawObj
  /\ maskedObj' = IF okMasked THEN maskedObj \cup {masked} ELSE maskedObj
(* Slip: || for && *)
AcceptedEither(okRaw, okMasked) == okRaw \/ okMasked
Accepted(okRaw, okMasked) == okRaw /\ okMasked

PutFiles(b) ==
  \E okRaw, okMasked \in BOOLEAN :
    /\ Put(b, b, okRaw, okMasked)
    /\ IF okRaw /\ okMasked THEN NoFault ELSE Fault
    /\ IF Accepted(okRaw, okMasked)
         THEN Goto(b, "upload", "report") /\ UNCHANGED stamp
         ELSE Goto(b, "upload", "openRaw") /\ EnterSaveToQueue(b)
    /\ UNCHANGED <<granted, report, redelivered, unremoved, fileVars, drain, crashes>>

(* os.WriteFile is two steps that others see: create or truncate, then write.
   The file may have been unlinked in between, or another worker may have
   opened the same name: then either one's bytes, or a mixture, remain.     *)
Sharing(b, at) ==
  \E c \in Backup \ {b} : KeyOf(c) = KeyOf(b) /\ (pc[c] = at \/ c \in damaged)
Truncated(file, b) == [file EXCEPT ![KeyOf(b)] = Torn]
Outcomes(file, b, at) ==
  LET now == file[KeyOf(b)]
  IN IF now = Absent THEN {Absent}
     ELSE IF Sharing(b, at) \/ now # Torn THEN {b, Torn, now}
     ELSE {b}
DiskError(b) == Fault /\ damaged' = damaged \cup {b}

OpenRaw(b) ==
  /\ \/ Goto(b, "openRaw", "writeRaw") /\ rawFile' = Truncated(rawFile, b)
        /\ NoFault /\ UNCHANGED damaged
     \/ Goto(b, "openRaw", "openMasked") /\ DiskError(b) /\ UNCHANGED rawFile
  /\ UNCHANGED <<stamp, granted, report, maskedFile, cloudVars, drain, crashes>>
WriteRaw(b) ==
  /\ Goto(b, "writeRaw", "openMasked")
  /\ \/ \E c \in Outcomes(rawFile, b, "writeRaw") :
          rawFile' = [rawFile EXCEPT ![KeyOf(b)] = c]
        /\ NoFault /\ UNCHANGED damaged
     \/ DiskError(b) /\ UNCHANGED rawFile
  /\ UNCHANGED <<stamp, granted, report, maskedFile, cloudVars, drain, crashes>>

(* After saveToQueue UploadBackup returns if it had no URLs, else reports *)
AfterSave(b) == IF b \in granted THEN "report" ELSE "done"
OpenMasked(b) ==
  /\ \/ Goto(b, "openMasked", "writeMasked")
        /\ maskedFile' = Truncated(maskedFile, b) /\ NoFault /\ UNCHANGED damaged
     \/ Goto(b, "openMasked", AfterSave(b)) /\ DiskError(b) /\ UNCHANGED maskedFile
  /\ UNCHANGED <<stamp, granted, report, rawFile, cloudVars, drain, crashes>>
WriteMasked(b) ==
  /\ Goto(b, "writeMasked", AfterSave(b))
  /\ \/ \E c \in Outcomes(maskedFile, b, "writeMasked") :
          maskedFile' = [maskedFile EXCEPT ![KeyOf(b)] = c]
        /\ NoFault /\ UNCHANGED damaged
     \/ DiskError(b) /\ UNCHANGED maskedFile
  /\ UNCHANGED <<stamp, granted, report, rawFile, cloudVars, drain, crashes>>

Report(b) ==
  /\ Goto(b, "report", "done")
  /\ Tell(b, IF stamp[b] = NoTime THEN "completed" ELSE "failed")
  /\ UNCHANGED <<stamp, granted, fileVars, cloudVars, drain, crashes>>

-----------------------------------------------------------------------------
(* ProcessQueue, on the daemon's main goroutine *)

DrainAt(at)  == drain.pc = at
DrainTo(to)  == drain' = [drain EXCEPT !.pc = to]
NextFile     == [drain EXCEPT !.pc = "next", !.key = NoKey,
                              !.raw = Absent, !.masked = Absent]

ScanQueue ==
  /\ DrainAt("idle")
  /\ \E k \in Key : rawFile[k] # Absent
  /\ drain' = [NoDrain EXCEPT !.pc = "next",
                              !.todo = {k \in Key : rawFile[k] # Absent}]
  /\ UNCHANGED <<workerVars, fileVars, cloudVars, faults, crashes>>

(* Slips: os.Stat is left out; its result is inverted *)
PassedOverNever(k)    == FALSE
PassedOverInverted(k) == maskedFile[k] # Absent
(* A raw file with no masked one is passed over *)
PassedOver(k) == maskedFile[k] = Absent
PickFile ==
  /\ DrainAt("next") /\ drain.todo # {}
  /\ LET k == First(drain.todo)  rest == drain.todo \ {k}
     IN drain' = IF PassedOver(k) THEN [drain EXCEPT !.todo = rest]
                 ELSE [drain EXCEPT !.pc = "readRaw", !.todo = rest, !.key = k]
  /\ UNCHANGED <<workerVars, fileVars, cloudVars, faults, crashes>>
FinishScan ==
  /\ DrainAt("next") /\ drain.todo = {}
  /\ drain' = NoDrain
  /\ UNCHANGED <<workerVars, fileVars, cloudVars, faults, crashes>>

ReadRaw ==
  /\ DrainAt("readRaw")
  /\ drain' = [drain EXCEPT !.pc = "readMasked", !.raw = rawFile[drain.key]]
  /\ UNCHANGED <<workerVars, fileVars, cloudVars, faults, crashes>>
ReadMasked ==
  /\ DrainAt("readMasked")
  /\ \/ drain' = [drain EXCEPT !.pc = "request", !.masked = maskedFile[drain.key]]
        /\ NoFault
     \/ drain' = NextFile /\ Fault          \* either file could not be read
  /\ UNCHANGED <<workerVars, fileVars, cloudVars, crashes>>

(* An error ends the pass; an answer that does not parse skips the file *)
DrainRequestUrls ==
  /\ DrainAt("request")
  /\ \/ drain.key[1] \notin Refused /\ DrainTo("put") /\ NoFault
     \/ drain.key[1] \in Refused /\ drain' = NoDrain /\ NoFault
     \/ drain' \in {NoDrain, NextFile} /\ Fault
  /\ UNCHANGED <<workerVars, fileVars, cloudVars, crashes>>
(* Slip: the outcome of the PUTs is not looked at *)
AfterPutAlways(ok) == "completed"
AfterPut(ok) == IF ok THEN "completed" ELSE "failed"
DrainPut ==
  /\ DrainAt("put")
  /\ \E okRaw, okMasked \in BOOLEAN :
       /\ Put(drain.raw, drain.masked, okRaw, okMasked)
       /\ IF okRaw /\ okMasked THEN NoFault ELSE Fault
       /\ DrainTo(AfterPut(Accepted(okRaw, okMasked)))
  /\ UNCHANGED <<workerVars, fileVars, redelivered, unremoved, crashes>>

(* Whether or not the report arrives, "completed" speaks of the PUTs *)
DrainReport ==
  /\ \/ DrainAt("completed") /\ DrainTo("removeRaw")
        /\ redelivered' = redelivered \cup {<<drain.key, drain.raw, drain.masked>>}
     \/ DrainAt("failed") /\ drain' = NoDrain /\ UNCHANGED redelivered
  /\ UNCHANGED <<workerVars, fileVars, rawObj, maskedObj, unremoved, faults, crashes>>

(* Slips: the file stays; only the raw file goes *)
KeptFile(file) == file
RemoveRawOnly ==
  /\ DrainAt("removeMasked") /\ drain' = NextFile
  /\ UNCHANGED <<workerVars, fileVars, cloudVars, faults, crashes>>
Removed(file) == [file EXCEPT ![drain.key] = Absent]
(* The error of os.Remove is dropped: the file stays and the pass goes on *)
CannotRemove(half) == Fault /\ unremoved' = unremoved \cup {<<drain.key, half>>}
RemoveRaw ==
  /\ DrainAt("removeRaw") /\ DrainTo("removeMasked")
  /\ \/ rawFile' = Removed(rawFile) /\ NoFault /\ UNCHANGED unremoved
     \/ CannotRemove("raw") /\ UNCHANGED rawFile
  /\ UNCHANGED <<workerVars, maskedFile, damaged, rawObj, maskedObj, redelivered, crashes>>
RemoveMasked ==
  /\ DrainAt("removeMasked") /\ drain' = NextFile
  /\ \/ maskedFile' = Removed(maskedFile) /\ NoFault /\ UNCHANGED unremoved
     \/ CannotRemove("masked") /\ UNCHANGED maskedFile
  /\ UNCHANGED <<workerVars, rawFile, damaged, rawObj, maskedObj, redelivered, crashes>>

-----------------------------------------------------------------------------
(* The agent process dies (Stop's 30 s run out, a kill, a reboot) and is
   started again: goroutines are gone, files stay as they are.              *)
Crash ==
  /\ Fault /\ crashes < MaxCrashes /\ crashes' = crashes + 1
  /\ pc' = [b \in Backup |-> IF pc[b] \in Ended THEN pc[b] ELSE "killed"]
  /\ drain' = NoDrain
  /\ UNCHANGED <<stamp, granted, report, fileVars, cloudVars>>

Worker(b) ==
  \/ Collect(b) \/ ReportFailure(b)
  \/ RequestUrls(b) \/ RequestUrlsFails(b) \/ PutFiles(b)
  \/ OpenRaw(b) \/ WriteRaw(b) \/ OpenMasked(b) \/ WriteMasked(b) \/ Report(b)

ProcessQueue ==
  \/ ScanQueue \/ PickFile \/ FinishScan \/ ReadRaw \/ ReadMasked
  \/ DrainRequestUrls \/ DrainPut \/ DrainReport \/ RemoveRaw \/ RemoveMasked

Next == (\E b \in Backup : Worker(b)) \/ ProcessQueue \/ Crash

Spec == Init /\ [][Next]_vars

(* The queue ticker fires every 5 minutes and the loop runs ProcessQueue to
   its end; the goroutines of the backups may stand still for ever.         *)
FairSpec == Spec /\ WF_vars(ProcessQueue)

-----------------------------------------------------------------------------
(* Vocabulary of the properties *)

(* Two saves of one device gave their files the same names *)
Collides(b) ==
  \E c \in Backup \ {b} : stamp[b] # NoTime /\ stamp[c] # NoTime /\ KeyOf(c) = KeyOf(b)
QueuedWhole(b) ==
  stamp[b] # NoTime /\ rawFile[KeyOf(b)] = b /\ maskedFile[KeyOf(b)] = b
Stored(b)    == b \in rawObj /\ b \in maskedObj
(* ProcessQueue took the masked file between its creation and its writing *)
Overtaken(b) == <<KeyOf(b), b, Torn>> \in redelivered
Spoilt(b)    == Collides(b) \/ b \in damaged
SpoiltAt(k)  == \E b \in Backup : KeyOf(b) = k /\ Spoilt(b)
Present(k)   == rawFile[k] # Absent /\ maskedFile[k] # Absent
Busy(k)      == \E b \in Backup : pc[b] \in Saving /\ KeyOf(b) = k

(* What ProcessQueue has seen in the queue stays there until it takes it away
   itself, with workers creating and rewriting files all along: the raw files
   of its directory listing, both files of the key it is at, and so it never
   uploads what it could not read.                                          *)
Holding == {"readRaw", "readMasked", "request", "put", "completed", "failed", "removeRaw"}
HeldFilesStay ==
  /\ \A k \in drain.todo : rawFile[k] # Absent /\ k # drain.key
  /\ drain.pc \in Holding => drain.key \in Key /\ Present(drain.key)
  /\ drain.pc = "removeMasked" => drain.key \in Key /\ maskedFile[drain.key] # Absent
  /\ drain.pc \in Holding \ {"readRaw"} => drain.raw # Absent
  /\ drain.pc \in Holding \ {"readRaw", "readMasked"} => drain.masked # Absent

(* A backup that UploadBackup put in the queue is in the queue, both files
   whole, or in the cloud, both objects whole, once the goroutine has ended.
   The exceptions are the ones the code leaves open: a second save of the
   device in the same second, a disk error, and a ProcessQueue that picks up
   the masked file while saveToQueue is writing it.                         *)
LossesAreKnown ==
  \A b \in Backup : pc[b] = "done" /\ stamp[b] # NoTime =>
    QueuedWhole(b) \/ Stored(b) \/ Overtaken(b) \/ Spoilt(b)

(* What the cloud was told is completed is stored there, raw and masked, and
   no copy of it waits in the queue to be sent once more.                   *)
CompletedMeansStored ==
  \A b \in Backup : report[b] = "completed" =>
    Stored(b) /\ \A k \in Key : rawFile[k] # b /\ maskedFile[k] # b

(* The two objects ProcessQueue sends under one report are those of one
   backup, the one its file names say; a partial raw object never goes out
   unless the save was spoilt, a partial masked one only then or when
   ProcessQueue or a kill met the save before it was over.                  *)
RedeliveredTogether ==
  \A p \in redelivered :
    \/ p[2] \in Backup /\ KeyOf(p[2]) = p[1] /\ p[3] \in {p[2], Torn}
    \/ SpoiltAt(p[1])

(* A queue file is left without its other half, and ProcessQueue passes over it
   on every later run, only by a spoilt save, by a crash, or when this very file
   could not be removed after its pair was sent.                            *)
LeftBehind(k) ==
  /\ <<k, IF rawFile[k] = Absent THEN "masked" ELSE "raw">> \in unremoved
  /\ \E p \in redelivered : p[1] = k
OrphansAreKnown ==
  \A k \in Key : (rawFile[k] = Absent) # (maskedFile[k] = Absent) =>
    \/ Busy(k) \/ (drain.key = k /\ drain.pc = "removeMasked")
    \/ LeftBehind(k) \/ crashes > 0 \/ SpoiltAt(k)

(* ProcessQueue sends a queued backup again only when the process died between
   the upload and the removal of the files, or when neither file could be
   removed: one removal that succeeds is enough to keep the other file, if it
   stays, from being sent once more.                                        *)
NotRemoved(b) ==
  /\ <<KeyOf(b), "raw">> \in unremoved
  /\ \/ <<KeyOf(b), "masked">> \in unremoved
     \/ drain.key = KeyOf(b) /\ drain.pc = "removeMasked"
SentOnce ==
  \A b \in Backup : <<KeyOf(b), b, b>> \in redelivered /\ QueuedWhole(b) =>
    \/ (drain.key = KeyOf(b) /\ drain.pc = "removeRaw")
    \/ NotRemoved(b) \/ crashes > 0 \/ Collides(b)

(* Once requests stop failing, every queued pair of files of a device that
   the cloud accepts is uploaded and removed (storage.go:333, "re-uploads
   queued backups when network is restored").                               *)
QueueDrains ==
  \A k \in Key : k[1] \notin Refused => (Present(k) ~> ~Present(k))

(* UploadQueue implements OfflineBuffer for every backup (storage.go:286): what
   left the queue is in the cloud, and what was reported as queued is in one
   of the two, at every step, unless it is excused.                         *)
Promise(b) == INSTANCE OfflineBuffer WITH
  held    <- QueuedWhole(b),
  stored  <- Stored(b),
  told    <- pc[b] = "done" /\ stamp[b] # NoTime,
  excused <- Overtaken(b) \/ Spoilt(b)

PromiseKept ==
  /\ \A b \in Backup : Promise(b)!Init
  /\ [][\A b \in Backup : [Promise(b)!Next]_(Promise(b)!vars)]_vars

(* "(queued locally)", the text of UploadBackup's error: the backup is in the
   queue until it is in the cloud (storage.go:286).                         *)
QueuedLocallyIsKept ==
  \A b \in Backup : pc[b] = "done" /\ stamp[b] # NoTime => QueuedWhole(b) \/ Stored(b)

=============================================================================
