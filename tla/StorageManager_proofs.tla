------------------------ MODULE StorageManager_proofs ------------------------
(* What the two halves of StorageManager keep, they keep together: a step of
   it is, for the queue and for the local copies, one of theirs or a stutter,
   so that the invariants proved of each of them hold here.  From both, and
   from what ties a worker's place in the one to its place in the other,
   follows that the raw configuration of a device is not lost.              *)
EXTENDS StorageManager, TLAPS

QP == INSTANCE UploadQueue_proofs WITH Time <- 0 .. MaxClock
HP == INSTANCE HistoryCache_proofs WITH Pruner <- Backup \cup {Queue}

LEMMA QueueAssumptions == QP!ValuesAssumption /\ QP!BoundsAssumption
BY StorageAssumption DEF QP!ValuesAssumption, QP!BoundsAssumption

LEMMA SameSets ==
  ASSUME NEW S
  PROVE  /\ HP!IsFiniteSet(S) <=> IsFiniteSet(S)
         /\ HP!Cardinality(S) = Cardinality(S)
         /\ H!Cardinality(S) = Cardinality(S)
<1>1. HP!IsFiniteSet(S) <=> IsFiniteSet(S)
  BY DEF HP!IsFiniteSet, IsFiniteSet
<1>2. HP!Cardinality(S) = Cardinality(S)
  BY Zenon DEF HP!Cardinality, Cardinality
<1>3. H!Cardinality(S) = Cardinality(S)
  BY Zenon DEF H!Cardinality, Cardinality
<1>4. QED
  BY <1>1, <1>2, <1>3

LEMMA HistoryAssumptions == HP!HistoryAssumption
BY StorageAssumption, SameSets DEF HP!HistoryAssumption

-----------------------------------------------------------------------------
(* The definitions that StorageManager is built from are those the proofs
   about its parts are about.                                               *)
LEMMA SameWorker ==
  ASSUME NEW b
  PROVE  /\ Q!Collect(b) => QP!Collect(b)
         /\ Q!ReportFailure(b) => QP!ReportFailure(b)
         /\ Q!RequestUrls(b) => QP!RequestUrls(b)
         /\ Q!RequestUrlsFails(b) => QP!RequestUrlsFails(b)
         /\ Q!PutFiles(b) => QP!PutFiles(b)
         /\ Q!OpenRaw(b) => QP!OpenRaw(b)
         /\ Q!WriteRaw(b) => QP!WriteRaw(b)
         /\ Q!OpenMasked(b) => QP!OpenMasked(b)
         /\ Q!WriteMasked(b) => QP!WriteMasked(b)
         /\ Q!Report(b) => QP!Report(b)
<1> USE DEF Q!fileVars, QP!fileVars, Q!cloudVars, QP!cloudVars, Q!Goto, QP!Goto
<1>1. Q!Collect(b) => QP!Collect(b)
  BY DEF Q!Collect, QP!Collect
<1>2. Q!ReportFailure(b) => QP!ReportFailure(b)
  BY DEF Q!ReportFailure, QP!ReportFailure, Q!Tell, QP!Tell, Q!Fault, QP!Fault, Q!NoFault,
         QP!NoFault
<1>3. Q!RequestUrls(b) => QP!RequestUrls(b)
  BY DEF Q!RequestUrls, QP!RequestUrls
<1>4. Q!RequestUrlsFails(b) => QP!RequestUrlsFails(b)
  BY DEF Q!RequestUrlsFails, QP!RequestUrlsFails, Q!EnterSaveToQueue, QP!EnterSaveToQueue,
         Q!Fault, QP!Fault, Q!NoFault, QP!NoFault
<1>5. Q!PutFiles(b) => QP!PutFiles(b)
  BY DEF Q!PutFiles, QP!PutFiles, Q!Put, QP!Put, Q!Accepted, QP!Accepted,
         Q!EnterSaveToQueue, QP!EnterSaveToQueue, Q!Fault, QP!Fault, Q!NoFault, QP!NoFault
<1> USE DEF Q!Fault, QP!Fault, Q!NoFault, QP!NoFault, Q!DiskError, QP!DiskError,
            Q!KeyOf, QP!KeyOf, Q!AfterSave, QP!AfterSave
<1>6. Q!OpenRaw(b) => QP!OpenRaw(b)
  BY DEF Q!OpenRaw, QP!OpenRaw, Q!Truncated, QP!Truncated
<1>7. Q!OpenMasked(b) => QP!OpenMasked(b)
  BY DEF Q!OpenMasked, QP!OpenMasked, Q!Truncated, QP!Truncated
<1>8. Q!WriteRaw(b) => QP!WriteRaw(b)
  BY DEF Q!WriteRaw, QP!WriteRaw, Q!Outcomes, QP!Outcomes, Q!Sharing, QP!Sharing
<1>9. Q!WriteMasked(b) => QP!WriteMasked(b)
  BY DEF Q!WriteMasked, QP!WriteMasked, Q!Outcomes, QP!Outcomes, Q!Sharing, QP!Sharing
<1>10. Q!Report(b) => QP!Report(b)
  BY DEF Q!Report, QP!Report, Q!Tell, QP!Tell
<1>11. QED
  BY <1>1, <1>2, <1>3, <1>4, <1>5, <1>6, <1>7, <1>8, <1>9, <1>10

LEMMA SameDrain ==
  /\ Q!ProcessQueue => QP!ProcessQueue
  /\ Q!Crash => QP!Crash
<1> USE DEF Q!workerVars, QP!workerVars, Q!fileVars, QP!fileVars, Q!cloudVars, QP!cloudVars,
            Q!DrainAt, QP!DrainAt, Q!DrainTo, QP!DrainTo, Q!NextFile, QP!NextFile,
            Q!NoDrain, QP!NoDrain, Q!Fault, QP!Fault, Q!NoFault, QP!NoFault,
            Q!Key, QP!Key, Q!NoKey, QP!NoKey
<1>1. Q!ScanQueue => QP!ScanQueue
  BY DEF Q!ScanQueue, QP!ScanQueue
<1>2. Q!PickFile => QP!PickFile
  BY DEF Q!PickFile, QP!PickFile, Q!PassedOver, QP!PassedOver, Q!First, QP!First,
         Q!Before, QP!Before
<1>3. Q!FinishScan => QP!FinishScan
  BY DEF Q!FinishScan, QP!FinishScan
<1>4. Q!ReadRaw => QP!ReadRaw
  BY DEF Q!ReadRaw, QP!ReadRaw
<1>5. Q!ReadMasked => QP!ReadMasked
  BY DEF Q!ReadMasked, QP!ReadMasked
<1>6. Q!DrainRequestUrls => QP!DrainRequestUrls
  BY DEF Q!DrainRequestUrls, QP!DrainRequestUrls
<1>7. Q!DrainPut => QP!DrainPut
  BY DEF Q!DrainPut, QP!DrainPut, Q!Put, QP!Put, Q!Accepted, QP!Accepted, Q!AfterPut, QP!AfterPut
<1>8. Q!DrainReport => QP!DrainReport
  BY DEF Q!DrainReport, QP!DrainReport
<1>9. Q!RemoveRaw => QP!RemoveRaw
  BY DEF Q!RemoveRaw, QP!RemoveRaw, Q!Removed, QP!Removed, Q!CannotRemove, QP!CannotRemove
<1>10. Q!RemoveMasked => QP!RemoveMasked
  BY DEF Q!RemoveMasked, QP!RemoveMasked, Q!Removed, QP!Removed, Q!CannotRemove,
         QP!CannotRemove
<1>11. Q!Crash => QP!Crash
  BY DEF Q!Crash, QP!Crash, Q!Ended, QP!Ended
<1>12. QED
  BY <1>1, <1>2, <1>3, <1>4, <1>5, <1>6, <1>7, <1>8, <1>9, <1>10, <1>11
  DEF Q!ProcessQueue, QP!ProcessQueue

LEMMA SameHistory ==
  /\ \A b : H!SaveLatest(b) => HP!SaveLatest(b)
  /\ \A b : H!NameHistory(b) => HP!NameHistory(b)
  /\ \A b : H!OpenHistory(b) => HP!OpenHistory(b)
  /\ \A b : H!SaveHistory(b) => HP!SaveHistory(b)
  /\ \A p, d, limit : H!PruneScan(p, d, limit) => HP!PruneScan(p, d, limit)
  /\ \A p : H!PruneRemove(p) => HP!PruneRemove(p)
  /\ (H!Tick => HP!Tick) /\ (H!SetBack => HP!SetBack) /\ (H!Crash => HP!Crash)
<1>1. \A b : /\ H!SaveLatest(b) => HP!SaveLatest(b)
             /\ H!NameHistory(b) => HP!NameHistory(b)
             /\ H!OpenHistory(b) => HP!OpenHistory(b)
             /\ H!SaveHistory(b) => HP!SaveHistory(b)
  BY SameSets
  DEF H!SaveLatest, HP!SaveLatest, H!NameHistory, HP!NameHistory, H!OpenHistory, HP!OpenHistory,
      H!SaveHistory, HP!SaveHistory, H!Outcomes, HP!Outcomes, H!Sharing, HP!Sharing,
      H!PlaceOf, HP!PlaceOf
<1>2. \A p, d, limit : H!PruneScan(p, d, limit) => HP!PruneScan(p, d, limit)
  <2>1. \A d : H!Files(d) = HP!Files(d)
    BY DEF H!Files, HP!Files, H!Second, HP!Second
  <2>2. \A d, limit : H!Excess(d, limit) = HP!Excess(d, limit)
    BY <2>1, SameSets, Zenon DEF H!Excess, HP!Excess
  <2>3. QED
    BY <2>2 DEF H!PruneScan, HP!PruneScan
<1>3. \A p : H!PruneRemove(p) => HP!PruneRemove(p)
  BY DEF H!PruneRemove, HP!PruneRemove, H!NextVictim, HP!NextVictim
<1>4. (H!Tick => HP!Tick) /\ (H!SetBack => HP!SetBack) /\ (H!Crash => HP!Crash)
  BY DEF H!Tick, HP!Tick, H!SetBack, HP!SetBack, H!Crash, HP!Crash
<1>5. QED
  BY <1>1, <1>2, <1>3, <1>4

LEMMA SameNext == (Q!Next => QP!Next) /\ (H!Next => HP!Next)
<1>1. ASSUME NEW b \in Backup, Q!Worker(b) PROVE QP!Worker(b)
  BY <1>1, SameWorker DEF Q!Worker, QP!Worker
<1>2. Q!Next => QP!Next
  BY <1>1, SameDrain DEF Q!Next, QP!Next
<1>3. H!Next => HP!Next
  BY SameHistory DEF H!Next, HP!Next
<1>4. QED
  BY <1>2, <1>3

LEMMA SameInit == Init => QP!Init /\ HP!Init
BY DEF Init, Q!Init, QP!Init, Q!Key, QP!Key, Q!NoDrain, QP!NoDrain, Q!NoKey, QP!NoKey,
       H!Init, HP!Init, H!Second, HP!Second

-----------------------------------------------------------------------------
(* Every step is one of the queue and one of the local copies, or a stutter
   of either.                                                               *)
LEMMA StepsOfQueue == [Next]_vars => [Q!Next]_(Q!vars)
<1> SUFFICES ASSUME [Next]_vars PROVE Q!Next \/ UNCHANGED queueVars
  BY DEF queueVars, Q!vars, Q!workerVars, Q!fileVars, Q!cloudVars
<1>1. ASSUME NEW b \in Backup, UploadBackup(b) PROVE Q!Next \/ UNCHANGED queueVars
  <2>1. CASE SaveLocally(b)
    BY <2>1 DEF SaveLocally
  <2>2. CASE ~ SaveLocally(b)
    <3>1. Q!Worker(b)
      BY <1>1, <2>2
      DEF UploadBackup, RequestUrls, RequestUrlsFails, PutFiles, OtherStep, Q!Worker
    <3>2. QED
      BY <3>1 DEF Q!Next
  <2>3. QED
    BY <2>1, <2>2
<1>2. CASE DrainStep
  BY <1>2 DEF DrainStep, Q!Next
<1>3. CASE DrainRemoveMasked
  BY <1>3 DEF DrainRemoveMasked, Q!Next, Q!ProcessQueue
<1>4. CASE Crash
  BY <1>4 DEF Crash, Q!Next
<1>5. CASE PruneStep \/ ClockStep \/ UNCHANGED vars
  BY <1>5 DEF PruneStep, ClockStep, vars
<1>6. QED
  BY <1>1, <1>2, <1>3, <1>4, <1>5 DEF Next

LEMMA StepsOfHistory == QP!QueueInv /\ [Next]_vars => [H!Next]_(H!historyVars)
<1> SUFFICES ASSUME QP!QueueInv, [Next]_vars PROVE H!Next \/ UNCHANGED historyVars
  BY DEF historyVars, H!historyVars
<1>1. ASSUME NEW p \in Backup \cup {Queue}, NEW d \in Device, NEW limit \in Limit,
             H!PruneScan(p, d, limit)
      PROVE  H!Next
  BY <1>1 DEF H!Next
<1>2. ASSUME NEW b \in Backup, UploadBackup(b) PROVE H!Next \/ UNCHANGED historyVars
  <2>1. CASE SaveLocally(b)
    BY <2>1 DEF SaveLocally, H!Next
  <2>2. CASE RequestUrls(b)
    <3>1. DeviceOf[b] \in Device
      BY StorageAssumption
    <3>2. QED
      BY <1>1, <2>2, <3>1 DEF RequestUrls
  <2>3. CASE RequestUrlsFails(b) \/ PutFiles(b) \/ OtherStep(b)
    BY <2>3 DEF RequestUrlsFails, PutFiles, OtherStep
  <2>4. QED
    BY <1>2, <2>1, <2>2, <2>3 DEF UploadBackup
<1>3. CASE DrainRemoveMasked
  <2>1. PICK limit \in Limit : H!PruneScan(Queue, drain.key[1], limit)
    BY <1>3 DEF DrainRemoveMasked
  <2>2. drain.pc = "removeMasked"
    BY <1>3 DEF DrainRemoveMasked, Q!RemoveMasked, Q!DrainAt
  <2>3. drain.key \in Device \X (0 .. MaxClock)
    BY <2>2 DEF QP!QueueInv, QP!TypeInv, QP!HeldFilesStay, QP!Key
  <2>4. drain.key[1] \in Device
    BY <2>3
  <2>5. QED
    BY <1>1, <2>1, <2>4
<1>4. CASE PruneStep \/ ClockStep \/ Crash
  BY <1>4 DEF PruneStep, ClockStep, Crash, H!Next
<1>5. CASE DrainStep \/ UNCHANGED vars
  BY <1>5 DEF DrainStep, vars
<1>6. QED
  BY <1>2, <1>3, <1>4, <1>5 DEF Next

-----------------------------------------------------------------------------
(* How far a worker got with its local copies, by where it is: it has none
   before FetchConfig and the rest succeeded, and when it is done without a
   save to the queue and did not fail before, it uploaded.                  *)
CopiesFollow ==
  \A b \in Backup :
    /\ pc[b] \in {"idle", "failing"} => phase[b] = "start"
    /\ pc[b] = "done" /\ stamp[b] = NoTime => phase[b] = "start" \/ b \in rawObj

ManagerInv == QP!QueueInv /\ QP!Delivered /\ HP!KeptInv /\ CopiesFollow

LEMMA NextCopiesFollow == ManagerInv /\ [Next]_vars => CopiesFollow'
<1> SUFFICES ASSUME ManagerInv, [Next]_vars PROVE CopiesFollow'
  OBVIOUS
<1>0. /\ CopiesFollow /\ QP!Unsaved /\ QP!Uploaded /\ QP!SavingStamped
      /\ pc \in [Backup -> QP!WorkerPC] /\ stamp \in [Backup -> (0 .. MaxClock) \cup {NoTime}]
      /\ phase \in [Backup -> {"start", "latest", "named", "opened", "saved", "torn", "unsaved"}]
  BY DEF ManagerInv, QP!QueueInv, QP!TypeInv, QP!TypeOK, QP!StoredInv, HP!KeptInv, HP!HistoryInv,
         HP!NamingInv, HP!TypeOK
<1>1. ASSUME UNCHANGED <<pc, stamp, phase>>, rawObj \subseteq rawObj' PROVE CopiesFollow'
  BY <1>0, <1>1 DEF CopiesFollow
<1>2. ASSUME NEW b \in Backup, UploadBackup(b) PROVE CopiesFollow'
  <2> USE DEF Q!Goto, Q!fileVars, Q!cloudVars
  <2>1. CASE SaveLocally(b)
    <3>1. /\ UNCHANGED <<pc, stamp, rawObj>> /\ pc[b] = "collected"
          /\ \A c \in Backup \ {b} : phase'[c] = phase[c]
      BY <1>0, <2>1
      DEF SaveLocally, queueVars, H!SaveLatest, H!NameHistory, H!OpenHistory, H!SaveHistory
    <3>2. QED
      BY <1>0, <3>1 DEF CopiesFollow
  <2>2. CASE RequestUrls(b) \/ RequestUrlsFails(b)
    <3>1. /\ UNCHANGED <<phase, rawObj>> /\ pc'[b] \in {"upload", "openRaw"}
          /\ \A c \in Backup \ {b} : pc'[c] = pc[c] /\ stamp'[c] = stamp[c]
      BY <1>0, <2>2
      DEF RequestUrls, RequestUrlsFails, Q!RequestUrls, Q!RequestUrlsFails, Q!EnterSaveToQueue,
          H!PruneScan, historyVars
    <3>2. QED
      BY <1>0, <3>1 DEF CopiesFollow
  <2>3. CASE PutFiles(b)
    <3>1. /\ UNCHANGED phase /\ rawObj \subseteq rawObj' /\ pc'[b] \in {"report", "openRaw"}
          /\ \A c \in Backup \ {b} : pc'[c] = pc[c] /\ stamp'[c] = stamp[c]
      BY <1>0, <2>3 DEF PutFiles, Q!PutFiles, Q!Put, Q!EnterSaveToQueue, historyVars
    <3>2. QED
      BY <1>0, <3>1 DEF CopiesFollow
  <2>4. CASE OtherStep(b)
    <3>1. /\ UNCHANGED <<phase, stamp, rawObj>> /\ \A c \in Backup \ {b} : pc'[c] = pc[c]
      BY <1>0, <2>4
      DEF OtherStep, Q!Collect, Q!ReportFailure, Q!Report, Q!OpenRaw, Q!WriteRaw, Q!OpenMasked,
          Q!WriteMasked, historyVars
    <3>2. \/ pc[b] = "idle" /\ pc'[b] \in {"collected", "failing"}
          \/ pc[b] = "failing" /\ pc'[b] = "done"
          \/ pc[b] = "report" /\ pc'[b] = "done"
          \/ pc[b] \in QP!Saving /\ pc'[b] \notin {"idle", "failing"}
      BY <1>0, <2>4
      DEF OtherStep, Q!Collect, Q!ReportFailure, Q!Report, Q!OpenRaw, Q!WriteRaw, Q!OpenMasked,
          Q!WriteMasked, Q!AfterSave, QP!Saving
    <3>3. pc[b] \in QP!Saving => stamp[b] # NoTime
      BY <1>0, StorageAssumption DEF QP!SavingStamped
    <3>4. pc[b] = "report" /\ stamp[b] = NoTime => b \in rawObj
      BY <1>0 DEF QP!Uploaded, QP!Stored
    <3>5. QED
      BY <1>0, <3>1, <3>2, <3>3, <3>4 DEF CopiesFollow
  <2>5. QED
    BY <1>2, <2>1, <2>2, <2>3, <2>4 DEF UploadBackup
<1>3. CASE DrainStep \/ DrainRemoveMasked
  <2>1. UNCHANGED <<pc, stamp, phase>>
    BY <1>3
    DEF DrainStep, DrainRemoveMasked, historyVars, H!PruneScan, Q!ProcessQueue, Q!ScanQueue,
        Q!PickFile, Q!FinishScan, Q!ReadRaw, Q!ReadMasked, Q!DrainRequestUrls, Q!DrainPut,
        Q!DrainReport, Q!RemoveRaw, Q!RemoveMasked, Q!workerVars
  <2>2. rawObj \subseteq rawObj'
    BY <1>3
    DEF DrainStep, DrainRemoveMasked, Q!ProcessQueue, Q!ScanQueue,
        Q!PickFile, Q!FinishScan, Q!ReadRaw, Q!ReadMasked, Q!DrainRequestUrls, Q!DrainPut, Q!Put,
        Q!DrainReport, Q!RemoveRaw, Q!RemoveMasked, Q!cloudVars
  <2>3. QED
    BY <1>1, <2>1, <2>2
<1>4. CASE PruneStep \/ ClockStep \/ UNCHANGED vars
  BY <1>1, <1>4
  DEF PruneStep, ClockStep, H!PruneRemove, H!Tick, H!SetBack, queueVars, historyVars, vars
<1>5. CASE Crash
  BY <1>0, <1>5 DEF Crash, Q!Crash, Q!Ended, Q!cloudVars, H!Crash, CopiesFollow
<1>6. QED
  BY <1>2, <1>3, <1>4, <1>5 DEF Next

LEMMA ManagerAlways == Spec => []ManagerInv
<1>1. Init => ManagerInv
  <2> SUFFICES ASSUME Init PROVE ManagerInv
    OBVIOUS
  <2>1. QP!QueueInv /\ HP!KeptInv
    BY SameInit, QueueAssumptions, HistoryAssumptions, QP!InitQueueInv, HP!InitKeptInv
  <2>2. QP!Delivered
    BY SameInit DEF QP!Init, QP!Delivered
  <2>3. CopiesFollow
    BY DEF Init, Q!Init, H!Init, CopiesFollow
  <2>4. QED
    BY <2>1, <2>2, <2>3 DEF ManagerInv
<1>2. ManagerInv /\ [Next]_vars => ManagerInv'
  <2> SUFFICES ASSUME ManagerInv, [Next]_vars PROVE ManagerInv'
    OBVIOUS
  <2>1. [QP!Next]_(QP!vars) /\ [HP!Next]_(HP!historyVars)
    BY StepsOfQueue, StepsOfHistory, SameNext
    DEF ManagerInv, Q!vars, QP!vars, Q!workerVars, QP!workerVars, Q!fileVars, QP!fileVars,
        Q!cloudVars, QP!cloudVars, H!historyVars, HP!historyVars
  <2>2. QP!QueueInv' /\ QP!Delivered'
    BY <2>1, QueueAssumptions, QP!NextQueueInv, QP!NextDelivered DEF ManagerInv
  <2>3. HP!KeptInv'
    BY <2>1, HistoryAssumptions, HP!NextKeptInv DEF ManagerInv
  <2>4. QED
    BY <2>2, <2>3, NextCopiesFollow DEF ManagerInv
<1>3. QED
  BY <1>1, <1>2, PTL DEF Spec

(* StorageManager implements UploadQueue: the local copies and the prunings
   between the steps of UploadBackup and ProcessQueue never show in the queue. *)
THEOREM ImplementsQueue == Spec => Q!Spec
<1>1. Init => Q!Init
  BY DEF Init
<1>2. QED
  BY <1>1, StepsOfQueue, PTL DEF Spec, Q!Spec

(* StorageManager implements HistoryCache: the workers and ProcessQueue save
   and prune as it says, each at its own point of the upload.                *)
THEOREM ImplementsHistory == Spec => H!Spec
<1>1. Init => H!Init
  BY DEF Init
<1>2. ManagerInv => QP!QueueInv
  BY DEF ManagerInv
<1>3. QED
  BY <1>1, <1>2, ManagerAlways, StepsOfHistory, PTL DEF Spec, H!Spec

(* What StorageManager says the history no longer owes is what outdid it *)
LEMMA OutdoneIsGivenUp ==
  ASSUME NEW b \in Backup, HP!Outdone(b)
  PROVE  HistoryGaveUp(b)
<1> DEFINE Peers == {c \in Backup \ {b} : DeviceOf[c] = DeviceOf[b]
                                        /\ phase[c] \in {"opened", "torn", "saved"}}
<1>1. HP!Peers(b) = Peers
  BY DEF HP!Peers, HP!Begun
<1>2. HP!Above(b) = {c \in Peers : name[c] > name[b]}
  BY <1>1 DEF HP!Above
<1>3. \/ \E c \in Peers : name[c] = name[b]
      \/ \E limit \in Limit \ {0} : Cardinality({c \in Peers : name[c] > name[b]}) >= limit
  BY <1>1, <1>2, SameSets DEF HP!Outdone
<1>4. QED
  BY <1>3 DEF HistoryGaveUp

(* The raw configuration of a device is not lost: for any backups, devices
   and retention limits, any faults, crashes and clock changes, once
   UploadBackup is through with the history file there is a copy of it in the
   history unless that gave it up, and then one in the queue or the cloud when
   the backup ended and its save was not spoilt.                            *)
THEOREM RawCopyKept == Spec => []RawCopySurvives
<1>1. ManagerInv => RawCopySurvives
  <2> SUFFICES ASSUME ManagerInv, NEW b \in Backup, SavedLocally(b),
                      HistoryGaveUp(b) => pc[b] = "done" /\ ~ Q!Spoilt(b)
               PROVE  RawCopy(b)
    BY DEF RawCopySurvives
  <2>1. CASE ~ HistoryGaveUp(b)
    <3>1. phase[b] = "saved"
      BY <2>1 DEF SavedLocally, HistoryGaveUp
    <3>2. history[HP!PlaceOf(b)] = b
      BY <2>1, <3>1, OutdoneIsGivenUp DEF ManagerInv, HP!KeptInv, HP!SavedKept
    <3>3. HP!PlaceOf(b) \in DOMAIN history
      BY StorageAssumption
      DEF ManagerInv, HP!KeptInv, HP!HistoryInv, HP!NamingInv, HP!TypeOK, HP!PlaceOf
    <3>4. QED
      BY <3>2, <3>3 DEF RawCopy
  <2>2. CASE HistoryGaveUp(b)
    <3>1. pc[b] = "done" /\ ~ QP!Spoilt(b)
      BY <2>2 DEF Q!Spoilt, QP!Spoilt, Q!Collides, QP!Collides, Q!KeyOf, QP!KeyOf
    <3>2. CASE stamp[b] = NoTime
      BY <3>1, <3>2 DEF ManagerInv, CopiesFollow, SavedLocally, RawCopy
    <3>3. CASE stamp[b] # NoTime
      <4>1. b \in rawObj \/ rawFile[QP!KeyOf(b)] = b
        BY <3>1, <3>3, QueueAssumptions, QP!RawIsKept DEF ManagerInv
      <4>2. QP!KeyOf(b) \in DOMAIN rawFile
        BY <3>3, StorageAssumption
        DEF ManagerInv, QP!QueueInv, QP!TypeInv, QP!TypeOK, QP!Key, QP!KeyOf
      <4>3. QED
        BY <4>1, <4>2 DEF RawCopy
    <3>4. QED
      BY <3>2, <3>3
  <2>3. QED
    BY <2>1, <2>2
<1>2. QED
  BY <1>1, ManagerAlways, PTL
=============================================================================
