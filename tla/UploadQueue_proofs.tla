------------------------- MODULE UploadQueue_proofs -------------------------
(* Proofs about UploadQueue, for any backups, devices and bounds on faults
   and crashes, in three parts: types and what ProcessQueue holds; what is
   stored when it is reported; and what becomes of a queued backup, to the
   proof that UploadQueue implements OfflineBuffer.                         *)
EXTENDS UploadQueue, WellFoundedInduction, TLAPS

(* A set of naturals that is not empty has a least element *)
LEMMA LeastNat ==
  ASSUME NEW S \in SUBSET Nat, S # {}
  PROVE  \E x \in S : \A y \in S : x <= y
<1> DEFINE L == {ss \in Nat \X Nat : ss[1] < ss[2]}
<1>1. IsWellFoundedOn(L, Nat)
  BY NatLessThanWellFounded, Zenon DEF OpToRel
<1>2. PICK x \in S : \A y \in S : ~ (<<y, x>> \in L)
  BY <1>1, WFMin
<1>3. ASSUME NEW y \in S PROVE x <= y
  <2>1. ~ (<<y, x>> \in L) /\ x \in Nat /\ y \in Nat
    BY <1>2
  <2>2. ~ (y < x)
    BY <2>1
  <2>3. QED
    BY <2>1, <2>2
<1>4. QED
  BY <1>3

(* The first of a set of keys is one of them: the names of queue files are
   totally ordered, by device and then by second.                           *)
LEMMA FirstIn ==
  ASSUME NEW K \in SUBSET Key, K # {}
  PROVE  First(K) \in K
<1>1. \A k \in K : k[1] \in Nat /\ k[2] \in Nat
  BY ValuesAssumption DEF Key
<1> DEFINE D == {k[1] : k \in K}
<1>2. PICK d \in D : \A e \in D : d <= e
  <2>1. D \in SUBSET Nat /\ D # {}
    BY <1>1
  <2>2. QED
    BY <2>1, LeastNat
<1> DEFINE KD == {l \in K : l[1] = d}
<1> DEFINE T == {k[2] : k \in KD}
<1>3. PICK t \in T : \A u \in T : t <= u
  <2>1. KD # {}
    BY <1>2
  <2>2. T \in SUBSET Nat /\ T # {}
    BY <1>1, <2>1
  <2>3. QED
    BY <2>2, LeastNat
<1>4. PICK k \in KD : k[2] = t
  BY <1>3
<1>5. ASSUME NEW l \in K PROVE Before(k, l)
  <2>1. d <= l[1] /\ k[1] = d /\ k[2] \in Nat /\ l[1] \in Nat /\ d \in Nat
    BY <1>1, <1>2, <1>4
  <2>2. CASE l[1] = d
    <3>1. l[2] \in T
      BY <2>2
    <3>2. k[2] <= l[2]
      BY <1>3, <1>4, <3>1
    <3>3. QED
      BY <2>1, <2>2, <3>2 DEF Before
  <2>3. CASE l[1] # d
    BY <2>1, <2>3 DEF Before
  <2>4. QED
    BY <2>2, <2>3
<1>6. QED
  BY <1>4, <1>5 DEF First

-----------------------------------------------------------------------------
(* The inductive invariant behind type correctness.  ProcessQueue uploads the
   bytes it read, so that the cloud only holds contents of files because the
   files are still there when it reads them: no worker removes one.         *)
SavingStamped == \A b \in Backup : pc[b] \in Saving => stamp[b] \in Time
TypeInv == TypeOK /\ SavingStamped /\ HeldFilesStay

LEMMA InitTypeInv == Init => TypeInv
<1> SUFFICES ASSUME Init PROVE TypeInv
  OBVIOUS
<1>1. TypeOK
  BY BoundsAssumption DEF Init, TypeOK, NoDrain, WorkerPC, Ended, DrainPC, Key, Content
<1>2. SavingStamped
  BY DEF Init, SavingStamped, Saving
<1>3. HeldFilesStay
  BY DEF Init, HeldFilesStay, NoDrain, Holding
<1>4. QED
  BY <1>1, <1>2, <1>3 DEF TypeInv

(* A step that leaves ProcessQueue alone and takes no file away keeps what
   ProcessQueue holds.                                                      *)
LEMMA WorkersTakeNothing ==
  ASSUME HeldFilesStay, UNCHANGED drain,
         \A k \in Key : rawFile[k] # Absent => rawFile'[k] # Absent,
         \A k \in Key : maskedFile[k] # Absent => maskedFile'[k] # Absent,
         drain.todo \subseteq Key
  PROVE  HeldFilesStay'
BY DEF HeldFilesStay, Present

(* What writing to an open queue file may leave there *)
LEMMA OutcomesType ==
  ASSUME NEW file \in [Key -> Content \cup {Absent}], NEW b \in Backup, NEW at,
         KeyOf(b) \in Key, NEW c \in Outcomes(file, b, at)
  PROVE  c \in Content \cup {Absent} /\ (file[KeyOf(b)] # Absent => c # Absent)
BY ValuesAssumption DEF Outcomes, Content

LEMMA NextTypeInv == TypeInv /\ [Next]_vars => TypeInv'
<1> SUFFICES ASSUME TypeInv, [Next]_vars PROVE TypeInv'
  OBVIOUS
<1> USE DEF TypeInv
<1>0. drain.todo \subseteq Key /\ drain.pc \in DrainPC /\ drain.key \in Key \cup {NoKey}
  BY DEF TypeOK
<1>1. ASSUME NEW b \in Backup, Worker(b) PROVE TypeInv'
  <2>1. CASE Collect(b)
    <3>1. TypeOK'
      BY <2>1 DEF TypeOK, Collect, Goto, fileVars, cloudVars, WorkerPC
    <3>2. SavingStamped'
      BY <2>1 DEF TypeOK, SavingStamped, Saving, Collect, Goto
    <3>3. HeldFilesStay'
      BY <1>0, <2>1, WorkersTakeNothing DEF Collect, fileVars
    <3>4. QED
      BY <3>1, <3>2, <3>3
  <2>2. CASE ReportFailure(b)
    <3>1. TypeOK'
      BY <2>2, BoundsAssumption
      DEF TypeOK, ReportFailure, Tell, Fault, NoFault, Goto, fileVars, cloudVars, WorkerPC, Ended
    <3>2. SavingStamped'
      BY <2>2 DEF TypeOK, SavingStamped, Saving, ReportFailure, Goto
    <3>3. HeldFilesStay'
      BY <1>0, <2>2, WorkersTakeNothing DEF ReportFailure, fileVars
    <3>4. QED
      BY <3>1, <3>2, <3>3
  <2>3. CASE RequestUrls(b)
    <3>1. TypeOK'
      BY <2>3 DEF TypeOK, RequestUrls, Goto, fileVars, cloudVars, WorkerPC
    <3>2. SavingStamped'
      BY <2>3 DEF TypeOK, SavingStamped, Saving, RequestUrls, Goto
    <3>3. HeldFilesStay'
      BY <1>0, <2>3, WorkersTakeNothing DEF RequestUrls, fileVars
    <3>4. QED
      BY <3>1, <3>2, <3>3
  <2>4. CASE RequestUrlsFails(b)
    <3>1. TypeOK'
      BY <2>4, BoundsAssumption
      DEF TypeOK, RequestUrlsFails, EnterSaveToQueue, Fault, NoFault, Goto, fileVars, cloudVars,
          WorkerPC, Saving
    <3>2. SavingStamped'
      BY <2>4 DEF TypeOK, SavingStamped, Saving, RequestUrlsFails, EnterSaveToQueue, Goto
    <3>3. HeldFilesStay'
      BY <1>0, <2>4, WorkersTakeNothing DEF RequestUrlsFails, fileVars
    <3>4. QED
      BY <3>1, <3>2, <3>3
  <2>5. CASE PutFiles(b)
    <3>1. TypeOK'
      BY <2>5, BoundsAssumption
      DEF TypeOK, PutFiles, Put, EnterSaveToQueue, Fault, NoFault, Goto, fileVars, WorkerPC,
          Saving, Content
    <3>2. SavingStamped'
      BY <2>5 DEF TypeOK, SavingStamped, Saving, PutFiles, EnterSaveToQueue, Goto
    <3>3. HeldFilesStay'
      BY <1>0, <2>5, WorkersTakeNothing DEF PutFiles, fileVars
    <3>4. QED
      BY <3>1, <3>2, <3>3
  <2>6. CASE OpenRaw(b)
    <3>1. pc[b] \in Saving /\ KeyOf(b) \in Key
      BY <2>6, ValuesAssumption DEF OpenRaw, Goto, Saving, SavingStamped, KeyOf, Key, TypeOK
    <3>2. rawFile' \in [Key -> Content \cup {Absent}]
          /\ \A k \in Key : rawFile[k] # Absent => rawFile'[k] # Absent
      BY <2>6, <3>1, OutcomesType, ValuesAssumption DEF OpenRaw, Truncated, Content, TypeOK
    <3>3. TypeOK'
      BY <2>6, <3>2, BoundsAssumption
      DEF TypeOK, OpenRaw, DiskError, Fault, NoFault, Goto, cloudVars, WorkerPC, Saving
    <3>4. SavingStamped'
      BY <2>6, <3>1 DEF TypeOK, SavingStamped, Saving, OpenRaw, Goto
    <3>5. HeldFilesStay'
      BY <1>0, <2>6, <3>2, WorkersTakeNothing DEF OpenRaw
    <3>6. QED
      BY <3>3, <3>4, <3>5
  <2>7. CASE WriteRaw(b)
    <3>1. pc[b] \in Saving /\ KeyOf(b) \in Key
      BY <2>7, ValuesAssumption DEF WriteRaw, Goto, Saving, SavingStamped, KeyOf, Key, TypeOK
    <3>2. rawFile' \in [Key -> Content \cup {Absent}]
          /\ \A k \in Key : rawFile[k] # Absent => rawFile'[k] # Absent
      BY <2>7, <3>1, OutcomesType, ValuesAssumption DEF WriteRaw, Truncated, Content, TypeOK
    <3>3. TypeOK'
      BY <2>7, <3>2, BoundsAssumption
      DEF TypeOK, WriteRaw, DiskError, Fault, NoFault, Goto, cloudVars, WorkerPC, Saving
    <3>4. SavingStamped'
      BY <2>7, <3>1 DEF TypeOK, SavingStamped, Saving, WriteRaw, Goto
    <3>5. HeldFilesStay'
      BY <1>0, <2>7, <3>2, WorkersTakeNothing DEF WriteRaw
    <3>6. QED
      BY <3>3, <3>4, <3>5
  <2>8. CASE OpenMasked(b)
    <3>1. pc[b] \in Saving /\ KeyOf(b) \in Key
      BY <2>8, ValuesAssumption DEF OpenMasked, Goto, Saving, SavingStamped, KeyOf, Key, TypeOK
    <3>2. maskedFile' \in [Key -> Content \cup {Absent}]
          /\ \A k \in Key : maskedFile[k] # Absent => maskedFile'[k] # Absent
      BY <2>8, <3>1, OutcomesType, ValuesAssumption DEF OpenMasked, Truncated, Content, TypeOK
    <3>3. TypeOK'
      BY <2>8, <3>2, BoundsAssumption
      DEF TypeOK, OpenMasked, DiskError, Fault, NoFault, Goto, cloudVars, WorkerPC, Saving, AfterSave, Ended
    <3>4. SavingStamped'
      BY <2>8, <3>1 DEF TypeOK, SavingStamped, Saving, OpenMasked, Goto, AfterSave, Ended
    <3>5. HeldFilesStay'
      BY <1>0, <2>8, <3>2, WorkersTakeNothing DEF OpenMasked
    <3>6. QED
      BY <3>3, <3>4, <3>5
  <2>9. CASE WriteMasked(b)
    <3>1. pc[b] \in Saving /\ KeyOf(b) \in Key
      BY <2>9, ValuesAssumption DEF WriteMasked, Goto, Saving, SavingStamped, KeyOf, Key, TypeOK
    <3>2. maskedFile' \in [Key -> Content \cup {Absent}]
          /\ \A k \in Key : maskedFile[k] # Absent => maskedFile'[k] # Absent
      BY <2>9, <3>1, OutcomesType, ValuesAssumption DEF WriteMasked, Truncated, Content, TypeOK
    <3>3. TypeOK'
      BY <2>9, <3>2, BoundsAssumption
      DEF TypeOK, WriteMasked, DiskError, Fault, NoFault, Goto, cloudVars, WorkerPC, Saving, AfterSave, Ended
    <3>4. SavingStamped'
      BY <2>9, <3>1 DEF TypeOK, SavingStamped, Saving, WriteMasked, Goto, AfterSave, Ended
    <3>5. HeldFilesStay'
      BY <1>0, <2>9, <3>2, WorkersTakeNothing DEF WriteMasked
    <3>6. QED
      BY <3>3, <3>4, <3>5
  <2>10. CASE Report(b)
    <3>1. TypeOK'
      BY <2>10, BoundsAssumption
      DEF TypeOK, Report, Tell, Fault, NoFault, Goto, fileVars, cloudVars, WorkerPC, Ended
    <3>2. SavingStamped'
      BY <2>10 DEF TypeOK, SavingStamped, Saving, Report, Goto
    <3>3. HeldFilesStay'
      BY <1>0, <2>10, WorkersTakeNothing DEF Report, fileVars
    <3>4. QED
      BY <3>1, <3>2, <3>3
  <2>11. QED
    BY <1>1, <2>1, <2>2, <2>3, <2>4, <2>5, <2>6, <2>7, <2>8, <2>9, <2>10 DEF Worker
<1>2. ASSUME ProcessQueue PROVE TypeInv'
  <2>0. NoKey \notin Key
    BY ValuesAssumption DEF NoKey, Key
  <2> DEFINE DrainState == [pc : DrainPC, todo : SUBSET Key, key : Key \cup {NoKey},
                            raw : Content \cup {Absent}, masked : Content \cup {Absent}]
  <2> USE DEF DrainAt, DrainTo, DrainPC, Holding, Present
  <2>1. CASE ScanQueue
    <3>1. TypeOK'
      BY <2>1 DEF TypeOK, ScanQueue, NoDrain, workerVars, fileVars, cloudVars
    <3>2. SavingStamped'
      BY <2>1 DEF SavingStamped, ScanQueue, workerVars
    <3>3. HeldFilesStay'
      BY <2>0, <2>1 DEF HeldFilesStay, ScanQueue, NoDrain, fileVars
    <3>4. QED
      BY <3>1, <3>2, <3>3
  <2>2. CASE PickFile
    <3> DEFINE k == First(drain.todo)
    <3>0. k \in drain.todo /\ k \in Key
      BY <1>0, <2>2, FirstIn DEF PickFile
    <3>1. TypeOK'
      BY <2>2, <3>0 DEF TypeOK, PickFile, workerVars, fileVars, cloudVars
    <3>2. SavingStamped'
      BY <2>2 DEF SavingStamped, PickFile, workerVars
    <3>3. HeldFilesStay'
      <4>1. CASE PassedOver(k)
        BY <2>2, <3>0, <4>1 DEF TypeOK, HeldFilesStay, PickFile, fileVars
      <4>2. CASE ~ PassedOver(k)
        BY <2>2, <3>0, <4>2 DEF TypeOK, HeldFilesStay, PickFile, PassedOver, fileVars
      <4>3. QED
        BY <4>1, <4>2
    <3>4. QED
      BY <3>1, <3>2, <3>3
  <2>3. CASE FinishScan
    <3>1. TypeOK'
      BY <2>3 DEF TypeOK, FinishScan, NoDrain, workerVars, fileVars, cloudVars
    <3>2. SavingStamped'
      BY <2>3 DEF SavingStamped, FinishScan, workerVars
    <3>3. HeldFilesStay'
      BY <2>3 DEF HeldFilesStay, FinishScan, NoDrain
    <3>4. QED
      BY <3>1, <3>2, <3>3
  <2>4. CASE ReadRaw
    <3>1. TypeOK'
      BY <2>4 DEF TypeOK, ReadRaw, HeldFilesStay, workerVars, fileVars, cloudVars
    <3>2. SavingStamped'
      BY <2>4 DEF SavingStamped, ReadRaw, workerVars
    <3>3. HeldFilesStay'
      BY <2>4 DEF TypeOK, HeldFilesStay, ReadRaw, fileVars
    <3>4. QED
      BY <3>1, <3>2, <3>3
  <2>5. CASE ReadMasked
    <3>0. drain' \in DrainState /\ HeldFilesStay'
      <4>1. CASE drain' = [drain EXCEPT !.pc = "request", !.masked = maskedFile[drain.key]]
        BY <2>0, <2>5, <4>1 DEF TypeOK, HeldFilesStay, ReadMasked, fileVars
      <4>2. CASE drain' = NextFile
        BY <2>0, <2>5, <4>2 DEF TypeOK, HeldFilesStay, ReadMasked, fileVars, NextFile
      <4>3. QED
        BY <2>5, <4>1, <4>2 DEF ReadMasked
    <3>1. TypeOK'
      BY <2>5, <3>0, BoundsAssumption
      DEF TypeOK, ReadMasked, Fault, NoFault, workerVars, fileVars, cloudVars
    <3>2. SavingStamped'
      BY <2>5 DEF SavingStamped, ReadMasked, workerVars
    <3>3. QED
      BY <3>0, <3>1, <3>2
  <2>6. CASE DrainRequestUrls
    <3>0. drain' \in DrainState /\ HeldFilesStay'
      <4>1. CASE drain' = [drain EXCEPT !.pc = "put"]
        BY <2>0, <2>6, <4>1 DEF TypeOK, HeldFilesStay, DrainRequestUrls, fileVars
      <4>2. CASE drain' = NoDrain
        BY <2>0, <2>6, <4>2 DEF TypeOK, HeldFilesStay, DrainRequestUrls, fileVars, NoDrain
      <4>3. CASE drain' = NextFile
        BY <2>0, <2>6, <4>3 DEF TypeOK, HeldFilesStay, DrainRequestUrls, fileVars, NextFile
      <4>4. QED
        BY <2>6, <4>1, <4>2, <4>3 DEF DrainRequestUrls
    <3>1. TypeOK'
      BY <2>6, <3>0, BoundsAssumption
      DEF TypeOK, DrainRequestUrls, Fault, NoFault, workerVars, fileVars, cloudVars
    <3>2. SavingStamped'
      BY <2>6 DEF SavingStamped, DrainRequestUrls, workerVars
    <3>3. QED
      BY <3>0, <3>1, <3>2
  <2>7. CASE DrainPut
    <3>0. drain.raw \in Content /\ drain.masked \in Content
      BY <2>7 DEF TypeOK, HeldFilesStay, DrainPut
    <3>1. TypeOK'
      BY <2>7, <3>0, BoundsAssumption
      DEF TypeOK, DrainPut, Put, AfterPut, Fault, NoFault, workerVars, fileVars
    <3>2. SavingStamped'
      BY <2>7 DEF SavingStamped, DrainPut, workerVars
    <3>3. HeldFilesStay'
      BY <2>7 DEF TypeOK, HeldFilesStay, DrainPut, AfterPut, fileVars
    <3>4. QED
      BY <3>1, <3>2, <3>3
  <2>8. CASE DrainReport
    <3>1. TypeOK'
      BY <2>8 DEF TypeOK, DrainReport, NoDrain, HeldFilesStay, workerVars, fileVars
    <3>2. SavingStamped'
      BY <2>8 DEF SavingStamped, DrainReport, workerVars
    <3>3. HeldFilesStay'
      BY <2>8 DEF TypeOK, HeldFilesStay, DrainReport, NoDrain, fileVars
    <3>4. QED
      BY <3>1, <3>2, <3>3
  <2>9. CASE RemoveRaw
    <3>0. drain.key \in Key
      BY <2>9 DEF HeldFilesStay, RemoveRaw
    <3>1. TypeOK'
      <4>1. unremoved' \subseteq Key \X {"raw", "masked"} /\ faults' \in 0 .. MaxFaults
        BY <2>9, <3>0, BoundsAssumption DEF TypeOK, RemoveRaw, CannotRemove, Fault, NoFault
      <4>2. rawFile' \in [Key -> Content \cup {Absent}]
        BY <2>9 DEF TypeOK, RemoveRaw, Removed
      <4>3. QED
        BY <2>9, <4>1, <4>2 DEF TypeOK, RemoveRaw, workerVars
    <3>2. SavingStamped'
      BY <2>9 DEF SavingStamped, RemoveRaw, workerVars
    <3>3. HeldFilesStay'
      BY <2>9 DEF TypeOK, HeldFilesStay, RemoveRaw, Removed
    <3>4. QED
      BY <3>1, <3>2, <3>3
  <2>10. CASE RemoveMasked
    <3>1. TypeOK'
      <4>1. unremoved' \subseteq Key \X {"raw", "masked"} /\ faults' \in 0 .. MaxFaults
        BY <2>10, BoundsAssumption
        DEF TypeOK, HeldFilesStay, RemoveMasked, CannotRemove, Fault, NoFault
      <4>2. maskedFile' \in [Key -> Content \cup {Absent}]
        BY <2>10 DEF TypeOK, RemoveMasked, Removed
      <4>3. QED
        BY <2>10, <4>1, <4>2 DEF TypeOK, RemoveMasked, NextFile, workerVars
    <3>2. SavingStamped'
      BY <2>10 DEF SavingStamped, RemoveMasked, workerVars
    <3>3. HeldFilesStay'
      BY <2>0, <2>10 DEF TypeOK, HeldFilesStay, RemoveMasked, NextFile
    <3>4. QED
      BY <3>1, <3>2, <3>3
  <2>11. QED
    BY <1>2, <2>1, <2>2, <2>3, <2>4, <2>5, <2>6, <2>7, <2>8, <2>9, <2>10 DEF ProcessQueue
<1>3. CASE Crash
  <2>1. TypeOK'
    BY <1>3, BoundsAssumption
    DEF TypeOK, Crash, NoDrain, Fault, DrainPC, WorkerPC, Ended, fileVars, cloudVars
  <2>2. SavingStamped'
    BY <1>3 DEF TypeOK, SavingStamped, Crash, Saving, Ended
  <2>3. HeldFilesStay'
    BY <1>3 DEF HeldFilesStay, Crash, NoDrain, Holding
  <2>4. QED
    BY <2>1, <2>2, <2>3
<1>4. CASE UNCHANGED vars
  BY <1>4 DEF vars, workerVars, fileVars, cloudVars, TypeOK, SavingStamped, HeldFilesStay, KeyOf, Present
<1>5. QED
  BY <1>1, <1>2, <1>3, <1>4 DEF Next

(* Every variable keeps its type.  For the cloud's objects that is more than
   a check of names: ProcessQueue never sends a file it did not read.       *)
THEOREM TypeCorrect == Spec => []TypeOK
<1>1. TypeInv => TypeOK
  BY DEF TypeInv
<1>2. QED
  BY InitTypeInv, NextTypeInv, <1>1, PTL DEF Spec

(* Only ProcessQueue removes queue files, and what it has seen of them stays
   until it does.                                                           *)
THEOREM HeldFilesStayed == Spec => []HeldFilesStay
<1>1. TypeInv => HeldFilesStay
  BY DEF TypeInv
<1>2. QED
  BY InitTypeInv, NextTypeInv, <1>1, PTL DEF Spec

-----------------------------------------------------------------------------
(* What lies behind CompletedMeansStored: a worker that never entered
   saveToQueue has no bytes in the queue, and reports only after both PUTs;
   ProcessQueue adds to the cloud and takes from the queue.                 *)
BeforeSave == {"idle", "failing", "collected", "upload"}
Unsaved    == \A b \in Backup : pc[b] \in BeforeSave => stamp[b] = NoTime
Uploaded   == \A b \in Backup : pc[b] = "report" /\ stamp[b] = NoTime => Stored(b)
Told       == \A b \in Backup : report[b] = "completed" =>
                pc[b] = "done" /\ stamp[b] = NoTime /\ Stored(b)
Written    == \A b \in Backup, k \in Key :
                rawFile[k] = b \/ maskedFile[k] = b => stamp[b] # NoTime
StoredInv  == Unsaved /\ Uploaded /\ Told /\ Written

LEMMA InitStoredInv == Init => StoredInv
BY ValuesAssumption
DEF Init, StoredInv, Unsaved, Uploaded, Told, Written, BeforeSave

(* ProcessQueue leaves the workers alone and only adds to the cloud *)
LEMMA DrainKeepsStored ==
  ASSUME StoredInv, UNCHANGED workerVars,
         rawObj \subseteq rawObj', maskedObj \subseteq maskedObj',
         \A k \in Key : rawFile'[k] \in {rawFile[k], Absent},
         \A k \in Key : maskedFile'[k] \in {maskedFile[k], Absent}
  PROVE  StoredInv'
BY ValuesAssumption
DEF StoredInv, Unsaved, Uploaded, Told, Written, Stored, workerVars

(* What an open queue file may hold after a write was there or is the writer's *)
LEMMA OutcomesOwned ==
  ASSUME NEW file, NEW b \in Backup, NEW at, NEW c \in Outcomes(file, b, at)
  PROVE  c \in {b, Torn, Absent, file[KeyOf(b)]}
BY DEF Outcomes

(* A save only puts its own bytes, or a partial file, where others were *)
LEMMA SaveKeepsStored ==
  ASSUME TypeInv, StoredInv, NEW b \in Backup, pc[b] \in Saving,
         NEW to \in {"writeRaw", "openMasked", "writeMasked", "report", "done"},
         pc' = [pc EXCEPT ![b] = to],
         UNCHANGED <<stamp, report, cloudVars>>,
         \A k \in Key : rawFile'[k] \in {rawFile[k], b, Torn, Absent},
         \A k \in Key : maskedFile'[k] \in {maskedFile[k], b, Torn, Absent}
  PROVE  StoredInv'
<1>0. stamp[b] # NoTime /\ report[b] # "completed"
  BY ValuesAssumption DEF TypeInv, SavingStamped, StoredInv, Told, Saving
<1>1. Unsaved' /\ Uploaded' /\ Told'
  BY <1>0 DEF TypeInv, TypeOK, StoredInv, Unsaved, Uploaded, Told, Stored, BeforeSave, cloudVars
<1>2. Written'
  BY <1>0, ValuesAssumption DEF StoredInv, Written
<1>3. QED
  BY <1>1, <1>2 DEF StoredInv

LEMMA NextStoredInv == TypeInv /\ StoredInv /\ [Next]_vars => StoredInv'
<1> SUFFICES ASSUME TypeInv, StoredInv, [Next]_vars PROVE StoredInv'
  OBVIOUS
<1> USE DEF Goto
<1>0. TypeOK
  BY DEF TypeInv
<1>1. ASSUME NEW b \in Backup, Worker(b) PROVE StoredInv'
  <2> DEFINE Parts == /\ Unsaved' /\ Uploaded' /\ Told' /\ Written'
  <2> SUFFICES Parts
    BY DEF StoredInv
  <2> USE DEF StoredInv, Unsaved, Uploaded, Told, Written, Stored, BeforeSave
  <2>1. CASE Collect(b)
    BY <1>0, <2>1 DEF TypeOK, Collect, fileVars, cloudVars
  <2>2. CASE ReportFailure(b)
    BY <1>0, <2>2 DEF TypeOK, ReportFailure, Tell, fileVars, cloudVars
  <2>3. CASE RequestUrls(b)
    BY <1>0, <2>3 DEF TypeOK, RequestUrls, fileVars, cloudVars
  <2>4. CASE RequestUrlsFails(b)
    BY <1>0, <2>4, ValuesAssumption
    DEF TypeOK, RequestUrlsFails, EnterSaveToQueue, fileVars, cloudVars
  <2>5. CASE PutFiles(b)
    BY <1>0, <2>5, ValuesAssumption
    DEF TypeOK, PutFiles, Put, Accepted, EnterSaveToQueue, fileVars
  <2>6. CASE OpenRaw(b) \/ WriteRaw(b)
    <3>1. \A k \in Key : rawFile'[k] \in {rawFile[k], b, Torn, Absent}
      BY <1>0, <2>6, OutcomesOwned DEF TypeOK, OpenRaw, WriteRaw, Truncated
    <3>2. PICK to \in {"writeRaw", "openMasked"} : pc' = [pc EXCEPT ![b] = to]
      BY <2>6 DEF OpenRaw, WriteRaw
    <3>3. pc[b] \in Saving /\ UNCHANGED <<stamp, report, cloudVars, maskedFile>>
      BY <2>6 DEF OpenRaw, WriteRaw, Saving
    <3>4. QED
      BY <3>1, <3>2, <3>3, SaveKeepsStored
  <2>7. CASE OpenMasked(b) \/ WriteMasked(b)
    <3>1. \A k \in Key : maskedFile'[k] \in {maskedFile[k], b, Torn, Absent}
      BY <1>0, <2>7, OutcomesOwned DEF TypeOK, OpenMasked, WriteMasked, Truncated
    <3>2. PICK to \in {"writeMasked", "report", "done"} : pc' = [pc EXCEPT ![b] = to]
      BY <2>7 DEF OpenMasked, WriteMasked, AfterSave
    <3>3. pc[b] \in Saving /\ UNCHANGED <<stamp, report, cloudVars, rawFile>>
      BY <2>7 DEF OpenMasked, WriteMasked, Saving
    <3>4. QED
      BY <3>1, <3>2, <3>3, SaveKeepsStored
  <2>8. CASE Report(b)
    BY <1>0, <2>8 DEF TypeOK, Report, Tell, fileVars, cloudVars
  <2>9. QED
    BY <1>1, <2>1, <2>2, <2>3, <2>4, <2>5, <2>6, <2>7, <2>8 DEF Worker
<1>2. CASE ProcessQueue
  <2>1. UNCHANGED workerVars /\ rawObj \subseteq rawObj' /\ maskedObj \subseteq maskedObj'
    BY <1>2
    DEF ProcessQueue, ScanQueue, PickFile, FinishScan, ReadRaw, ReadMasked, DrainRequestUrls,
        DrainPut, Put, DrainReport, RemoveRaw, RemoveMasked, cloudVars
  <2>2. \A k \in Key : rawFile'[k] \in {rawFile[k], Absent}
    BY <1>0, <1>2
    DEF ProcessQueue, ScanQueue, PickFile, FinishScan, ReadRaw, ReadMasked, DrainRequestUrls,
        DrainPut, DrainReport, RemoveRaw, RemoveMasked, Removed, fileVars, TypeOK
  <2>3. \A k \in Key : maskedFile'[k] \in {maskedFile[k], Absent}
    BY <1>0, <1>2
    DEF ProcessQueue, ScanQueue, PickFile, FinishScan, ReadRaw, ReadMasked, DrainRequestUrls,
        DrainPut, DrainReport, RemoveRaw, RemoveMasked, Removed, fileVars, TypeOK
  <2>4. QED
    BY <2>1, <2>2, <2>3, DrainKeepsStored
<1>3. CASE Crash
  BY <1>0, <1>3
  DEF TypeOK, Crash, Ended, fileVars, cloudVars,
      StoredInv, Unsaved, Uploaded, Told, Written, Stored, BeforeSave
<1>4. CASE UNCHANGED vars
  BY <1>4
  DEF vars, workerVars, fileVars, cloudVars,
      StoredInv, Unsaved, Uploaded, Told, Written, Stored
<1>5. QED
  BY <1>1, <1>2, <1>3, <1>4 DEF Next

(* "completed" means stored: whatever fails and whenever the agent dies, the
   report a worker sends speaks of two objects that are in the cloud, and no
   copy of the backup is left in the queue to be uploaded again.            *)
THEOREM CompletedIsStored == Spec => []CompletedMeansStored
<1>1. StoredInv => CompletedMeansStored
  BY DEF StoredInv, Told, Written, CompletedMeansStored
<1>2. QED
  BY InitTypeInv, NextTypeInv, InitStoredInv, NextStoredInv, <1>1, PTL DEF Spec

-----------------------------------------------------------------------------
(* What becomes of a queued backup.  The argument goes by queue keys.  A
   backup whose save shares its key with no other and met no disk error is the
   only one whose bytes are ever found under that key; where its worker and
   ProcessQueue are determines which of its two files are there, and what
   ProcessQueue took away it has uploaded.                                  *)
Alone(b)    == stamp[b] # NoTime /\ ~ Collides(b)
Good(b)     == stamp[b] # NoTime /\ ~ Spoilt(b)
HasOwner(k) == \E b \in Backup : stamp[b] # NoTime /\ KeyOf(b) = k

(* Every file and every upload has the name of some save *)
Owned ==
  /\ \A k \in Key : rawFile[k] # Absent \/ maskedFile[k] # Absent => HasOwner(k)
  /\ \A p \in redelivered : HasOwner(p[1])

(* What ProcessQueue is about to remove it has uploaded and reported *)
HasMasked == {"request", "put", "completed", "failed", "removeRaw", "removeMasked"}
HasRaw    == HasMasked \cup {"readMasked"}
Recorded ==
  /\ drain.pc \in {"idle", "next"} => drain.key = NoKey
  /\ drain.pc \in {"completed", "removeRaw", "removeMasked"} =>
       drain.raw \in rawObj /\ drain.masked \in maskedObj
  /\ drain.pc \in {"removeRaw", "removeMasked"} =>
       <<drain.key, drain.raw, drain.masked>> \in redelivered

(* The two files of a backup, by where its worker is *)
FilesOf(b) ==
  LET raw == rawFile[KeyOf(b)]  masked == maskedFile[KeyOf(b)]
  IN /\ raw \in {Absent, Torn, b} /\ masked \in {Absent, Torn, b}
     /\ raw = Torn => masked = Absent /\ pc[b] \in {"writeRaw", "killed"}
     /\ pc[b] \in {"openRaw", "writeRaw", "openMasked"} => masked = Absent
     /\ pc[b] = "openRaw" => raw = Absent
     /\ pc[b] = "writeRaw" => raw = Torn
     /\ pc[b] = "openMasked" => raw = b
     /\ pc[b] = "writeMasked" => masked # b
(* What ProcessQueue has read under its key, and what it sent under it *)
DrainOf(b) ==
  drain.key = KeyOf(b) =>
    /\ drain.pc \in HasRaw => drain.raw = b
    /\ drain.pc \in HasMasked => drain.masked \in {b, Torn}
SentOf(b) == \A p \in redelivered : p[1] = KeyOf(b) => p[2] = b /\ p[3] \in {b, Torn}
(* Either it is known what happened to the files or they are in place *)
KeptOf(b) ==
  \/ pc[b] = "killed" \/ Stored(b) \/ Overtaken(b)
  \/ /\ drain.key = KeyOf(b) => drain.pc # "removeMasked"
     /\ pc[b] \in {"writeMasked", "report", "done"} => rawFile[KeyOf(b)] = b
     /\ pc[b] = "writeMasked" => maskedFile[KeyOf(b)] = Torn
     /\ pc[b] \in {"report", "done"} => maskedFile[KeyOf(b)] = b

KeyInv(b) == FilesOf(b) /\ DrainOf(b) /\ SentOf(b) /\ KeptOf(b)
LossInv   == Owned /\ Recorded /\ \A b \in Backup : Good(b) => KeyInv(b)
QueueInv  == TypeInv /\ StoredInv /\ LossInv

-----------------------------------------------------------------------------
(* Stamps are set once *)
LEMMA StampsStay ==
  ASSUME TypeInv, StoredInv, [Next]_vars
  PROVE  /\ \A b \in Backup : stamp[b] # NoTime => stamp'[b] = stamp[b]
         /\ damaged \subseteq damaged'
<1>0. TypeOK
  BY DEF TypeInv
<1>1. ASSUME NEW c \in Backup, Worker(c)
      PROVE  /\ \A b \in Backup : stamp[b] # NoTime => stamp'[b] = stamp[b]
             /\ damaged \subseteq damaged'
  <2>1. damaged \subseteq damaged'
    BY <1>1
    DEF Worker, Collect, ReportFailure, RequestUrls, RequestUrlsFails, PutFiles, OpenRaw,
        WriteRaw, OpenMasked, WriteMasked, Report, DiskError, fileVars
  <2>2. CASE RequestUrlsFails(c) \/ PutFiles(c)
    <3>1. stamp[c] = NoTime
      BY <2>2 DEF StoredInv, Unsaved, BeforeSave, RequestUrlsFails, PutFiles, Goto
    <3>2. \A b \in Backup \ {c} : stamp'[b] = stamp[b]
      BY <1>0, <2>2 DEF TypeOK, RequestUrlsFails, PutFiles, EnterSaveToQueue
    <3>3. QED
      BY <2>1, <3>1, <3>2
  <2>3. CASE ~ (RequestUrlsFails(c) \/ PutFiles(c))
    <3>1. UNCHANGED stamp
      BY <1>1, <2>3
      DEF Worker, Collect, ReportFailure, RequestUrls, OpenRaw, WriteRaw, OpenMasked,
          WriteMasked, Report
    <3>2. QED
      BY <2>1, <3>1
  <2>4. QED
    BY <2>2, <2>3
<1>2. CASE ProcessQueue \/ Crash \/ UNCHANGED vars
  BY <1>2
  DEF ProcessQueue, ScanQueue, PickFile, FinishScan, ReadRaw, ReadMasked, DrainRequestUrls,
      DrainPut, DrainReport, RemoveRaw, RemoveMasked, Crash, vars, workerVars, fileVars
<1>3. QED
  BY <1>1, <1>2 DEF Next

(* So owners stay owners, and a save that is not spoilt never was *)
LEMMA OwnersStay ==
  ASSUME TypeInv, StoredInv, [Next]_vars
  PROVE  /\ \A k : HasOwner(k) => HasOwner(k)'
         /\ \A b \in Backup : stamp[b] # NoTime => KeyOf(b)' = KeyOf(b)
         /\ \A b \in Backup : Alone(b)' /\ stamp[b] # NoTime => Alone(b)
         /\ \A b \in Backup : Good(b)' /\ stamp[b] # NoTime => Good(b)
<1>1. \A b \in Backup : stamp[b] # NoTime => stamp'[b] = stamp[b] /\ KeyOf(b)' = KeyOf(b)
  BY StampsStay DEF KeyOf
<1>2. \A k : HasOwner(k) => HasOwner(k)'
  BY <1>1 DEF HasOwner
<1>3. ASSUME NEW b \in Backup, Alone(b)', stamp[b] # NoTime PROVE Alone(b)
  BY <1>1, <1>3 DEF Alone, Collides
<1>4. ASSUME NEW b \in Backup, Good(b)', stamp[b] # NoTime PROVE Good(b)
  <2>1. b \notin damaged
    BY <1>4, StampsStay DEF Good, Spoilt
  <2>2. ~ Collides(b)
    BY <1>3, <1>4 DEF Good, Spoilt, Alone
  <2>3. QED
    BY <1>4, <2>1, <2>2 DEF Good, Spoilt
<1>5. QED
  BY <1>1, <1>2, <1>3, <1>4

(* No other save writes under the key of one that does not share it *)
LEMMA Apart ==
  ASSUME TypeInv, NEW b \in Backup, Alone(b), NEW c \in Backup, c # b, pc[c] \in Saving
  PROVE  KeyOf(c) # KeyOf(b)
BY ValuesAssumption DEF TypeInv, SavingStamped, Alone, Collides

(* A step elsewhere keeps what holds of a backup *)
LEMMA Elsewhere ==
  ASSUME NEW b \in Backup, KeyInv(b), KeyOf(b)' = KeyOf(b), pc'[b] = pc[b],
         UNCHANGED <<drain, redelivered>>,
         rawObj \subseteq rawObj', maskedObj \subseteq maskedObj',
         rawFile'[KeyOf(b)] = rawFile[KeyOf(b)],
         maskedFile'[KeyOf(b)] = maskedFile[KeyOf(b)]
  PROVE  KeyInv(b)'
BY DEF KeyInv, FilesOf, DrainOf, SentOf, KeptOf, Stored, Overtaken

(* A stamp is set by the step that enters saveToQueue *)
LEMMA EnteringStep ==
  ASSUME QueueInv, [Next]_vars, NEW b \in Backup, stamp'[b] # stamp[b]
  PROVE  /\ RequestUrlsFails(b) \/ PutFiles(b)
         /\ pc'[b] = "openRaw" /\ UNCHANGED <<fileVars, drain, redelivered>>
<1>0. TypeOK
  BY DEF QueueInv, TypeInv
<1>1. RequestUrlsFails(b) \/ PutFiles(b)
  <2>1. ASSUME NEW c \in Backup, Worker(c) PROVE RequestUrlsFails(b) \/ PutFiles(b)
    BY <1>0, <2>1
    DEF TypeOK, Worker, Collect, ReportFailure, RequestUrls, RequestUrlsFails, PutFiles,
        EnterSaveToQueue, OpenRaw, WriteRaw, OpenMasked, WriteMasked, Report
  <2>2. ~ (ProcessQueue \/ Crash \/ UNCHANGED vars)
    BY DEF ProcessQueue, ScanQueue, PickFile, FinishScan, ReadRaw, ReadMasked,
        DrainRequestUrls, DrainPut, DrainReport, RemoveRaw, RemoveMasked, Crash, vars, workerVars
  <2>3. QED
    BY <2>1, <2>2 DEF Next
<1>2. pc'[b] = "openRaw" /\ UNCHANGED <<fileVars, drain, redelivered>>
  BY <1>0, <1>1
  DEF TypeOK, RequestUrlsFails, PutFiles, EnterSaveToQueue, Goto, cloudVars
<1>3. QED
  BY <1>1, <1>2

(* A worker that enters saveToQueue finds nothing under its key, unless the
   key was taken before.                                                    *)
LEMMA EnteringFindsNothing ==
  ASSUME QueueInv, [Next]_vars, NEW b \in Backup, stamp[b] = NoTime, Alone(b)'
  PROVE  /\ pc'[b] = "openRaw" /\ UNCHANGED <<fileVars, drain, redelivered>>
         /\ rawFile[KeyOf(b)'] = Absent /\ maskedFile[KeyOf(b)'] = Absent
         /\ \A p \in redelivered : p[1] # KeyOf(b)'
         /\ drain.key # KeyOf(b)'
<1>0. TypeOK
  BY DEF QueueInv, TypeInv
<1>1. stamp'[b] # stamp[b]
  BY DEF Alone
<1>2. RequestUrlsFails(b) \/ PutFiles(b)
  BY <1>1, EnteringStep
<1>3. pc'[b] = "openRaw" /\ UNCHANGED <<fileVars, drain, redelivered>>
  BY <1>1, EnteringStep
<1>4. KeyOf(b)' \in Key
  BY <1>0, <1>2, <1>1, ValuesAssumption
  DEF TypeOK, RequestUrlsFails, PutFiles, EnterSaveToQueue, KeyOf, Key
<1>5. ~ HasOwner(KeyOf(b)')
  <2>1. SUFFICES ASSUME NEW c \in Backup, stamp[c] # NoTime, KeyOf(c) = KeyOf(b)'
                 PROVE  FALSE
    BY DEF HasOwner
  <2>2. c # b /\ stamp'[c] = stamp[c] /\ KeyOf(c)' = KeyOf(b)'
    BY <2>1, StampsStay DEF QueueInv, KeyOf
  <2>3. Collides(b)'
    BY <2>1, <2>2 DEF Collides, Alone
  <2>4. QED
    BY <2>3 DEF Alone
<1>6. rawFile[KeyOf(b)'] = Absent /\ maskedFile[KeyOf(b)'] = Absent
      /\ \A p \in redelivered : p[1] # KeyOf(b)'
  BY <1>4, <1>5 DEF QueueInv, LossInv, Owned
<1>7. drain.key # KeyOf(b)'
  <2>1. drain.pc \in {"idle", "next"} => drain.key \notin Key
    BY ValuesAssumption DEF QueueInv, LossInv, Recorded, NoKey, Key
  <2>2. drain.pc \notin {"idle", "next"} => maskedFile[drain.key] # Absent
    BY <1>0 DEF QueueInv, TypeInv, TypeOK, HeldFilesStay, Present, Holding, DrainPC
  <2>3. QED
    BY <1>4, <1>6, <2>1, <2>2
<1>8. QED
  BY <1>3, <1>6, <1>7

LEMMA EnteringIsGood ==
  ASSUME QueueInv, [Next]_vars, NEW b \in Backup, stamp[b] = NoTime, Good(b)'
  PROVE  KeyInv(b)'
<1>1. Alone(b)'
  BY DEF Good, Spoilt, Alone
<1>2. QED
  BY <1>1, EnteringFindsNothing, ValuesAssumption
  DEF KeyInv, FilesOf, DrainOf, SentOf, KeptOf, fileVars

-----------------------------------------------------------------------------
(* The worker's own steps.  While it saves, its key is not shared, so that a
   write leaves its bytes, or nothing if ProcessQueue took the file.        *)
LEMMA OwnOutcome ==
  ASSUME TypeInv, NEW b \in Backup, Good(b), pc[b] \in Saving, NEW file, NEW at \in Saving,
         file[KeyOf(b)] \in {Absent, Torn}, NEW c \in Outcomes(file, b, at)
  PROVE  /\ file[KeyOf(b)] = Absent => c = Absent
         /\ file[KeyOf(b)] = Torn => c = b
<1>1. stamp[b] \in Time
  BY DEF TypeInv, SavingStamped
<1>2. ~ Sharing(b, at)
  BY <1>1, ValuesAssumption DEF Sharing, Good, Spoilt, Collides, KeyOf
<1>3. QED
  BY <1>2, ValuesAssumption DEF Outcomes

LEMMA SavingIsGood ==
  ASSUME QueueInv, NEW b \in Backup, Good(b), Good(b)', KeyOf(b)' = KeyOf(b),
         OpenRaw(b) \/ WriteRaw(b) \/ OpenMasked(b) \/ WriteMasked(b)
  PROVE  KeyInv(b)'
<1> DEFINE k == KeyOf(b)
<1>0. TypeOK /\ KeyInv(b) /\ TypeInv
  BY DEF QueueInv, TypeInv, LossInv
<1>1. pc[b] \in Saving /\ k \in Key
  BY <1>0, ValuesAssumption
  DEF TypeInv, SavingStamped, TypeOK, OpenRaw, WriteRaw, OpenMasked, WriteMasked, Goto, Saving,
      KeyOf, Key
<1>2. b \notin damaged'
  BY DEF Good, Spoilt
<1>3. UNCHANGED <<drain, cloudVars>>
  BY DEF OpenRaw, WriteRaw, OpenMasked, WriteMasked
<1>4. DrainOf(b)' /\ SentOf(b)' /\ (Stored(b) => Stored(b)') /\ (Overtaken(b) => Overtaken(b)')
  BY <1>0, <1>3 DEF KeyInv, DrainOf, SentOf, Stored, Overtaken, cloudVars
<1>5. CASE OpenRaw(b)
  <2>1. /\ pc[b] = "openRaw" /\ pc'[b] = "writeRaw"
        /\ rawFile'[k] = Torn /\ maskedFile'[k] = maskedFile[k]
    BY <1>0, <1>1, <1>2, <1>5 DEF TypeOK, OpenRaw, Goto, DiskError, Truncated
  <2>2. FilesOf(b)'
    BY <1>0, <2>1, ValuesAssumption DEF KeyInv, FilesOf
  <2>3. KeptOf(b)'
    BY <1>0, <1>3, <1>4, <2>1, <2>2, ValuesAssumption DEF KeyInv, FilesOf, KeptOf
  <2>4. QED
    BY <1>4, <2>2, <2>3 DEF KeyInv
<1>6. CASE WriteRaw(b)
  <2>1. pc[b] = "writeRaw" /\ pc'[b] = "openMasked" /\ maskedFile'[k] = maskedFile[k]
    BY <1>0, <1>6 DEF TypeOK, WriteRaw, Goto
  <2>2. rawFile[k] = Torn
    BY <1>0, <2>1 DEF KeyInv, FilesOf
  <2>3. rawFile'[k] = b
    <3>1. PICK c \in Outcomes(rawFile, b, "writeRaw") : rawFile' = [rawFile EXCEPT ![k] = c]
      BY <1>2, <1>6 DEF WriteRaw, DiskError
    <3>2. c = b
      BY <1>0, <1>1, <2>2, <3>1, OwnOutcome DEF Saving
    <3>3. QED
      BY <1>0, <1>1, <3>1, <3>2 DEF TypeOK
  <2>4. FilesOf(b)'
    BY <1>0, <2>1, <2>3, ValuesAssumption DEF KeyInv, FilesOf
  <2>5. KeptOf(b)'
    BY <1>0, <1>3, <1>4, <2>1, <2>4, ValuesAssumption DEF KeyInv, FilesOf, KeptOf
  <2>6. QED
    BY <1>4, <2>4, <2>5 DEF KeyInv
<1>7. CASE OpenMasked(b)
  <2>1. /\ pc[b] = "openMasked" /\ pc'[b] = "writeMasked"
        /\ rawFile'[k] = rawFile[k] /\ maskedFile'[k] = Torn
    BY <1>0, <1>1, <1>2, <1>7 DEF TypeOK, OpenMasked, Goto, DiskError, Truncated
  <2>2. rawFile[k] = b
    BY <1>0, <2>1 DEF KeyInv, FilesOf
  <2>3. FilesOf(b)'
    BY <1>0, <2>1, <2>2, ValuesAssumption DEF KeyInv, FilesOf
  <2>4. drain.key = k => drain.pc # "removeMasked"
    BY <1>0, <2>1 DEF KeyInv, FilesOf, TypeInv, HeldFilesStay
  <2>5. KeptOf(b)'
    BY <1>3, <1>4, <2>1, <2>2, <2>4 DEF KeptOf
  <2>6. QED
    BY <1>4, <2>3, <2>5 DEF KeyInv
<1>8. CASE WriteMasked(b)
  <2>1. pc[b] = "writeMasked" /\ pc'[b] \in {"report", "done"} /\ rawFile'[k] = rawFile[k]
    BY <1>0, <1>8 DEF TypeOK, WriteMasked, Goto, AfterSave
  <2>2. PICK c \in Outcomes(maskedFile, b, "writeMasked") :
          maskedFile' = [maskedFile EXCEPT ![k] = c]
    BY <1>2, <1>8 DEF WriteMasked, DiskError
  <2>3. maskedFile'[k] = c /\ c \in {b, Torn, Absent}
    BY <1>0, <1>1, <2>2, OutcomesOwned DEF TypeOK, KeyInv, FilesOf
  <2>4. rawFile[k] \in {Absent, b}
    BY <1>0, <2>1 DEF KeyInv, FilesOf
  <2>5. FilesOf(b)'
    BY <2>1, <2>3, <2>4, ValuesAssumption DEF FilesOf
  <2>6. KeptOf(b)'
    <3>1. CASE Stored(b) \/ Overtaken(b)
      BY <1>4, <3>1 DEF KeptOf
    <3>2. CASE ~ (Stored(b) \/ Overtaken(b))
      <4>1. rawFile[k] = b /\ maskedFile[k] = Torn /\ (drain.key = k => drain.pc # "removeMasked")
        BY <1>0, <2>1, <3>2 DEF KeyInv, KeptOf
      <4>2. c = b
        BY <1>0, <1>1, <2>2, <4>1, OwnOutcome DEF Saving
      <4>3. QED
        BY <1>3, <2>1, <2>3, <4>1, <4>2 DEF KeptOf
    <3>3. QED
      BY <3>1, <3>2
  <2>7. QED
    BY <1>4, <2>5, <2>6 DEF KeyInv
<1>9. QED
  BY <1>5, <1>6, <1>7, <1>8

(* Another worker's step leaves the files of such a save as they are *)
LEMMA OthersLeaveFiles ==
  ASSUME QueueInv, NEW b \in Backup, Alone(b), NEW c \in Backup, c # b, Worker(c)
  PROVE  /\ rawFile'[KeyOf(b)] = rawFile[KeyOf(b)]
         /\ maskedFile'[KeyOf(b)] = maskedFile[KeyOf(b)]
<1>0. TypeOK /\ TypeInv
  BY DEF QueueInv, TypeInv
<1>1. CASE pc[c] \in Saving
  <2>1. KeyOf(c) # KeyOf(b)
    BY <1>0, <1>1, Apart
  <2>2. KeyOf(b) \in Key
    BY <1>0, ValuesAssumption DEF TypeOK, KeyOf, Key, Alone
  <2>3. \/ OpenRaw(c) \/ WriteRaw(c) \/ OpenMasked(c) \/ WriteMasked(c)
        \/ UNCHANGED fileVars
    BY DEF Worker, Collect, ReportFailure, RequestUrls, RequestUrlsFails, PutFiles, Report
  <2>4. rawFile'[KeyOf(b)] = rawFile[KeyOf(b)]
    BY <1>0, <2>1, <2>2, <2>3
    DEF TypeOK, OpenRaw, WriteRaw, OpenMasked, WriteMasked, Truncated, fileVars
  <2>5. maskedFile'[KeyOf(b)] = maskedFile[KeyOf(b)]
    BY <1>0, <2>1, <2>2, <2>3
    DEF TypeOK, OpenRaw, WriteRaw, OpenMasked, WriteMasked, Truncated, fileVars
  <2>6. QED
    BY <2>4, <2>5
<1>2. CASE pc[c] \notin Saving
  BY <1>2
  DEF Worker, Collect, ReportFailure, RequestUrls, RequestUrlsFails, PutFiles, OpenRaw,
      WriteRaw, OpenMasked, WriteMasked, Report, Goto, Saving, fileVars
<1>3. QED
  BY <1>1, <1>2

LEMMA WorkerKeepsKeys ==
  ASSUME QueueInv, [Next]_vars, NEW c \in Backup, Worker(c), NEW b \in Backup, Good(b)'
  PROVE  KeyInv(b)'
<1>0. TypeOK /\ TypeInv /\ StoredInv
  BY DEF QueueInv, TypeInv
<1>1. CASE stamp[b] = NoTime
  BY <1>1, EnteringIsGood
<1>2. CASE stamp[b] # NoTime
  <2>1. Good(b) /\ KeyOf(b)' = KeyOf(b) /\ KeyInv(b)
    BY <1>0, <1>2, OwnersStay DEF QueueInv, LossInv
  <2>2. CASE c = b
    <3>1. CASE OpenRaw(b) \/ WriteRaw(b) \/ OpenMasked(b) \/ WriteMasked(b)
      BY <2>1, <3>1, SavingIsGood
    <3>2. CASE Report(b)
      <4>1. /\ pc[b] = "report" /\ pc'[b] = "done"
            /\ UNCHANGED <<drain, redelivered, rawFile, maskedFile, rawObj, maskedObj>>
        BY <1>0, <3>2 DEF TypeOK, Report, Goto, fileVars, cloudVars
      <4>2. QED
        BY <2>1, <4>1 DEF KeyInv, FilesOf, DrainOf, SentOf, KeptOf, Stored, Overtaken
    <3>3. CASE Collect(b) \/ ReportFailure(b) \/ RequestUrls(b) \/ RequestUrlsFails(b) \/ PutFiles(b)
      <4>1. pc[b] \in BeforeSave
        BY <3>3
        DEF Collect, ReportFailure, RequestUrls, RequestUrlsFails, PutFiles, Goto, BeforeSave
      <4>2. QED
        BY <1>0, <1>2, <4>1 DEF StoredInv, Unsaved
    <3>4. QED
      BY <2>2, <3>1, <3>2, <3>3 DEF Worker
  <2>3. CASE c # b
    <3>1. pc'[b] = pc[b]
      BY <1>0, <2>3
      DEF TypeOK, Worker, Collect, ReportFailure, RequestUrls, RequestUrlsFails, PutFiles, OpenRaw,
          WriteRaw, OpenMasked, WriteMasked, Report, Goto
    <3>2. UNCHANGED <<drain, redelivered>> /\ rawObj \subseteq rawObj' /\ maskedObj \subseteq maskedObj'
      BY DEF Worker, Collect, ReportFailure, RequestUrls, RequestUrlsFails, PutFiles, Put, OpenRaw,
             WriteRaw, OpenMasked, WriteMasked, Report, cloudVars
    <3>3. rawFile'[KeyOf(b)] = rawFile[KeyOf(b)] /\ maskedFile'[KeyOf(b)] = maskedFile[KeyOf(b)]
      BY <2>1, <2>3, OthersLeaveFiles DEF Good, Spoilt, Alone
    <3>4. QED
      BY <2>1, <3>1, <3>2, <3>3, Elsewhere
  <2>4. QED
    BY <2>2, <2>3
<1>3. QED
  BY <1>1, <1>2

-----------------------------------------------------------------------------
(* ProcessQueue's steps.  It leaves the workers alone. *)
LEMMA DrainSame ==
  ASSUME ProcessQueue
  PROVE  UNCHANGED <<workerVars, damaged>>
BY DEF ProcessQueue, ScanQueue, PickFile, FinishScan, ReadRaw, ReadMasked, DrainRequestUrls,
       DrainPut, DrainReport, RemoveRaw, RemoveMasked, fileVars

(* The steps that remove nothing only have to keep what is known of drain *)
LEMMA LookingKeepsKey ==
  ASSUME NEW b \in Backup, KeyInv(b), UNCHANGED <<workerVars, rawFile, maskedFile, redelivered>>,
         rawObj \subseteq rawObj', maskedObj \subseteq maskedObj',
         DrainOf(b)', (drain.key = KeyOf(b) => drain.pc # "removeMasked")'
  PROVE  KeyInv(b)'
BY DEF KeyInv, FilesOf, SentOf, KeptOf, Stored, Overtaken, KeyOf, workerVars

LEMMA DrainKeepsKeys ==
  ASSUME QueueInv, ProcessQueue, NEW b \in Backup, Good(b)
  PROVE  KeyInv(b)'
<1> DEFINE k == KeyOf(b)
<1>0. TypeOK /\ HeldFilesStay /\ Recorded /\ KeyInv(b)
  BY DEF QueueInv, TypeInv, LossInv
<1>1. k \in Key /\ k # NoKey
  BY <1>0, ValuesAssumption DEF Good, TypeOK, KeyOf, Key, NoKey
<1>2. k' = k /\ UNCHANGED workerVars
  BY DrainSame DEF workerVars, KeyOf
<1> USE DEF DrainAt, DrainTo
<1>3. CASE ScanQueue \/ FinishScan
  <2>1. drain'.key = NoKey /\ UNCHANGED <<rawFile, maskedFile, cloudVars>>
    <3>1. CASE ScanQueue
      BY <3>1 DEF ScanQueue, NoDrain, fileVars
    <3>2. CASE FinishScan
      BY <3>2 DEF FinishScan, NoDrain, fileVars
    <3>3. QED
      BY <1>3, <3>1, <3>2
  <2>2. QED
    BY <1>0, <1>1, <1>2, <2>1, LookingKeepsKey DEF DrainOf, cloudVars
<1>4. CASE PickFile
  <2>1. drain'.key = NoKey \/ drain'.pc = "readRaw"
    BY <1>0, <1>4 DEF PickFile, Recorded, TypeOK
  <2>2. UNCHANGED <<rawFile, maskedFile, cloudVars>>
    BY <1>4 DEF PickFile, fileVars
  <2>3. QED
    BY <1>0, <1>1, <1>2, <2>1, <2>2, LookingKeepsKey DEF DrainOf, cloudVars, HasRaw, HasMasked
<1>5. CASE ReadRaw
  <2>1. /\ drain.key \in Key /\ Present(drain.key) /\ drain'.pc = "readMasked"
        /\ drain'.key = drain.key /\ drain'.raw = rawFile[drain.key]
        /\ UNCHANGED <<rawFile, maskedFile, cloudVars>>
    BY <1>0, <1>5 DEF ReadRaw, HeldFilesStay, Holding, TypeOK, fileVars
  <2>2. DrainOf(b)'
    BY <1>0, <1>2, <2>1 DEF DrainOf, KeyInv, FilesOf, Present, HasRaw, HasMasked
  <2>3. QED
    BY <1>0, <1>2, <2>1, <2>2, LookingKeepsKey DEF cloudVars
<1>6. CASE ReadMasked
  <2>1. UNCHANGED <<rawFile, maskedFile, cloudVars>>
    BY <1>6 DEF ReadMasked, fileVars
  <2>2. CASE drain' = NextFile
    BY <1>0, <1>1, <1>2, <2>1, <2>2, LookingKeepsKey DEF NextFile, TypeOK, DrainOf, cloudVars
  <2>3. CASE drain' # NextFile
    <3>1. /\ drain.key \in Key /\ Present(drain.key) /\ drain.pc = "readMasked"
          /\ drain'.pc = "request" /\ drain'.key = drain.key /\ drain'.raw = drain.raw
          /\ drain'.masked = maskedFile[drain.key]
      BY <1>0, <1>6, <2>3 DEF ReadMasked, HeldFilesStay, Holding, TypeOK
    <3>2. DrainOf(b)'
      BY <1>0, <1>2, <3>1 DEF DrainOf, KeyInv, FilesOf, Present, HasRaw, HasMasked
    <3>3. QED
      BY <1>0, <1>2, <2>1, <3>1, <3>2, LookingKeepsKey DEF cloudVars
  <2>4. QED
    BY <2>2, <2>3
<1>7. CASE DrainRequestUrls
  <2>1. UNCHANGED <<rawFile, maskedFile, cloudVars>>
    BY <1>7 DEF DrainRequestUrls, fileVars
  <2>2. \/ drain'.key = NoKey
        \/ /\ drain.pc = "request" /\ drain'.pc = "put"
           /\ drain'.key = drain.key /\ drain'.raw = drain.raw /\ drain'.masked = drain.masked
    <3>1. NoDrain.key = NoKey /\ NextFile.key = NoKey
      BY <1>0 DEF NoDrain, NextFile, TypeOK
    <3>2. drain' = [drain EXCEPT !.pc = "put"] =>
            drain'.pc = "put" /\ drain'.key = drain.key
            /\ drain'.raw = drain.raw /\ drain'.masked = drain.masked
      BY <1>0 DEF TypeOK
    <3>3. QED
      BY <1>7, <3>1, <3>2 DEF DrainRequestUrls
  <2>3. DrainOf(b)' /\ (drain'.key = k => drain'.pc # "removeMasked")
    BY <1>0, <1>1, <1>2, <2>2 DEF DrainOf, KeyInv, HasRaw, HasMasked
  <2>4. QED
    BY <1>0, <1>2, <2>1, <2>3, LookingKeepsKey DEF cloudVars
<1>8. CASE DrainPut
  <2>1. /\ UNCHANGED <<rawFile, maskedFile, redelivered>>
        /\ rawObj \subseteq rawObj' /\ maskedObj \subseteq maskedObj'
    BY <1>8 DEF DrainPut, Put, fileVars
  <2>2. /\ drain.pc = "put" /\ drain'.pc \in {"completed", "failed"}
        /\ drain'.key = drain.key /\ drain'.raw = drain.raw /\ drain'.masked = drain.masked
    BY <1>0, <1>8 DEF DrainPut, AfterPut, TypeOK
  <2>3. DrainOf(b)'
    BY <1>0, <1>2, <2>2 DEF DrainOf, KeyInv, HasRaw, HasMasked
  <2>4. QED
    BY <1>0, <1>2, <2>1, <2>2, <2>3, LookingKeepsKey
<1>9. CASE DrainReport
  <2>1. UNCHANGED <<rawFile, maskedFile, rawObj, maskedObj>>
    BY <1>9 DEF DrainReport, fileVars
  <2>2. CASE drain' = NoDrain
    <3>1. UNCHANGED redelivered
      BY <1>0, <1>9, <2>2 DEF DrainReport, NoDrain, TypeOK
    <3>2. QED
      BY <1>0, <1>1, <1>2, <2>1, <2>2, <3>1, LookingKeepsKey DEF NoDrain, DrainOf
  <2>3. CASE drain' # NoDrain
    <3>1. /\ drain.pc = "completed" /\ drain'.pc = "removeRaw"
          /\ drain'.key = drain.key /\ drain'.raw = drain.raw /\ drain'.masked = drain.masked
          /\ redelivered' = redelivered \cup {<<drain.key, drain.raw, drain.masked>>}
      BY <1>0, <1>9, <2>3 DEF DrainReport, TypeOK
    <3>2. DrainOf(b)' /\ SentOf(b)'
      BY <1>0, <1>2, <3>1 DEF DrainOf, SentOf, KeyInv, HasRaw, HasMasked
    <3>3. FilesOf(b)'
      BY <1>0, <1>2, <2>1 DEF KeyInv, FilesOf, workerVars
    <3>4. KeptOf(b)'
      BY <1>0, <1>2, <2>1, <3>1 DEF KeyInv, KeptOf, Stored, Overtaken, workerVars
    <3>5. QED
      BY <3>2, <3>3, <3>4 DEF KeyInv
  <2>4. QED
    BY <2>2, <2>3
<1>10. CASE RemoveRaw
  <2>1. /\ drain.pc = "removeRaw" /\ drain.key \in Key /\ Present(drain.key)
        /\ drain'.pc = "removeMasked" /\ drain'.key = drain.key
        /\ drain'.raw = drain.raw /\ drain'.masked = drain.masked
        /\ UNCHANGED <<maskedFile, rawObj, maskedObj, redelivered>>
    BY <1>0, <1>10 DEF RemoveRaw, HeldFilesStay, Holding, TypeOK
  <2>2. \/ rawFile'[k] = rawFile[k]
        \/ drain.key = k /\ rawFile'[k] = Absent
    BY <1>0, <1>1, <1>10 DEF RemoveRaw, Removed, TypeOK
  <2>3. DrainOf(b)' /\ SentOf(b)'
    BY <1>0, <1>2, <2>1 DEF DrainOf, SentOf, KeyInv, HasRaw, HasMasked
  <2>4. FilesOf(b)'
    <3>1. pc' = pc /\ FilesOf(b) /\ maskedFile'[k] = maskedFile[k]
      BY <1>0, <1>2, <2>1 DEF KeyInv, workerVars
    <3>2. CASE rawFile'[k] # rawFile[k]
      <4>1. maskedFile[k] # Absent /\ rawFile'[k] = Absent
        BY <2>1, <2>2, <3>2 DEF Present
      <4>2. pc[b] \notin {"openRaw", "writeRaw", "openMasked"}
        BY <3>1, <4>1 DEF FilesOf
      <4>3. QED
        BY <1>2, <3>1, <4>1, <4>2, ValuesAssumption DEF FilesOf
    <3>3. CASE rawFile'[k] = rawFile[k]
      BY <1>2, <3>1, <3>3 DEF FilesOf
    <3>4. QED
      BY <3>2, <3>3
  <2>5. KeptOf(b)'
    <3>1. CASE drain.key = k
      <4>1. <<k, b, drain.masked>> \in redelivered /\ drain.masked \in {b, Torn}
            /\ b \in rawObj /\ drain.masked \in maskedObj
        BY <1>0, <2>1, <3>1 DEF KeyInv, DrainOf, HasRaw, HasMasked, Recorded
      <4>2. Stored(b) \/ Overtaken(b)
        BY <4>1 DEF Stored, Overtaken
      <4>3. QED
        BY <1>2, <2>1, <4>2 DEF KeptOf, Stored, Overtaken
    <3>2. CASE drain.key # k
      BY <1>0, <1>2, <2>1, <2>2, <3>2 DEF KeyInv, KeptOf, Stored, Overtaken, workerVars
    <3>3. QED
      BY <3>1, <3>2
  <2>6. QED
    BY <2>3, <2>4, <2>5 DEF KeyInv
<1>11. CASE RemoveMasked
  <2>1. /\ drain.pc = "removeMasked" /\ drain.key \in Key /\ drain'.key = NoKey
        /\ UNCHANGED <<rawFile, rawObj, maskedObj, redelivered>>
    BY <1>0, <1>11 DEF RemoveMasked, HeldFilesStay, NextFile, TypeOK
  <2>2. \/ maskedFile'[k] = maskedFile[k]
        \/ drain.key = k /\ maskedFile'[k] = Absent
    BY <1>0, <1>1, <1>11 DEF RemoveMasked, Removed, TypeOK
  <2>3. DrainOf(b)' /\ SentOf(b)'
    BY <1>0, <1>1, <1>2, <2>1 DEF DrainOf, SentOf, KeyInv
  <2>4. FilesOf(b)'
    BY <1>0, <1>2, <2>1, <2>2, ValuesAssumption DEF KeyInv, FilesOf, workerVars
  <2>5. KeptOf(b)'
    BY <1>0, <1>1, <1>2, <2>1, <2>2 DEF KeyInv, KeptOf, Stored, Overtaken, workerVars
  <2>6. QED
    BY <2>3, <2>4, <2>5 DEF KeyInv
<1>12. QED
  BY <1>3, <1>4, <1>5, <1>6, <1>7, <1>8, <1>9, <1>10, <1>11 DEF ProcessQueue

-----------------------------------------------------------------------------
(* Every step keeps the three parts *)
LEMMA NextOwned == QueueInv /\ [Next]_vars => Owned'
<1> SUFFICES ASSUME QueueInv, [Next]_vars PROVE Owned'
  OBVIOUS
<1>0. TypeOK /\ TypeInv /\ StoredInv /\ Owned /\ HeldFilesStay
  BY DEF QueueInv, TypeInv, LossInv
<1>1. ASSUME NEW k, HasOwner(k) PROVE HasOwner(k)'
  BY <1>0, <1>1, OwnersStay
<1>2. ASSUME NEW c \in Backup, Worker(c) PROVE Owned'
  <2>1. UNCHANGED redelivered
    BY <1>2
    DEF Worker, Collect, ReportFailure, RequestUrls, RequestUrlsFails, PutFiles, OpenRaw,
        WriteRaw, OpenMasked, WriteMasked, Report, cloudVars
  <2>2. \/ OpenRaw(c) \/ WriteRaw(c) \/ OpenMasked(c) \/ WriteMasked(c)
        \/ UNCHANGED fileVars
    BY <1>2 DEF Worker, Collect, ReportFailure, RequestUrls, RequestUrlsFails, PutFiles, Report
  <2>3. CASE OpenRaw(c) \/ WriteRaw(c) \/ OpenMasked(c) \/ WriteMasked(c)
    <3>1. HasOwner(KeyOf(c))
      BY <1>0, <2>3, ValuesAssumption
      DEF TypeInv, SavingStamped, Saving, HasOwner, OpenRaw, WriteRaw, OpenMasked, WriteMasked, Goto
    <3>2. \A k \in Key : k # KeyOf(c) => rawFile'[k] = rawFile[k]
      BY <1>0, <2>3 DEF TypeOK, OpenRaw, WriteRaw, OpenMasked, WriteMasked, Truncated
    <3>3. \A k \in Key : k # KeyOf(c) => maskedFile'[k] = maskedFile[k]
      BY <1>0, <2>3 DEF TypeOK, OpenRaw, WriteRaw, OpenMasked, WriteMasked, Truncated
    <3>4. QED
      BY <1>0, <1>1, <2>1, <3>1, <3>2, <3>3 DEF Owned
  <2>4. CASE UNCHANGED fileVars
    BY <1>0, <1>1, <2>1, <2>4 DEF Owned, fileVars
  <2>5. QED
    BY <2>2, <2>3, <2>4
<1>3. CASE ProcessQueue
  <2>1. /\ \A k \in Key : rawFile'[k] \in {rawFile[k], Absent}
        /\ \A k \in Key : maskedFile'[k] \in {maskedFile[k], Absent}
    BY <1>0, <1>3
    DEF ProcessQueue, ScanQueue, PickFile, FinishScan, ReadRaw, ReadMasked, DrainRequestUrls,
        DrainPut, DrainReport, RemoveRaw, RemoveMasked, Removed, fileVars, TypeOK
  <2>2. \A p \in redelivered' : p \in redelivered \/ HasOwner(p[1])
    <3>1. CASE UNCHANGED redelivered
      BY <3>1
    <3>2. CASE ~ UNCHANGED redelivered
      <4>1. /\ drain.pc = "completed"
            /\ redelivered' = redelivered \cup {<<drain.key, drain.raw, drain.masked>>}
        BY <1>3, <3>2
        DEF ProcessQueue, ScanQueue, PickFile, FinishScan, ReadRaw, ReadMasked, DrainRequestUrls,
            DrainPut, DrainReport, DrainAt, RemoveRaw, RemoveMasked, cloudVars
      <4>2. HasOwner(drain.key)
        BY <1>0, <4>1 DEF HeldFilesStay, Holding, Present, Owned
      <4>3. QED
        BY <4>1, <4>2
    <3>3. QED
      BY <3>1, <3>2
  <2>3. QED
    BY <1>0, <1>1, <2>1, <2>2 DEF Owned
<1>4. CASE Crash \/ UNCHANGED vars
  BY <1>0, <1>1, <1>4 DEF Owned, Crash, vars, fileVars, cloudVars
<1>5. QED
  BY <1>2, <1>3, <1>4 DEF Next

LEMMA NextRecorded == QueueInv /\ [Next]_vars => Recorded'
<1> SUFFICES ASSUME QueueInv, [Next]_vars PROVE Recorded'
  OBVIOUS
<1>0. TypeOK /\ Recorded
  BY DEF QueueInv, TypeInv, LossInv
<1>1. ASSUME NEW c \in Backup, Worker(c) PROVE Recorded'
  <2>1. UNCHANGED <<drain, redelivered>> /\ rawObj \subseteq rawObj' /\ maskedObj \subseteq maskedObj'
    BY <1>1
    DEF Worker, Collect, ReportFailure, RequestUrls, RequestUrlsFails, PutFiles, Put, OpenRaw,
        WriteRaw, OpenMasked, WriteMasked, Report, cloudVars
  <2>2. QED
    BY <1>0, <2>1 DEF Recorded
<1> USE DEF DrainAt, DrainTo
<1>2. CASE ScanQueue \/ PickFile \/ FinishScan
  <2>1. /\ drain'.pc = "readRaw" \/ (drain'.pc \in {"idle", "next"} /\ drain'.key = NoKey)
        /\ UNCHANGED cloudVars
    <3>1. CASE ScanQueue
      BY <3>1 DEF ScanQueue, NoDrain
    <3>2. CASE PickFile
      BY <1>0, <3>2 DEF PickFile, Recorded, TypeOK
    <3>3. CASE FinishScan
      BY <3>3 DEF FinishScan, NoDrain
    <3>4. QED
      BY <1>2, <3>1, <3>2, <3>3
  <2>2. QED
    BY <2>1 DEF Recorded
<1>3. CASE ReadRaw \/ ReadMasked
  BY <1>0, <1>3 DEF ReadRaw, ReadMasked, NextFile, Recorded, TypeOK, cloudVars
<1>4. CASE DrainRequestUrls
  <2>1. /\ NoDrain.pc = "idle" /\ NoDrain.key = NoKey
        /\ NextFile.pc = "next" /\ NextFile.key = NoKey
    BY <1>0 DEF NoDrain, NextFile, TypeOK
  <2>2. [drain EXCEPT !.pc = "put"].pc = "put"
    BY <1>0 DEF TypeOK
  <2>3. drain'.pc = "put" \/ (drain'.pc \in {"idle", "next"} /\ drain'.key = NoKey)
    BY <1>4, <2>1, <2>2 DEF DrainRequestUrls
  <2>4. QED
    BY <2>3 DEF Recorded
<1>5. CASE DrainPut
  <2>1. PICK okRaw, okMasked \in BOOLEAN :
          /\ Put(drain.raw, drain.masked, okRaw, okMasked)
          /\ drain' = [drain EXCEPT !.pc = AfterPut(Accepted(okRaw, okMasked))]
    BY <1>5 DEF DrainPut
  <2>2. CASE okRaw /\ okMasked
    BY <1>0, <2>1, <2>2 DEF Put, Recorded, AfterPut, TypeOK
  <2>3. CASE ~ (okRaw /\ okMasked)
    BY <1>0, <2>1, <2>3 DEF AfterPut, Accepted, Recorded, TypeOK
  <2>4. QED
    BY <2>2, <2>3
<1>6. CASE DrainReport
  BY <1>0, <1>6 DEF DrainReport, NoDrain, Recorded, TypeOK
<1>7. CASE RemoveRaw \/ RemoveMasked
  BY <1>0, <1>7 DEF RemoveRaw, RemoveMasked, NextFile, Recorded, TypeOK, cloudVars
<1>8. CASE Crash \/ UNCHANGED vars
  BY <1>0, <1>8 DEF Crash, NoDrain, Recorded, vars, cloudVars
<1>9. QED
  BY <1>1, <1>2, <1>3, <1>4, <1>5, <1>6, <1>7, <1>8 DEF Next, ProcessQueue

LEMMA NextKeyInv ==
  ASSUME QueueInv, [Next]_vars, NEW b \in Backup, Good(b)'
  PROVE  KeyInv(b)'
<1>0. TypeOK /\ LossInv
  BY DEF QueueInv, TypeInv
<1>1. ASSUME NEW c \in Backup, Worker(c) PROVE KeyInv(b)'
  BY <1>1, WorkerKeepsKeys
<1>2. CASE ProcessQueue \/ Crash \/ UNCHANGED vars
  <2>1. UNCHANGED <<stamp, damaged>>
    BY <1>2, DrainSame DEF Crash, vars, workerVars, fileVars
  <2>2. Good(b) /\ KeyOf(b)' = KeyOf(b) /\ KeyInv(b)
    BY <1>0, <2>1 DEF Good, Spoilt, Collides, KeyOf, LossInv
  <2>3. CASE ProcessQueue
    BY <2>2, <2>3, DrainKeepsKeys
  <2>4. CASE Crash
    <3>1. pc'[b] \in {pc[b], "killed"}
      BY <2>4 DEF Crash
    <3>2. KeyOf(b) # NoKey
      BY <1>0, <2>2, ValuesAssumption DEF Good, TypeOK, KeyOf, NoKey
    <3>3. drain' = NoDrain /\ UNCHANGED <<fileVars, cloudVars>>
      BY <2>4 DEF Crash
    <3>4. FilesOf(b)'
      BY <2>2, <3>1, <3>3 DEF KeyInv, FilesOf, fileVars
    <3>5. DrainOf(b)' /\ SentOf(b)'
      BY <2>2, <3>2, <3>3 DEF KeyInv, DrainOf, SentOf, NoDrain, cloudVars
    <3>6. KeptOf(b)'
      BY <2>2, <3>1, <3>2, <3>3
      DEF KeyInv, KeptOf, Stored, Overtaken, NoDrain, fileVars, cloudVars
    <3>7. QED
      BY <3>4, <3>5, <3>6 DEF KeyInv
  <2>5. CASE UNCHANGED vars
    BY <2>2, <2>5
    DEF vars, workerVars, fileVars, cloudVars, KeyInv, FilesOf, DrainOf, SentOf, KeptOf, Stored,
        Overtaken
  <2>6. QED
    BY <1>2, <2>3, <2>4, <2>5
<1>3. QED
  BY <1>1, <1>2 DEF Next

LEMMA InitQueueInv == Init => QueueInv
<1> SUFFICES ASSUME Init PROVE QueueInv
  OBVIOUS
<1>1. Owned /\ Recorded /\ \A b \in Backup : ~ Good(b)
  BY DEF Init, Owned, Recorded, NoDrain, Good
<1>2. QED
  BY <1>1, InitTypeInv, InitStoredInv DEF QueueInv, LossInv

LEMMA NextQueueInv == QueueInv /\ [Next]_vars => QueueInv'
<1> SUFFICES ASSUME QueueInv, [Next]_vars PROVE QueueInv'
  OBVIOUS
<1>1. TypeInv' /\ StoredInv'
  BY NextTypeInv, NextStoredInv DEF QueueInv
<1>2. LossInv'
  BY NextOwned, NextRecorded, NextKeyInv DEF LossInv
<1>3. QED
  BY <1>1, <1>2 DEF QueueInv

(* No queued backup is lost but in the ways the code leaves open: for every
   set of backups, whatever requests, writes and removals fail and however
   often the agent is killed, a backup whose goroutine has been through
   saveToQueue is whole in the queue or whole in the cloud, unless another
   save took the same second, the disk failed, or ProcessQueue overtook it. *)
THEOREM LossesKnown == Spec => []LossesAreKnown
<1>1. QueueInv => LossesAreKnown
  BY DEF QueueInv, LossInv, Good, KeyInv, KeptOf, LossesAreKnown, QueuedWhole
<1>2. QED
  BY InitQueueInv, NextQueueInv, <1>1, PTL DEF Spec

-----------------------------------------------------------------------------
(* What ProcessQueue reported as completed, it put in the cloud: nothing takes
   an object away.                                                          *)
Delivered == \A p \in redelivered : p[2] \in rawObj /\ p[3] \in maskedObj

LEMMA NextDelivered == QueueInv /\ Delivered /\ [Next]_vars => Delivered'
<1> SUFFICES ASSUME QueueInv, Delivered, [Next]_vars PROVE Delivered'
  OBVIOUS
<1>1. ASSUME rawObj \subseteq rawObj', maskedObj \subseteq maskedObj', UNCHANGED redelivered
      PROVE  Delivered'
  BY <1>1 DEF Delivered
<1>2. ASSUME NEW b \in Backup, Worker(b) PROVE Delivered'
  BY <1>1, <1>2
  DEF Worker, Collect, ReportFailure, RequestUrls, RequestUrlsFails, PutFiles, Put, OpenRaw,
      WriteRaw, OpenMasked, WriteMasked, Report, cloudVars
<1>3. CASE DrainPut
  BY <1>1, <1>3 DEF DrainPut, Put
<1>4. CASE DrainReport
  <2>1. CASE DrainAt("completed")
    <3>1. drain.raw \in rawObj /\ drain.masked \in maskedObj
      BY <2>1 DEF QueueInv, LossInv, Recorded, DrainAt
    <3>2. /\ redelivered' \subseteq redelivered \cup {<<drain.key, drain.raw, drain.masked>>}
          /\ UNCHANGED <<rawObj, maskedObj>>
      BY <1>4 DEF DrainReport
    <3>3. QED
      BY <3>1, <3>2 DEF Delivered
  <2>2. CASE ~ DrainAt("completed")
    BY <1>1, <1>4, <2>2 DEF DrainReport
  <2>3. QED
    BY <2>1, <2>2
<1>5. CASE \/ ScanQueue \/ PickFile \/ FinishScan \/ ReadRaw \/ ReadMasked
           \/ DrainRequestUrls \/ RemoveRaw \/ RemoveMasked \/ Crash \/ UNCHANGED vars
  <2>1. UNCHANGED <<rawObj, maskedObj, redelivered>>
    BY <1>5
    DEF ScanQueue, PickFile, FinishScan, ReadRaw, ReadMasked, DrainRequestUrls, RemoveRaw,
        RemoveMasked, Crash, vars, cloudVars
  <2>2. QED
    BY <1>1, <2>1
<1>6. QED
  BY <1>2, <1>3, <1>4, <1>5 DEF Next, ProcessQueue

(* The raw half of a queued backup is not lost even when ProcessQueue took
   the masked file unfinished.                                              *)
LEMMA RawIsKept ==
  ASSUME QueueInv, Delivered, NEW b \in Backup,
         pc[b] = "done", stamp[b] # NoTime, ~ Spoilt(b)
  PROVE  b \in rawObj \/ rawFile[KeyOf(b)] = b
<1>1. QueuedWhole(b) \/ Stored(b) \/ Overtaken(b)
  BY DEF QueueInv, LossInv, Good, KeyInv, KeptOf, QueuedWhole
<1>2. Overtaken(b) => b \in rawObj
  BY DEF Overtaken, Delivered
<1>3. QED
  BY <1>1, <1>2 DEF QueuedWhole, Stored

(* What ProcessQueue reports as one completed backup are the two halves of
   one backup, the one the file names belong to, or a half of it alone when
   the save was caught before it was over.                                  *)
THEOREM RedeliveredWhole == Spec => []RedeliveredTogether
<1>1. QueueInv => RedeliveredTogether
  <2> SUFFICES ASSUME QueueInv, NEW p \in redelivered, ~ SpoiltAt(p[1])
               PROVE  p[2] \in Backup /\ KeyOf(p[2]) = p[1] /\ p[3] \in {p[2], Torn}
    BY DEF RedeliveredTogether
  <2>1. PICK b \in Backup : stamp[b] # NoTime /\ KeyOf(b) = p[1]
    BY DEF QueueInv, LossInv, Owned, HasOwner
  <2>2. Good(b)
    BY <2>1 DEF Good, SpoiltAt
  <2>3. QED
    BY <2>1, <2>2 DEF QueueInv, LossInv, KeyInv, SentOf
<1>2. QED
  BY InitQueueInv, NextQueueInv, <1>1, PTL DEF Spec

-----------------------------------------------------------------------------
(* UploadQueue implements OfflineBuffer.  What a step does for one backup: *)
ToldOf(b)    == pc[b] = "done" /\ stamp[b] # NoTime
ExcusedOf(b) == Overtaken(b) \/ Spoilt(b)

(* What was told, stored or excused stays so *)
LEMMA PromiseGrows ==
  ASSUME QueueInv, [Next]_vars, NEW b \in Backup
  PROVE  /\ ToldOf(b) => ToldOf(b)'
         /\ Stored(b) => Stored(b)'
         /\ ExcusedOf(b) => ExcusedOf(b)'
<1>0. TypeOK /\ TypeInv /\ StoredInv
  BY DEF QueueInv, TypeInv
<1>1. rawObj \subseteq rawObj' /\ maskedObj \subseteq maskedObj' /\ redelivered \subseteq redelivered'
  <2>1. ASSUME NEW c \in Backup, Worker(c)
        PROVE  rawObj \subseteq rawObj' /\ maskedObj \subseteq maskedObj' /\ UNCHANGED redelivered
    BY <2>1 DEF Worker, Collect, ReportFailure, RequestUrls, RequestUrlsFails, PutFiles, Put,
      OpenRaw, WriteRaw, OpenMasked, WriteMasked, Report, cloudVars
  <2>2. CASE ProcessQueue
    BY <2>2 DEF ProcessQueue, ScanQueue, PickFile, FinishScan, ReadRaw, ReadMasked,
      DrainRequestUrls, DrainPut, Put, DrainReport, RemoveRaw, RemoveMasked, cloudVars
  <2>3. CASE Crash \/ UNCHANGED vars
    BY <2>3 DEF Crash, vars, cloudVars
  <2>4. QED
    BY <2>1, <2>2, <2>3 DEF Next
<1>2. pc[b] = "done" => pc'[b] = "done"
  <2>1. ASSUME NEW c \in Backup, Worker(c), pc[b] = "done" PROVE pc'[b] = "done"
    BY <1>0, <2>1 DEF TypeOK, Worker, Collect, ReportFailure, RequestUrls, RequestUrlsFails,
      PutFiles, OpenRaw, WriteRaw, OpenMasked, WriteMasked, Report, Goto
  <2>2. CASE ProcessQueue
    BY <2>2, DrainSame DEF workerVars
  <2>3. CASE Crash \/ UNCHANGED vars
    BY <2>3 DEF Crash, Ended, vars, workerVars
  <2>4. QED
    BY <2>1, <2>2, <2>3 DEF Next
<1>3. ToldOf(b) => ToldOf(b)'
  BY <1>0, <1>2, StampsStay DEF ToldOf
<1>4. Overtaken(b) => Overtaken(b)'
  <2>1. Overtaken(b) => KeyOf(b) \in Key
    BY <1>0 DEF Overtaken, TypeOK
  <2>2. KeyOf(b) \in Key => stamp[b] # NoTime
    BY ValuesAssumption DEF KeyOf, Key
  <2>3. QED
    BY <1>0, <1>1, <2>1, <2>2, OwnersStay DEF Overtaken
<1>5. Spoilt(b) => Spoilt(b)'
  <2>1. b \in damaged => b \in damaged'
    BY <1>0, StampsStay
  <2>2. Collides(b) => Collides(b)'
    BY <1>0, StampsStay DEF Collides, KeyOf
  <2>3. QED
    BY <2>1, <2>2 DEF Spoilt
<1>6. QED
  BY <1>1, <1>3, <1>4, <1>5 DEF Stored, ExcusedOf

(* What a step may do for a backup that is not excused; Promise!Next says the
   same of its variables.                                                   *)
Same(b) == /\ QueuedWhole(b)' <=> QueuedWhole(b)
           /\ Stored(b)' <=> Stored(b)
           /\ ToldOf(b)' <=> ToldOf(b)
Accepts(b) == ~ ToldOf(b) /\ ~ QueuedWhole(b) /\ QueuedWhole(b)' /\ (Stored(b)' <=> Stored(b))
Tells(b) == /\ ~ ToldOf(b) /\ ToldOf(b)' /\ (QueuedWhole(b) \/ Stored(b))
            /\ (QueuedWhole(b)' <=> QueuedWhole(b)) /\ (Stored(b)' <=> Stored(b))
Uploads(b) == /\ ~ Stored(b) /\ Stored(b)' /\ (ToldOf(b) => QueuedWhole(b))
              /\ (QueuedWhole(b)' <=> QueuedWhole(b)) /\ (ToldOf(b)' <=> ToldOf(b))
Takes(b) == /\ QueuedWhole(b) /\ ~ QueuedWhole(b)' /\ Stored(b)
            /\ (Stored(b)' <=> Stored(b)) /\ (ToldOf(b)' <=> ToldOf(b))
Promised(b) == Same(b) \/ Accepts(b) \/ Tells(b) \/ Uploads(b) \/ Takes(b)

(* A told backup is where its promise says *)
LEMMA ToldIsKept ==
  ASSUME QueueInv, NEW b \in Backup, ToldOf(b), ~ ExcusedOf(b)
  PROVE  QueuedWhole(b) \/ Stored(b)
BY DEF QueueInv, LossInv, ToldOf, ExcusedOf, Good, KeyInv, KeptOf, QueuedWhole

(* Until saveToQueue is entered, and when it is, nothing is in the queue *)
LEMMA PromisedBeforeSave ==
  ASSUME QueueInv, QueueInv', [Next]_vars, NEW b \in Backup, stamp[b] = NoTime,
         ~ ExcusedOf(b)'
  PROVE  Promised(b)
<1>1. ~ QueuedWhole(b) /\ ~ ToldOf(b) /\ (Stored(b) => Stored(b)')
  BY PromiseGrows DEF QueuedWhole, ToldOf
<1>2. ~ QueuedWhole(b)' /\ ~ ToldOf(b)'
  <2>1. CASE stamp'[b] = NoTime
    BY <2>1 DEF QueuedWhole, ToldOf
  <2>2. CASE stamp'[b] # NoTime
    <3>1. pc'[b] = "openRaw"
      BY <2>2, EnteringStep
    <3>2. KeyInv(b)'
      BY <2>2 DEF QueueInv, LossInv, Good, ExcusedOf
    <3>3. QED
      BY <3>1, <3>2, ValuesAssumption DEF KeyInv, FilesOf, QueuedWhole, ToldOf
  <2>3. QED
    BY <2>1, <2>2
<1>3. QED
  BY <1>1, <1>2 DEF Promised, Same, Uploads

(* The worker's own save: its files become whole with the last write *)
LEMMA PromisedBySave ==
  ASSUME QueueInv, QueueInv', NEW b \in Backup, Good(b), ~ ExcusedOf(b)', KeyOf(b)' = KeyOf(b),
         UNCHANGED stamp,
         OpenRaw(b) \/ WriteRaw(b) \/ OpenMasked(b) \/ WriteMasked(b) \/ Report(b)
  PROVE  Promised(b)
<1> DEFINE k == KeyOf(b)
<1>0. TypeOK /\ TypeInv /\ KeyInv(b) /\ b \notin damaged'
  BY DEF QueueInv, TypeInv, LossInv, ExcusedOf, Spoilt
<1>1. Stored(b)' <=> Stored(b)
  BY DEF OpenRaw, WriteRaw, OpenMasked, WriteMasked, Report, cloudVars, Stored
<1>2. k \in Key
  BY <1>0, ValuesAssumption DEF TypeOK, Good, KeyOf, Key
<1>3. pc[b] # "done" /\ ~ ToldOf(b)
  BY DEF OpenRaw, WriteRaw, OpenMasked, WriteMasked, Report, Goto, ToldOf
<1>4. CASE OpenRaw(b) \/ WriteRaw(b) \/ OpenMasked(b)
  <2>1. pc'[b] \in {"writeRaw", "openMasked", "writeMasked"}
    BY <1>0, <1>4 DEF TypeOK, OpenRaw, WriteRaw, OpenMasked, Goto, DiskError
  <2>2. maskedFile[k] = Absent
    BY <1>0, <1>4 DEF KeyInv, FilesOf, OpenRaw, WriteRaw, OpenMasked, Goto
  <2>3. maskedFile'[k] \in {Absent, Torn}
    BY <1>0, <1>2, <1>4, <2>2 DEF TypeOK, OpenRaw, WriteRaw, OpenMasked, DiskError, Truncated
  <2>4. QED
    BY <1>1, <1>3, <2>1, <2>2, <2>3, ValuesAssumption
    DEF Promised, Same, QueuedWhole, ToldOf
<1>5. CASE WriteMasked(b)
  <2>1. pc[b] = "writeMasked"
    BY <1>5 DEF WriteMasked, Goto
  <2>2. ~ QueuedWhole(b)
    BY <1>0, <2>1 DEF KeyInv, FilesOf, QueuedWhole
  <2>3. CASE QueuedWhole(b)'
    BY <1>1, <1>3, <2>2, <2>3 DEF Promised, Accepts
  <2>4. CASE ~ QueuedWhole(b)'
    <3>1. ToldOf(b)' => Stored(b)'
      BY <2>4 DEF QueueInv, LossInv, ToldOf, ExcusedOf, Good, KeyInv, KeptOf, QueuedWhole
    <3>2. QED
      BY <1>1, <1>3, <2>2, <2>4, <3>1 DEF Promised, Same, Tells
  <2>5. QED
    BY <2>3, <2>4
<1>6. CASE Report(b)
  <2>1. QueuedWhole(b)' <=> QueuedWhole(b)
    BY <1>6 DEF Report, fileVars, QueuedWhole, KeyOf
  <2>2. ToldOf(b)' => QueuedWhole(b)' \/ Stored(b)'
    BY DEF QueueInv, LossInv, ToldOf, ExcusedOf, Good, KeyInv, KeptOf, QueuedWhole
  <2>3. QED
    BY <1>1, <1>3, <2>1, <2>2 DEF Promised, Same, Tells
<1>7. QED
  BY <1>4, <1>5, <1>6

(* A step that touches neither its files nor its objects *)
LEMMA PromisedElsewhere ==
  ASSUME NEW b \in Backup, stamp'[b] = stamp[b], pc[b] = "done" <=> pc'[b] = "done",
         rawFile'[KeyOf(b)] = rawFile[KeyOf(b)], maskedFile'[KeyOf(b)] = maskedFile[KeyOf(b)],
         Stored(b)' <=> Stored(b)
  PROVE  Promised(b)
<1>1. KeyOf(b)' = KeyOf(b)
  BY DEF KeyOf
<1>2. QED
  BY <1>1 DEF Promised, Same, QueuedWhole, ToldOf

LEMMA PromisedByWorker ==
  ASSUME QueueInv, QueueInv', [Next]_vars, NEW c \in Backup, Worker(c),
         NEW b \in Backup, Good(b), ~ ExcusedOf(b)'
  PROVE  Promised(b)
<1>0. TypeOK /\ TypeInv /\ StoredInv
  BY DEF QueueInv, TypeInv
<1>1. stamp'[b] = stamp[b] /\ KeyOf(b)' = KeyOf(b)
  BY <1>0, StampsStay DEF Good, KeyOf
<1>2. CASE c = b
  <2>1. pc[b] \notin BeforeSave
    BY <1>0 DEF Good, StoredInv, Unsaved
  <2>2. OpenRaw(b) \/ WriteRaw(b) \/ OpenMasked(b) \/ WriteMasked(b) \/ Report(b)
    BY <1>2, <2>1
    DEF Worker, Collect, ReportFailure, RequestUrls, RequestUrlsFails, PutFiles, Goto, BeforeSave
  <2>3. UNCHANGED stamp
    BY <2>2 DEF OpenRaw, WriteRaw, OpenMasked, WriteMasked, Report
  <2>4. QED
    BY <1>1, <2>2, <2>3, PromisedBySave
<1>3. CASE c # b
  <2>1. pc'[b] = pc[b]
    BY <1>0, <1>3
    DEF TypeOK, Worker, Collect, ReportFailure, RequestUrls, RequestUrlsFails, PutFiles, OpenRaw,
        WriteRaw, OpenMasked, WriteMasked, Report, Goto
  <2>2. Stored(b)' <=> Stored(b)
    BY <1>3
    DEF Worker, Collect, ReportFailure, RequestUrls, RequestUrlsFails, PutFiles, Put, OpenRaw,
        WriteRaw, OpenMasked, WriteMasked, Report, cloudVars, Stored
  <2>3. rawFile'[KeyOf(b)] = rawFile[KeyOf(b)] /\ maskedFile'[KeyOf(b)] = maskedFile[KeyOf(b)]
    BY <1>3, OthersLeaveFiles DEF Good, Spoilt, Alone
  <2>4. QED
    BY <1>1, <2>1, <2>2, <2>3, PromisedElsewhere
<1>4. QED
  BY <1>2, <1>3

(* ProcessQueue takes a backup's files away only when it has stored it *)
LEMMA PromisedByDrain ==
  ASSUME QueueInv, ProcessQueue, NEW b \in Backup, Good(b), ~ ExcusedOf(b)
  PROVE  Promised(b)
<1> DEFINE k == KeyOf(b)
<1>0. TypeOK /\ HeldFilesStay /\ Recorded /\ KeyInv(b)
  BY DEF QueueInv, TypeInv, LossInv
<1>1. k \in Key
  BY <1>0, ValuesAssumption DEF Good, TypeOK, KeyOf, Key
<1>2. UNCHANGED <<pc, stamp>> /\ KeyOf(b)' = k /\ (ToldOf(b)' <=> ToldOf(b))
  BY DrainSame DEF workerVars, KeyOf, ToldOf
<1>3. CASE DrainPut
  <2>1. UNCHANGED <<rawFile, maskedFile>> /\ (Stored(b) => Stored(b)')
    BY <1>3 DEF DrainPut, Put, fileVars, Stored
  <2>2. QueuedWhole(b)' <=> QueuedWhole(b)
    BY <1>2, <2>1 DEF QueuedWhole
  <2>3. ToldOf(b) => QueuedWhole(b) \/ Stored(b)
    BY ToldIsKept
  <2>4. QED
    BY <1>2, <2>1, <2>2, <2>3 DEF Promised, Same, Uploads
<1>4. CASE RemoveRaw \/ RemoveMasked
  <2>1. Stored(b)' <=> Stored(b)
    BY <1>4 DEF RemoveRaw, RemoveMasked, Stored
  <2>2. CASE drain.key = k /\ (rawFile'[k] = Absent \/ maskedFile'[k] = Absent)
    <3>1. drain.pc \in {"removeRaw", "removeMasked"}
      BY <1>4 DEF RemoveRaw, RemoveMasked, DrainAt
    <3>2. /\ <<k, b, drain.masked>> \in redelivered /\ drain.masked \in {b, Torn}
          /\ b \in rawObj /\ drain.masked \in maskedObj
      BY <1>0, <2>2, <3>1 DEF KeyInv, DrainOf, HasRaw, HasMasked, Recorded
    <3>3. drain.masked = b
      BY <3>2 DEF ExcusedOf, Overtaken
    <3>4. Stored(b)
      BY <3>2, <3>3 DEF Stored
    <3>5. ~ QueuedWhole(b)'
      BY <1>2, <2>2, ValuesAssumption DEF QueuedWhole
    <3>6. QED
      BY <1>2, <2>1, <3>4, <3>5 DEF Promised, Same, Takes
  <2>3. CASE ~ (drain.key = k /\ (rawFile'[k] = Absent \/ maskedFile'[k] = Absent))
    <3>1. rawFile'[k] = rawFile[k] /\ maskedFile'[k] = maskedFile[k]
      BY <1>0, <1>1, <1>4, <2>3 DEF RemoveRaw, RemoveMasked, Removed, TypeOK
    <3>2. QED
      BY <1>2, <2>1, <3>1, PromisedElsewhere
  <2>4. QED
    BY <2>2, <2>3
<1>5. CASE ~ (DrainPut \/ RemoveRaw \/ RemoveMasked)
  <2>1. UNCHANGED <<rawFile, maskedFile, rawObj, maskedObj>>
    BY <1>5
    DEF ProcessQueue, ScanQueue, PickFile, FinishScan, ReadRaw, ReadMasked, DrainRequestUrls,
        DrainReport, fileVars, cloudVars
  <2>2. QED
    BY <1>2, <2>1, PromisedElsewhere DEF Stored
<1>6. QED
  BY <1>3, <1>4, <1>5

(* Every step keeps the promise of a backup that is not excused *)
LEMMA PromisedByNext ==
  ASSUME QueueInv, QueueInv', [Next]_vars, NEW b \in Backup, ~ ExcusedOf(b), ~ ExcusedOf(b)'
  PROVE  Promised(b)
<1>1. CASE stamp[b] = NoTime
  BY <1>1, PromisedBeforeSave
<1>2. CASE stamp[b] # NoTime
  <2>1. Good(b)
    BY <1>2 DEF Good, ExcusedOf
  <2>2. ASSUME NEW c \in Backup, Worker(c) PROVE Promised(b)
    BY <2>1, <2>2, PromisedByWorker
  <2>3. CASE ProcessQueue
    BY <2>1, <2>3, PromisedByDrain
  <2>4. CASE Crash \/ UNCHANGED vars
    <3>1. UNCHANGED <<stamp, rawFile, maskedFile, rawObj, maskedObj>>
      BY <2>4 DEF Crash, vars, workerVars, fileVars, cloudVars
    <3>2. pc[b] = "done" <=> pc'[b] = "done"
      BY <2>4 DEF Crash, Ended, vars, workerVars
    <3>3. QED
      BY <3>1, <3>2, PromisedElsewhere DEF Stored
  <2>5. QED
    BY <2>2, <2>3, <2>4 DEF Next
<1>3. QED
  BY <1>1, <1>2

(* Every step of UploadQueue is a step of OfflineBuffer, or a stutter *)
LEMMA PromiseStep ==
  ASSUME QueueInv, QueueInv', [Next]_vars, NEW b \in Backup
  PROVE  [Promise(b)!Next]_(Promise(b)!vars)
<1>1. /\ ToldOf(b) => ToldOf(b)'
      /\ Stored(b) => Stored(b)'
      /\ ExcusedOf(b) => ExcusedOf(b)'
  BY PromiseGrows
<1>2. QueuedWhole(b)' \in BOOLEAN /\ Stored(b)' \in BOOLEAN /\ ToldOf(b)' \in BOOLEAN
  BY DEF QueuedWhole, Stored, ToldOf
<1>3. CASE ExcusedOf(b)'
  BY <1>1, <1>2, <1>3 DEF Promise!Next, Promise!Excuse, ToldOf, ExcusedOf
<1>4. CASE ~ ExcusedOf(b)'
  <2>1. ~ ExcusedOf(b) /\ Promised(b)
    BY <1>1, <1>4, PromisedByNext
  <2>2. ExcusedOf(b)' = ExcusedOf(b)
    BY <1>4, <2>1 DEF ExcusedOf
  <2>3. (QueuedWhole(b)' <=> QueuedWhole(b)) => QueuedWhole(b)' = QueuedWhole(b)
    BY DEF QueuedWhole
  <2>4. (Stored(b)' <=> Stored(b)) => Stored(b)' = Stored(b)
    BY DEF Stored
  <2>5. (ToldOf(b)' <=> ToldOf(b)) => ToldOf(b)' = ToldOf(b)
    BY DEF ToldOf
  <2>6. CASE Same(b)
    BY <2>2, <2>3, <2>4, <2>5, <2>6 DEF Same, Promise!vars, ToldOf, ExcusedOf
  <2>7. CASE Accepts(b)
    <3>1. Promise(b)!Accept
      BY <1>2, <2>2, <2>4, <2>7 DEF Accepts, Promise!Accept, ToldOf, ExcusedOf
    <3>2. QED
      BY <3>1 DEF Promise!Next
  <2>8. CASE Tells(b)
    <3>1. Promise(b)!Tell
      BY <2>2, <2>3, <2>4, <2>8 DEF Tells, Promise!Tell, ToldOf, ExcusedOf
    <3>2. QED
      BY <3>1 DEF Promise!Next
  <2>9. CASE Uploads(b)
    <3>1. Promise(b)!Upload
      BY <2>2, <2>3, <2>5, <2>9 DEF Uploads, Promise!Upload, ToldOf, ExcusedOf
    <3>2. QED
      BY <3>1 DEF Promise!Next
  <2>10. CASE Takes(b)
    <3>1. Promise(b)!Take
      BY <2>2, <2>4, <2>5, <2>10 DEF Takes, Promise!Take, ToldOf, ExcusedOf
    <3>2. QED
      BY <3>1 DEF Promise!Next
  <2>11. QED
    BY <2>1, <2>6, <2>7, <2>8, <2>9, <2>10 DEF Promised
<1>5. QED
  BY <1>3, <1>4

(* The queue keeps the promise of OfflineBuffer *)
THEOREM BufferPromise == Spec => PromiseKept
<1>1. Init => \A b \in Backup : Promise(b)!Init
  BY DEF Init, Promise!Init, QueuedWhole, Stored, Overtaken, Spoilt, Collides
<1>2. QueueInv /\ QueueInv' /\ [Next]_vars => \A b \in Backup : [Promise(b)!Next]_(Promise(b)!vars)
  BY PromiseStep
<1>3. QED
  BY InitQueueInv, NextQueueInv, <1>1, <1>2, PTL DEF Spec, PromiseKept
-----------------------------------------------------------------------------
(* SentOnce.  A masked file is complete only once its save is over, and so is
   what ProcessQueue read from it; after that nobody writes the raw file.   *)
AtKey(b, at) == drain.key = KeyOf(b) /\ drain.pc = at
Failed(b, half) == <<KeyOf(b), half>> \in unremoved
SentInv(b) ==
  /\ maskedFile[KeyOf(b)] = b => pc[b] \notin Saving
  /\ drain.key = KeyOf(b) /\ drain.pc \in HasMasked /\ drain.masked = b => pc[b] \notin Saving
  /\ <<KeyOf(b), b, b>> \in redelivered =>
       /\ pc[b] \notin Saving
       /\ \/ rawFile[KeyOf(b)] # b \/ AtKey(b, "removeRaw") \/ crashes > 0
          \/ /\ Failed(b, "raw")
             /\ \/ maskedFile[KeyOf(b)] # b \/ AtKey(b, "removeMasked")
                \/ Failed(b, "masked")
OnceInv == QueueInv /\ \A b \in Backup : Alone(b) => SentInv(b)

(* A step that writes no file of the backup and does not begin a save *)
LEMMA SentElsewhere ==
  ASSUME NEW b \in Backup, SentInv(b), KeyOf(b)' = KeyOf(b),
         pc'[b] \in Saving => pc[b] \in Saving,
         UNCHANGED <<drain, redelivered, unremoved, crashes>>,
         rawFile'[KeyOf(b)] = rawFile[KeyOf(b)],
         maskedFile'[KeyOf(b)] = maskedFile[KeyOf(b)]
  PROVE  SentInv(b)'
BY DEF SentInv, AtKey, Failed

LEMMA SentByWorker ==
  ASSUME QueueInv, [Next]_vars, NEW c \in Backup, Worker(c),
         NEW b \in Backup, Alone(b)', Alone(b) => SentInv(b)
  PROVE  SentInv(b)'
<1>0. TypeOK /\ TypeInv /\ StoredInv
  BY DEF QueueInv, TypeInv
<1>1. CASE stamp[b] = NoTime
  <2>1. /\ rawFile'[KeyOf(b)'] = Absent /\ maskedFile'[KeyOf(b)'] = Absent
        /\ <<KeyOf(b)', b, b>> \notin redelivered' /\ drain'.key # KeyOf(b)'
    BY <1>1, EnteringFindsNothing DEF fileVars
  <2>2. QED
    BY <2>1, ValuesAssumption DEF SentInv
<1>2. CASE stamp[b] # NoTime
  <2>1. Alone(b) /\ KeyOf(b)' = KeyOf(b) /\ SentInv(b) /\ KeyOf(b) \in Key
    BY <1>0, <1>2, OwnersStay, ValuesAssumption DEF TypeOK, KeyOf, Key
  <2>2. UNCHANGED <<drain, redelivered, unremoved, crashes>>
    BY DEF Worker, Collect, ReportFailure, RequestUrls, RequestUrlsFails, PutFiles, OpenRaw,
           WriteRaw, OpenMasked, WriteMasked, Report, cloudVars
  <2>3. CASE c # b
    <3>1. pc'[b] = pc[b]
      BY <1>0, <2>3
      DEF TypeOK, Worker, Collect, ReportFailure, RequestUrls, RequestUrlsFails, PutFiles, OpenRaw,
          WriteRaw, OpenMasked, WriteMasked, Report, Goto
    <3>2. QED
      BY <2>1, <2>2, <2>3, <3>1, OthersLeaveFiles, SentElsewhere
  <2>4. CASE c = b /\ (OpenRaw(b) \/ WriteRaw(b) \/ OpenMasked(b) \/ WriteMasked(b))
    <3>1. pc[b] \in Saving
      BY <2>4 DEF OpenRaw, WriteRaw, OpenMasked, WriteMasked, Goto, Saving
    <3>2. maskedFile[KeyOf(b)] # b /\ <<KeyOf(b), b, b>> \notin redelivered
      BY <2>1, <3>1 DEF SentInv
    <3>3. CASE WriteMasked(b)
      <4>1. pc'[b] \notin Saving
        BY <1>0, <3>3 DEF TypeOK, WriteMasked, Goto, AfterSave, Saving
      <4>2. QED
        BY <2>1, <2>2, <3>2, <4>1 DEF SentInv
    <3>4. CASE ~ WriteMasked(b)
      <4>1. maskedFile'[KeyOf(b)] \in {maskedFile[KeyOf(b)], Torn}
        BY <1>0, <2>1, <2>4, <3>4 DEF TypeOK, OpenRaw, WriteRaw, OpenMasked, Truncated
      <4>2. QED
        BY <2>1, <2>2, <3>1, <3>2, <4>1, ValuesAssumption DEF SentInv
    <3>5. QED
      BY <3>3, <3>4
  <2>5. CASE c = b /\ ~ (OpenRaw(b) \/ WriteRaw(b) \/ OpenMasked(b) \/ WriteMasked(b))
    <3>1. pc[b] \notin BeforeSave
      BY <1>0, <1>2 DEF StoredInv, Unsaved
    <3>2. Report(b)
      BY <2>5, <3>1
      DEF Worker, Collect, ReportFailure, RequestUrls, RequestUrlsFails, PutFiles, Goto, BeforeSave
    <3>3. pc'[b] \notin Saving /\ UNCHANGED <<rawFile, maskedFile>>
      BY <1>0, <3>2 DEF TypeOK, Report, Goto, Saving, fileVars
    <3>4. QED
      BY <2>1, <2>2, <3>3, SentElsewhere
  <2>6. QED
    BY <2>3, <2>4, <2>5
<1>3. QED
  BY <1>1, <1>2

(* What ProcessQueue does under a key, in terms of SentInv *)
LEMMA SentByDrain ==
  ASSUME QueueInv, ProcessQueue, NEW b \in Backup, Alone(b), SentInv(b)
  PROVE  SentInv(b)'
<1> DEFINE k == KeyOf(b)
<1>0. TypeOK /\ HeldFilesStay
  BY DEF QueueInv, TypeInv
<1>1. k \in Key /\ k # NoKey
  BY <1>0, ValuesAssumption DEF Alone, TypeOK, KeyOf, Key, NoKey
<1>2. k' = k /\ UNCHANGED workerVars
  BY DrainSame DEF workerVars, KeyOf
<1> USE DEF DrainAt, DrainTo
<1>c. UNCHANGED crashes
  BY DEF ProcessQueue, ScanQueue, PickFile, FinishScan, ReadRaw, ReadMasked, DrainRequestUrls,
         DrainPut, DrainReport, RemoveRaw, RemoveMasked
<1>3. CASE ScanQueue \/ PickFile \/ FinishScan \/ ReadRaw
  <2>1. UNCHANGED <<rawFile, maskedFile, redelivered, unremoved>>
        /\ drain.pc \notin HasMasked \cup {"removeMasked"}
    BY <1>3 DEF ScanQueue, PickFile, FinishScan, ReadRaw, fileVars, cloudVars, HasMasked
  <2>2. drain'.pc \in {"idle", "next", "readRaw", "readMasked"}
    <3>1. CASE ScanQueue
      BY <3>1 DEF ScanQueue, NoDrain
    <3>2. CASE FinishScan
      BY <3>2 DEF FinishScan, NoDrain
    <3>3. CASE PickFile
      BY <1>0, <3>3 DEF PickFile, TypeOK
    <3>4. CASE ReadRaw
      BY <1>0, <3>4 DEF ReadRaw, TypeOK
    <3>5. QED
      BY <1>3, <3>1, <3>2, <3>3, <3>4
  <2>3. QED
    BY <1>2, <1>c, <2>1, <2>2 DEF SentInv, AtKey, Failed, HasMasked, workerVars
<1>4. CASE ReadMasked \/ DrainRequestUrls \/ DrainPut
  <2>1. UNCHANGED <<rawFile, maskedFile, redelivered, unremoved>>
        /\ drain.pc \in {"readMasked", "request", "put"}
    BY <1>4 DEF ReadMasked, DrainRequestUrls, DrainPut, fileVars, cloudVars
  <2>2. \/ drain'.pc \notin HasMasked
        \/ drain'.key = drain.key /\ drain'.masked = maskedFile[drain.key]
        \/ drain.pc \in HasMasked /\ drain'.key = drain.key /\ drain'.masked = drain.masked
    <3>1. NoDrain.pc \notin HasMasked /\ NextFile.pc \notin HasMasked
      BY <1>0 DEF NoDrain, NextFile, HasMasked, TypeOK
    <3>2. CASE ReadMasked
      BY <1>0, <3>1, <3>2 DEF ReadMasked, TypeOK
    <3>3. CASE DrainRequestUrls
      <4>1. drain' \in {NoDrain, NextFile} \/ drain' = [drain EXCEPT !.pc = "put"]
        BY <3>3 DEF DrainRequestUrls
      <4>2. drain.pc \in HasMasked
        BY <3>3 DEF DrainRequestUrls, HasMasked
      <4>3. QED
        BY <1>0, <3>1, <4>1, <4>2 DEF TypeOK
    <3>4. CASE DrainPut
      BY <1>0, <3>4 DEF DrainPut, HasMasked, TypeOK
    <3>5. QED
      BY <1>4, <3>2, <3>3, <3>4
  <2>3. QED
    BY <1>2, <1>c, <2>1, <2>2 DEF SentInv, AtKey, Failed, workerVars
<1>5. CASE DrainReport
  <2>1. UNCHANGED <<rawFile, maskedFile, unremoved>>
        /\ drain.pc \in HasMasked \ {"removeRaw", "removeMasked"}
    BY <1>5 DEF DrainReport, HasMasked, fileVars
  <2>2. CASE drain.pc = "completed"
    <3>1. /\ drain'.pc = "removeRaw" /\ drain'.key = drain.key /\ drain'.masked = drain.masked
          /\ redelivered' = redelivered \cup {<<drain.key, drain.raw, drain.masked>>}
      BY <1>0, <1>5, <2>2 DEF DrainReport, TypeOK
    <3>2. <<k, b, b>> \in redelivered' =>
            <<k, b, b>> \in redelivered \/ (drain.key = k /\ drain.masked = b)
      BY <3>1
    <3>3. QED
      BY <1>2, <1>c, <2>1, <3>1, <3>2 DEF SentInv, AtKey, Failed, workerVars
  <2>3. CASE drain.pc # "completed"
    <3>1. UNCHANGED redelivered /\ drain'.pc \notin HasMasked
      BY <1>5, <2>3 DEF DrainReport, NoDrain, HasMasked
    <3>2. QED
      BY <1>2, <1>c, <2>1, <3>1 DEF SentInv, AtKey, Failed, HasMasked, workerVars
  <2>4. QED
    BY <2>2, <2>3
<1>6. CASE RemoveRaw
  <2>1. /\ drain.pc = "removeRaw" /\ drain'.pc = "removeMasked" /\ drain'.key = drain.key
        /\ drain'.masked = drain.masked /\ UNCHANGED <<maskedFile, redelivered>>
        /\ unremoved \subseteq unremoved'
    BY <1>0, <1>6 DEF RemoveRaw, CannotRemove, TypeOK
  <2>2. \/ rawFile'[k] = rawFile[k] /\ (drain.key = k => <<k, "raw">> \in unremoved')
        \/ drain.key = k /\ rawFile'[k] = Absent
    BY <1>0, <1>1, <1>6 DEF RemoveRaw, Removed, CannotRemove, TypeOK
  <2>3. QED
    BY <1>2, <1>c, <2>1, <2>2, ValuesAssumption
    DEF SentInv, AtKey, Failed, HasMasked, workerVars
<1>7. CASE RemoveMasked
  <2>1. /\ drain.pc = "removeMasked" /\ drain'.pc = "next"
        /\ UNCHANGED <<rawFile, redelivered>> /\ unremoved \subseteq unremoved'
    BY <1>0, <1>7 DEF RemoveMasked, CannotRemove, NextFile, TypeOK
  <2>2. \/ maskedFile'[k] = maskedFile[k] /\ (drain.key = k => <<k, "masked">> \in unremoved')
        \/ drain.key = k /\ maskedFile'[k] = Absent
    BY <1>0, <1>1, <1>7 DEF RemoveMasked, Removed, CannotRemove, TypeOK
  <2>3. QED
    BY <1>2, <1>c, <2>1, <2>2, ValuesAssumption
    DEF SentInv, AtKey, Failed, HasMasked, workerVars
<1>8. QED
  BY <1>3, <1>4, <1>5, <1>6, <1>7 DEF ProcessQueue

LEMMA NextOnceInv == OnceInv /\ [Next]_vars => OnceInv'
<1> SUFFICES ASSUME OnceInv, [Next]_vars PROVE OnceInv'
  OBVIOUS
<1>0. QueueInv /\ TypeOK
  BY DEF OnceInv, QueueInv, TypeInv
<1>1. ASSUME NEW b \in Backup, Alone(b)' PROVE SentInv(b)'
  <2>1. ASSUME NEW c \in Backup, Worker(c) PROVE SentInv(b)'
    BY <1>0, <1>1, <2>1, SentByWorker DEF OnceInv
  <2>2. CASE ProcessQueue \/ Crash \/ UNCHANGED vars
    <3>1. UNCHANGED stamp
      BY <2>2, DrainSame DEF Crash, vars, workerVars
    <3>2. Alone(b) /\ KeyOf(b)' = KeyOf(b) /\ SentInv(b)
      BY <1>1, <3>1 DEF Alone, Collides, KeyOf, OnceInv
    <3>3. CASE ProcessQueue
      BY <1>0, <3>2, <3>3, SentByDrain
    <3>4. CASE Crash
      <4>1. crashes' > 0
        BY <1>0, <3>4 DEF Crash, TypeOK
      <4>2. pc'[b] \in {pc[b], "killed"} /\ drain'.pc = "idle"
            /\ UNCHANGED <<rawFile, maskedFile, redelivered>>
        BY <3>4 DEF Crash, NoDrain, fileVars, cloudVars
      <4>3. QED
        BY <3>2, <4>1, <4>2 DEF SentInv, HasMasked, Saving
    <3>5. CASE UNCHANGED vars
      BY <3>2, <3>5, SentElsewhere DEF vars, workerVars, fileVars, cloudVars
    <3>6. QED
      BY <2>2, <3>3, <3>4, <3>5
  <2>3. QED
    BY <2>1, <2>2 DEF Next
<1>2. QED
  BY <1>0, <1>1, NextQueueInv DEF OnceInv

(* ProcessQueue sends what it took from the queue no second time: for every
   set of backups, and whatever requests, reads, writes and removals fail, a
   backup that it reported as completed is still whole in the queue only until
   the next step, unless neither of its files could be removed, the agent was
   killed or another save took the same second.                             *)
THEOREM SentAtMostOnce == Spec => []SentOnce
<1>1. Init => OnceInv
  BY InitQueueInv DEF OnceInv, Alone, Init
<1>2. OnceInv => SentOnce
  BY DEF OnceInv, SentOnce, SentInv, AtKey, Failed, NotRemoved, QueuedWhole, Alone
<1>3. QED
  BY <1>1, <1>2, NextOnceInv, PTL DEF Spec

-----------------------------------------------------------------------------
(* OrphansAreKnown.  As long as no crash happened, the two files of a save
   that is over, and not spoilt, come and go together but for the step between
   the two removals and for the file that a removal failed on.              *)
PairInv(b) ==
  /\ AtKey(b, "removeMasked") => rawFile[KeyOf(b)] = Absent \/ Failed(b, "raw")
  /\ pc[b] \in {"writeMasked", "report", "done"} /\ ~ AtKey(b, "removeMasked") =>
       /\ rawFile[KeyOf(b)] = Absent =>
            maskedFile[KeyOf(b)] = Absent \/ Failed(b, "masked")
       /\ maskedFile[KeyOf(b)] = Absent =>
            rawFile[KeyOf(b)] = Absent \/ Failed(b, "raw")
(* Only what was sent is removed *)
UnremovedWasSent == \A u \in unremoved : \E p \in redelivered : p[1] = u[1]
PairsInv ==
  /\ QueueInv /\ UnremovedWasSent
  /\ crashes = 0 => \A b \in Backup : pc[b] # "killed" /\ (Good(b) => PairInv(b))

LEMMA PairElsewhere ==
  ASSUME NEW b \in Backup, PairInv(b), KeyOf(b)' = KeyOf(b),
         pc'[b] \in {"report", "done"} => pc[b] \in {"writeMasked", "report", "done"},
         pc'[b] = "writeMasked" => pc[b] = "writeMasked",
         UNCHANGED <<drain, unremoved>>,
         rawFile'[KeyOf(b)] = rawFile[KeyOf(b)],
         maskedFile'[KeyOf(b)] = Absent <=> maskedFile[KeyOf(b)] = Absent
  PROVE  PairInv(b)'
BY DEF PairInv, AtKey, Failed

LEMMA PairByWorker ==
  ASSUME QueueInv, [Next]_vars, NEW c \in Backup, Worker(c),
         NEW b \in Backup, Good(b)', Good(b) => PairInv(b)
  PROVE  PairInv(b)'
<1>0. TypeOK /\ TypeInv /\ StoredInv /\ HeldFilesStay
  BY DEF QueueInv, TypeInv
<1>1. CASE stamp[b] = NoTime
  <2>1. Alone(b)'
    BY DEF Good, Spoilt, Alone
  <2>2. pc'[b] = "openRaw" /\ drain'.key # KeyOf(b)'
    BY <1>1, <2>1, EnteringFindsNothing
  <2>3. QED
    BY <2>2 DEF PairInv, AtKey
<1>2. CASE stamp[b] # NoTime
  <2>1. Good(b) /\ Alone(b) /\ KeyOf(b)' = KeyOf(b) /\ PairInv(b) /\ KeyInv(b) /\ KeyOf(b) \in Key
    BY <1>0, <1>2, OwnersStay, ValuesAssumption
    DEF TypeOK, KeyOf, Key, QueueInv, LossInv, Good, Spoilt, Alone
  <2>2. UNCHANGED <<drain, unremoved>>
    BY DEF Worker, Collect, ReportFailure, RequestUrls, RequestUrlsFails, PutFiles, OpenRaw,
           WriteRaw, OpenMasked, WriteMasked, Report, cloudVars
  <2>3. CASE c # b
    <3>1. pc'[b] = pc[b]
      BY <1>0, <2>3
      DEF TypeOK, Worker, Collect, ReportFailure, RequestUrls, RequestUrlsFails, PutFiles, OpenRaw,
          WriteRaw, OpenMasked, WriteMasked, Report, Goto
    <3>2. QED
      BY <2>1, <2>2, <2>3, <3>1, OthersLeaveFiles, PairElsewhere
  <2>d. b \notin damaged'
    BY DEF Good, Spoilt
  <2>4. CASE c = b /\ (OpenRaw(b) \/ WriteRaw(b))
    <3>1. pc[b] \in {"openRaw", "writeRaw"} /\ pc'[b] \in {"writeRaw", "openMasked"}
          /\ UNCHANGED maskedFile
      BY <1>0, <2>4 DEF TypeOK, OpenRaw, WriteRaw, Goto
    <3>2. maskedFile[KeyOf(b)] = Absent
      BY <2>1, <3>1 DEF KeyInv, FilesOf
    <3>3. ~ AtKey(b, "removeMasked")
      BY <1>0, <3>2 DEF AtKey, HeldFilesStay
    <3>4. QED
      BY <2>1, <2>2, <3>1, <3>3 DEF PairInv, AtKey
  <2>5. CASE c = b /\ OpenMasked(b)
    <3>1. /\ pc[b] = "openMasked" /\ maskedFile'[KeyOf(b)] = Torn /\ UNCHANGED rawFile
      BY <1>0, <2>1, <2>d, <2>5 DEF TypeOK, OpenMasked, Goto, DiskError, Truncated
    <3>2. rawFile[KeyOf(b)] = b /\ maskedFile[KeyOf(b)] = Absent
      BY <2>1, <3>1 DEF KeyInv, FilesOf
    <3>3. ~ AtKey(b, "removeMasked")
      BY <1>0, <3>2 DEF AtKey, HeldFilesStay
    <3>4. QED
      BY <2>1, <2>2, <3>1, <3>2, <3>3, ValuesAssumption DEF PairInv, AtKey
  <2>6. CASE c = b /\ WriteMasked(b)
    <3>1. pc[b] = "writeMasked" /\ pc'[b] \in {"report", "done"} /\ UNCHANGED rawFile
      BY <1>0, <2>6 DEF TypeOK, WriteMasked, Goto, AfterSave
    <3>2. PICK w \in Outcomes(maskedFile, b, "writeMasked") :
            maskedFile' = [maskedFile EXCEPT ![KeyOf(b)] = w]
      BY <2>d, <2>6 DEF WriteMasked, DiskError
    <3>3. w = Absent <=> maskedFile[KeyOf(b)] = Absent
      BY <3>2, ValuesAssumption DEF Outcomes
    <3>4. maskedFile'[KeyOf(b)] = w
      BY <1>0, <2>1, <3>2 DEF TypeOK
    <3>5. QED
      BY <2>1, <2>2, <3>1, <3>3, <3>4, PairElsewhere
  <2>7. CASE c = b /\ ~ (OpenRaw(b) \/ WriteRaw(b) \/ OpenMasked(b) \/ WriteMasked(b))
    <3>1. pc[b] \notin BeforeSave
      BY <1>0, <1>2 DEF StoredInv, Unsaved
    <3>2. Report(b)
      BY <2>7, <3>1
      DEF Worker, Collect, ReportFailure, RequestUrls, RequestUrlsFails, PutFiles, Goto, BeforeSave
    <3>3. pc[b] = "report" /\ pc'[b] = "done" /\ UNCHANGED <<rawFile, maskedFile>>
      BY <1>0, <3>2 DEF TypeOK, Report, Goto, fileVars
    <3>4. QED
      BY <2>1, <2>2, <3>3, PairElsewhere
  <2>8. QED
    BY <2>3, <2>4, <2>5, <2>6, <2>7
<1>3. QED
  BY <1>1, <1>2

LEMMA PairByDrain ==
  ASSUME QueueInv, ProcessQueue, NEW b \in Backup, Good(b), PairInv(b)
  PROVE  PairInv(b)'
<1> DEFINE k == KeyOf(b)
<1>0. TypeOK /\ HeldFilesStay
  BY DEF QueueInv, TypeInv
<1>1. k \in Key /\ k # NoKey
  BY <1>0, ValuesAssumption DEF Good, TypeOK, KeyOf, Key, NoKey
<1>2. k' = k /\ UNCHANGED pc
  BY DrainSame DEF workerVars, KeyOf
<1> USE DEF DrainAt, DrainTo
<1>3. CASE RemoveRaw
  <2>1. /\ drain.pc = "removeRaw" /\ drain'.pc = "removeMasked" /\ drain'.key = drain.key
        /\ UNCHANGED maskedFile /\ unremoved \subseteq unremoved'
    BY <1>0, <1>3 DEF RemoveRaw, CannotRemove, TypeOK
  <2>2. IF drain.key = k THEN rawFile'[k] = Absent \/ <<k, "raw">> \in unremoved'
                         ELSE rawFile'[k] = rawFile[k]
    BY <1>0, <1>1, <1>3 DEF RemoveRaw, Removed, CannotRemove, TypeOK
  <2>3. QED
    BY <1>2, <2>1, <2>2 DEF PairInv, AtKey, Failed
<1>4. CASE RemoveMasked
  <2>1. /\ drain.pc = "removeMasked" /\ drain'.pc = "next" /\ UNCHANGED rawFile
        /\ unremoved \subseteq unremoved'
    BY <1>0, <1>4 DEF RemoveMasked, CannotRemove, NextFile, TypeOK
  <2>2. CASE drain.key # k
    <3>1. maskedFile'[k] = maskedFile[k]
      BY <1>0, <1>1, <1>4, <2>2 DEF RemoveMasked, Removed, TypeOK
    <3>2. QED
      BY <1>2, <2>1, <2>2, <3>1 DEF PairInv, AtKey, Failed
  <2>3. CASE drain.key = k
    <3>1. \/ maskedFile'[k] = Absent
          \/ maskedFile'[k] = maskedFile[k] /\ <<k, "masked">> \in unremoved'
      BY <1>0, <1>1, <1>4, <2>3 DEF RemoveMasked, Removed, CannotRemove, TypeOK
    <3>2. maskedFile[k] # Absent
      BY <1>0, <2>1, <2>3 DEF HeldFilesStay
    <3>3. QED
      BY <1>2, <2>1, <2>3, <3>1, <3>2 DEF PairInv, AtKey, Failed
  <2>4. QED
    BY <2>2, <2>3
<1>5. CASE ~ RemoveRaw /\ ~ RemoveMasked
  <2>1. UNCHANGED <<rawFile, maskedFile, unremoved>> /\ drain.pc # "removeMasked"
    BY <1>5
    DEF ProcessQueue, ScanQueue, PickFile, FinishScan, ReadRaw, ReadMasked, DrainRequestUrls,
        DrainPut, DrainReport, fileVars, cloudVars
  <2>2. drain'.pc # "removeMasked"
    <3>1. NoDrain.pc = "idle" /\ NextFile.pc = "next"
      BY <1>0 DEF NoDrain, NextFile, TypeOK
    <3>2. CASE ScanQueue \/ PickFile \/ FinishScan \/ ReadRaw \/ ReadMasked \/ DrainReport
      BY <1>0, <3>1, <3>2
      DEF ScanQueue, PickFile, FinishScan, ReadRaw, ReadMasked, DrainReport, NoDrain, TypeOK
    <3>3. CASE DrainRequestUrls
      <4>1. [drain EXCEPT !.pc = "put"].pc = "put"
        BY <1>0 DEF TypeOK
      <4>2. QED
        BY <3>1, <3>3, <4>1 DEF DrainRequestUrls
    <3>4. CASE DrainPut
      BY <1>0, <3>4 DEF DrainPut, AfterPut, TypeOK
    <3>5. QED
      BY <1>5, <3>2, <3>3, <3>4 DEF ProcessQueue
  <2>3. QED
    BY <1>2, <2>1, <2>2 DEF PairInv, AtKey, Failed
<1>6. QED
  BY <1>3, <1>4, <1>5

LEMMA NextUnremoved == QueueInv /\ UnremovedWasSent /\ [Next]_vars => UnremovedWasSent'
<1> SUFFICES ASSUME QueueInv, UnremovedWasSent, [Next]_vars PROVE UnremovedWasSent'
  OBVIOUS
<1>1. redelivered \subseteq redelivered'
  BY DEF Next, Worker, Collect, ReportFailure, RequestUrls, RequestUrlsFails, PutFiles, OpenRaw,
         WriteRaw, OpenMasked, WriteMasked, Report, ProcessQueue, ScanQueue, PickFile, FinishScan,
         ReadRaw, ReadMasked, DrainRequestUrls, DrainPut, DrainReport, RemoveRaw, RemoveMasked,
         Crash, vars, cloudVars
<1>2. CASE RemoveRaw \/ RemoveMasked
  <2>1. \A u \in unremoved' : u \in unremoved \/ u[1] = drain.key
    BY <1>2 DEF RemoveRaw, RemoveMasked, CannotRemove
  <2>2. drain.pc \in {"removeRaw", "removeMasked"}
    BY <1>2 DEF RemoveRaw, RemoveMasked, DrainAt
  <2>3. \E p \in redelivered : p[1] = drain.key
    BY <2>2 DEF QueueInv, LossInv, Recorded
  <2>4. QED
    BY <1>1, <2>1, <2>3 DEF UnremovedWasSent
<1>3. CASE ~ (RemoveRaw \/ RemoveMasked)
  <2>1. UNCHANGED unremoved
    BY <1>3
    DEF Next, Worker, Collect, ReportFailure, RequestUrls, RequestUrlsFails, PutFiles, OpenRaw,
        WriteRaw, OpenMasked, WriteMasked, Report, ProcessQueue, ScanQueue, PickFile, FinishScan,
        ReadRaw, ReadMasked, DrainRequestUrls, DrainPut, DrainReport, Crash, vars, cloudVars
  <2>2. QED
    BY <1>1, <2>1 DEF UnremovedWasSent
<1>4. QED
  BY <1>2, <1>3

LEMMA NextPairsInv == PairsInv /\ [Next]_vars => PairsInv'
<1> SUFFICES ASSUME PairsInv, [Next]_vars PROVE PairsInv'
  OBVIOUS
<1>0. QueueInv /\ TypeOK
  BY DEF PairsInv, QueueInv, TypeInv
<1>1. SUFFICES ASSUME crashes' = 0, NEW b \in Backup
               PROVE  pc'[b] # "killed" /\ (Good(b)' => PairInv(b)')
  BY <1>0, NextQueueInv, NextUnremoved DEF PairsInv
<1>2. CASE Crash
  BY <1>0, <1>1, <1>2 DEF Crash, TypeOK
<1>3. CASE ~ Crash
  <2>1. UNCHANGED crashes
    BY <1>3
    DEF Next, Worker, Collect, ReportFailure, RequestUrls, RequestUrlsFails, PutFiles, OpenRaw,
        WriteRaw, OpenMasked, WriteMasked, Report, ProcessQueue, ScanQueue, PickFile, FinishScan,
        ReadRaw, ReadMasked, DrainRequestUrls, DrainPut, DrainReport, RemoveRaw, RemoveMasked, vars
  <2>2. pc[b] # "killed" /\ (Good(b) => PairInv(b))
    BY <1>1, <2>1 DEF PairsInv
  <2>3. ASSUME NEW c \in Backup, Worker(c) PROVE pc'[b] # "killed" /\ (Good(b)' => PairInv(b)')
    <3>1. pc'[b] # "killed"
      BY <1>0, <2>2, <2>3
      DEF TypeOK, Worker, Collect, ReportFailure, RequestUrls, RequestUrlsFails, PutFiles, OpenRaw,
          WriteRaw, OpenMasked, WriteMasked, Report, Goto, AfterSave
    <3>2. QED
      BY <1>0, <2>2, <2>3, <3>1, PairByWorker
  <2>4. CASE ProcessQueue
    <3>1. UNCHANGED <<pc, stamp, damaged>>
      BY <2>4, DrainSame DEF workerVars
    <3>2. Good(b)' => Good(b)
      BY <3>1 DEF Good, Spoilt, Collides, KeyOf
    <3>3. QED
      BY <1>0, <2>2, <2>4, <3>1, <3>2, PairByDrain
  <2>5. CASE UNCHANGED vars
    <3>1. UNCHANGED <<pc, stamp, damaged, drain, rawFile, maskedFile, unremoved>>
      BY <2>5 DEF vars, workerVars, fileVars, cloudVars
    <3>2. (Good(b)' => Good(b)) /\ KeyOf(b)' = KeyOf(b)
      BY <3>1 DEF Good, Spoilt, Collides, KeyOf
    <3>3. QED
      BY <2>2, <3>1, <3>2, PairElsewhere
  <2>6. QED
    BY <1>3, <2>3, <2>4, <2>5 DEF Next
<1>4. QED
  BY <1>2, <1>3

(* A queue file without its other half is one of a save or a removal under
   way, of a save that was spoilt, dates from before a crash, or is the very
   file that a removal failed on after its pair was sent: requests and reads
   that fail, however many, leave none behind.                              *)
THEOREM OrphansKnown == Spec => []OrphansAreKnown
<1>1. Init => PairsInv
  BY InitQueueInv DEF PairsInv, UnremovedWasSent, Good, Init
<1>2. PairsInv => OrphansAreKnown
  <2> SUFFICES ASSUME PairsInv, NEW k \in Key, (rawFile[k] = Absent) # (maskedFile[k] = Absent),
                      ~ Busy(k), ~ SpoiltAt(k), ~ (crashes > 0),
                      ~ (drain.key = k /\ drain.pc = "removeMasked")
               PROVE  LeftBehind(k)
    BY DEF OrphansAreKnown
  <2>0. TypeOK /\ StoredInv /\ Owned
    BY DEF PairsInv, QueueInv, TypeInv, LossInv
  <2>1. crashes = 0
    BY <2>0, BoundsAssumption DEF TypeOK
  <2>2. PICK b \in Backup : stamp[b] # NoTime /\ KeyOf(b) = k
    BY <2>0 DEF Owned, HasOwner
  <2>3. Good(b) /\ PairInv(b) /\ pc[b] # "killed"
    BY <2>1, <2>2 DEF PairsInv, Good, SpoiltAt
  <2>4. pc[b] \notin Saving
    BY <2>2 DEF Busy
  <2>5. pc[b] \notin BeforeSave
    BY <2>0, <2>2 DEF StoredInv, Unsaved
  <2>6. pc[b] \in {"report", "done"}
    BY <2>0, <2>3, <2>4, <2>5 DEF TypeOK, WorkerPC, Ended, BeforeSave
  <2>7. <<k, IF rawFile[k] = Absent THEN "masked" ELSE "raw">> \in unremoved
    BY <2>2, <2>3, <2>6 DEF PairInv, AtKey, Failed
  <2>8. QED
    BY <2>7 DEF LeftBehind, PairsInv, UnremovedWasSent
<1>3. QED
  BY <1>1, <1>2, NextPairsInv, PTL DEF Spec

=============================================================================
