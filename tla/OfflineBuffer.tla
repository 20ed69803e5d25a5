---------------------------- MODULE OfflineBuffer ----------------------------
(***************************************************************************)
(* What the upload pipeline promises for one backup: from the moment       *)
(* UploadBackup has ended with the error "queued locally" the backup is    *)
(* held in the queue until it is stored in the cloud, and it leaves the    *)
(* queue only when it is.  The promise is void once the backup is excused: *)
(* UploadQueue says for which reasons the code does not keep it.           *)
(***************************************************************************)
VARIABLES
  held,       \* both its files are in the queue, whole
  stored,     \* both its objects are in the cloud
  told,       \* UploadBackup has ended, with an error
  excused

vars == <<held, stored, told, excused>>

Init == ~ held /\ ~ stored /\ ~ told /\ ~ excused

(* Saved in the queue; UploadBackup may end with the same step *)
Accept ==
  /\ ~ told /\ ~ held /\ held' /\ told' \in BOOLEAN
  /\ UNCHANGED <<stored, excused>>
Tell ==
  /\ ~ told /\ told' /\ (held \/ stored)
  /\ UNCHANGED <<held, stored, excused>>
(* By the worker itself, or by ProcessQueue out of the queue *)
Upload ==
  /\ ~ stored /\ stored' /\ (told => held)
  /\ UNCHANGED <<held, told, excused>>
Take ==
  /\ held /\ ~ held' /\ stored
  /\ UNCHANGED <<stored, told, excused>>
(* Even then what is stored stays so, and what was told was told *)
Excuse ==
  /\ excused' /\ (told => told') /\ (stored => stored')
  /\ held' \in BOOLEAN /\ stored' \in BOOLEAN /\ told' \in BOOLEAN

Next == Accept \/ Tell \/ Upload \/ Take \/ Excuse
Spec == Init /\ [][Next]_vars
=============================================================================
