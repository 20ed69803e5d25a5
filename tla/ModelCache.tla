------------------------------ MODULE ModelCache ------------------------------
(***************************************************************************)
(* GetDeviceModel and the use SanitizeConfig makes of it                   *)
(* (driver/sanitizer.go): the models of the vendors are parsed when they   *)
(* are first needed, by backups that run at once, under an RWMutex with a  *)
(* check before and one after the lock.  A model is told from another one  *)
(* by who parsed it.  A vendor that LoadConfig accepts has a model that    *)
(* parses.  A read section changes nothing and is one step.                *)
(***************************************************************************)
EXTENDS Naturals

CONSTANTS Session, Process, ProcessOf, Vendor, VendorOf, None

CacheAssumption ==
  /\ ProcessOf \in [Session -> Process] /\ VendorOf \in [Session -> Vendor]
  /\ None \notin Session

VARIABLES
  step,        \* where each session is
  model,       \* the model GetDeviceModel returned to it
  writer,      \* who has cacheLock for writing, in each process
  modelsCache, regexCache,   \* who filled them, by process and vendor
  filters      \* the regular expressions SanitizeConfig used

vars == <<step, model, writer, modelsCache, regexCache, filters>>

Steps == {"idle", "absent", "compiling", "ready", "sanitized", "killed"}
TypeOK ==
  /\ step \in [Session -> Steps]
  /\ model \in [Session -> Session \cup {None}]
  /\ filters \in [Session -> Session \cup {None}]
  /\ writer \in [Process -> Session \cup {None}]
  /\ modelsCache \in [Process \X Vendor -> Session \cup {None}]
  /\ regexCache \in [Process \X Vendor -> Session \cup {None}]

Init ==
  /\ step = [s \in Session |-> "idle"]
  /\ model = [s \in Session |-> None] /\ filters = [s \in Session |-> None]
  /\ writer = [p \in Process |-> None]
  /\ modelsCache = [c \in Process \X Vendor |-> None]
  /\ regexCache = [c \in Process \X Vendor |-> None]

Entry(s)  == <<ProcessOf[s], VendorOf[s]>>
Cached(s) == modelsCache[Entry(s)]
Goto(s, from, to) == step[s] = from /\ step' = [step EXCEPT ![s] = to]

-----------------------------------------------------------------------------
(* Slip: the reader does not lock *)
MayReadAlways(s) == TRUE
MayRead(s) == writer[ProcessOf[s]] = None
ReadModel(s) ==
  /\ MayRead(s)
  /\ IF Cached(s) = None THEN Goto(s, "idle", "absent") /\ UNCHANGED model
     ELSE Goto(s, "idle", "ready") /\ model' = [model EXCEPT ![s] = Cached(s)]
  /\ UNCHANGED <<writer, modelsCache, regexCache, filters>>

(* Double check *)
Filled(s) == Cached(s) # None
DoubleCheck(s) ==
  /\ writer[ProcessOf[s]] = None /\ Filled(s)
  /\ Goto(s, "absent", "ready") /\ model' = [model EXCEPT ![s] = Cached(s)]
  /\ UNCHANGED <<writer, modelsCache, regexCache, filters>>
ParseModel(s) ==
  /\ writer[ProcessOf[s]] = None /\ ~ Filled(s)
  /\ Goto(s, "absent", "compiling")
  /\ writer' = [writer EXCEPT ![ProcessOf[s]] = s]
  /\ modelsCache' = [modelsCache EXCEPT ![Entry(s)] = s]
  /\ UNCHANGED <<model, regexCache, filters>>
CompileFilters(s) ==
  /\ Goto(s, "compiling", "ready")
  /\ regexCache' = [regexCache EXCEPT ![Entry(s)] = s]
  /\ writer' = [writer EXCEPT ![ProcessOf[s]] = None]
  /\ model' = [model EXCEPT ![s] = s]
  /\ UNCHANGED <<modelsCache, filters>>

(* SanitizeConfig asks for the model, which is there by now, then reads *)
Sanitize(s) ==
  /\ Goto(s, "ready", "sanitized") /\ MayRead(s)
  /\ filters' = [filters EXCEPT ![s] = regexCache[Entry(s)]]
  /\ UNCHANGED <<model, writer, modelsCache, regexCache>>

(* A process ends with its sessions and its cache *)
Killed(p) ==
  LET Without(f) == [s \in Session |-> IF ProcessOf[s] = p THEN None ELSE f[s]]
      Emptied(f) == [c \in DOMAIN f |-> IF c[1] = p THEN None ELSE f[c]]
  IN /\ step' = [s \in Session |-> IF ProcessOf[s] = p THEN "killed" ELSE step[s]]
     /\ model' = Without(model) /\ filters' = Without(filters)
     /\ modelsCache' = Emptied(modelsCache) /\ regexCache' = Emptied(regexCache)
     /\ writer' = [writer EXCEPT ![p] = None]

GetDeviceModel(s) == ReadModel(s) \/ DoubleCheck(s) \/ ParseModel(s) \/ CompileFilters(s)
Next == \/ \E s \in Session : GetDeviceModel(s) \/ Sanitize(s)
        \/ \E p \in Process : Killed(p)
Spec == Init /\ [][Next]_vars

-----------------------------------------------------------------------------
(* All the backups of a vendor in one process use one model, and each is
   sanitized with the filters of that model: no backup meets the cache between
   the entry of a model and that of its filters, which would leave the noise
   in the text without an error.                                            *)
FiltersOfModel ==
  \A s \in Session :
    /\ step[s] \in {"ready", "sanitized"} => model[s] = Cached(s) /\ model[s] # None
    /\ step[s] = "sanitized" => filters[s] = model[s]
=============================================================================
