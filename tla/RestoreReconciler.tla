-------------------------- MODULE RestoreReconciler --------------------------
(***************************************************************************)
(* The Restore controller of one hub (controllers/restore_controller.go,   *)
(* controllers/restore.go): one Restore resource, the Velero restores it   *)
(* creates, and the Reconcile loop that drives them.                       *)
(*                                                                         *)
(* A pass of Reconcile is cut at its API writes: Begin (reads and guards), *)
(* MarkStarted (the early status update), Plan (initVeleroRestores up to   *)
(* the loop), Create (one iteration of the loop), Cleanup (cleanupOnRestore*)
(* and cleanupOrphanedVeleroRestores) and WriteStatus.  Velero, the user,  *)
(* the informers and the operator pod act between any two of these.        *)
(***************************************************************************)
EXTENDS Naturals, FiniteSets

CONSTANTS
    skip, latest,     \* the two reserved backup names of a Restore spec
    Cycles,           \* backup timestamps, one per run of the backup schedules
    Specs,            \* the Restore specs the user may write
    InitialBackups,   \* sets of <<type, cycle>> the hub may start with
    Arriving,         \* backups Velero may still sync from the storage
    VeleroWorkers,    \* how many restores Velero has under way at a time
    Outcomes,         \* terminal phases Velero gives its restores here
    Lagging,          \* informers that may lag behind the API server
    Faults,           \* kinds of disturbance that may happen
    MaxFaults         \* bound on the number of disturbances

NoCycle == 0          \* the empty string in a Status.Velero*RestoreName field

BackupTypes == {"Credentials", "Resources", "ResourcesGeneric", "ManagedClusters"}

Active == {"ResourcesGenericActive", "CredentialsActive"}

Keys == BackupTypes \cup Active

(* The order in which the loop of initVeleroRestores walks the keys.       *)
ResourceTypePriority ==
    [k \in Keys |->
        CASE k = "Credentials" -> 0
          [] k = "Resources" -> 1
          [] k = "ResourcesGeneric" -> 2
          [] k = "ResourcesGenericActive" -> 3
          [] k = "CredentialsActive" -> 4
          [] k = "ManagedClusters" -> 5]

Names == Cycles \cup {skip, latest}

RestoreSpec ==
    [sync: BOOLEAN, mc: Names, creds: Names, res: Names,
     cleanup: {"None", "CleanupRestored", "CleanupAll", "invalid"}]

(* A Velero restore is named after its backup, plus the -active suffix.    *)
Ids == BackupTypes \X Cycles \X BOOLEAN

(* "" counts as New, FailedValidation as Failed and                        *)
(* WaitingForPluginOperations[PartiallyFailed] as Finalizing[...]: the     *)
(* operator tells none of these pairs apart.                               *)
VeleroPhases ==
    {"absent", "New", "InProgress", "Finalizing", "FinalizingPartiallyFailed",
     "Completed", "PartiallyFailed", "Failed"}

Phases ==
    {"", "Started", "Running", "Finished", "FinishedWithErrors",
     "Error", "EnabledError", "Enabled"}

Terminal == {"Finished", "FinishedWithErrors"}

Restores ==
    [spec: Specs, phase: Phases,
     tracked: [BackupTypes -> Cycles \cup {NoCycle}],
     bslMsg: BOOLEAN,      \* LastMessage mentions BackupStorageLocation
     completed: BOOLEAN]   \* CompletionTimestamp is set

FaultKinds ==
    {"createError", "updateError", "listError", "crash", "bsl", "backupGone",
     "restoreGone", "blocked", "edit", "taskError"}

ASSUME ConstantsAssumption ==
    /\ Cycles \subseteq Nat \ {NoCycle}
    /\ skip # latest /\ skip \notin Cycles /\ latest \notin Cycles
    /\ Specs \subseteq RestoreSpec /\ Specs # {}
    /\ InitialBackups \subseteq SUBSET (BackupTypes \X Cycles)
    /\ Arriving \subseteq BackupTypes \X Cycles
    /\ VeleroWorkers \in Nat
    /\ Outcomes \subseteq {"Completed", "PartiallyFailed", "Failed"}
    /\ Lagging \subseteq {"restore", "veleroRestore"}
    /\ Faults \subseteq FaultKinds
    /\ MaxFaults \in Nat

VARIABLES
    backups,     \* completed Velero backups visible on this hub
    gone,        \* backups deleted from the storage
    vr,          \* the Velero restores owned by the Restore, by id
    vrSeen,      \* vr as the operator's informer cache has it
    restore,     \* the Restore resource in the API server
    cached,      \* the Restore as the operator's informer cache has it
    fresh,       \* cached has the resourceVersion of restore
    bsl,         \* an available BackupStorageLocation exists
    pvcReady,    \* the PVCs named by restored backup-pvc configmaps exist
    otherActive, \* another active BackupSchedule or Restore in the namespace
    queued,      \* the workqueue holds the Restore's key
    timer,       \* a RequeueAfter is pending
    pc, job,     \* the reconcile pass in progress and its local state
    posts,       \* how often executePostRestoreTasks activated clusters
    faults       \* disturbances so far

apiVars == <<backups, gone, vr, vrSeen, restore, cached, fresh>>
envVars == <<bsl, pvcReady, otherActive>>
vars == <<backups, gone, vr, vrSeen, restore, cached, fresh, bsl, pvcReady,
          otherActive, queued, timer, pc, job, posts, faults>>

PostCap == 2          \* posts saturates: once or more than once

PCs == {"idle", "mark", "plan", "create", "cleanup", "write"}

(* obj: the in-memory Restore; stale: its resourceVersion is out of date;  *)
(* empty, missing, pvcStep: what the list read at the start of the pass    *)
(* says (pvcStep: what isPVCInitializationStep may make of it);            *)
(* todo: keys left in the creation loop with the backup each one restores; *)
(* gated: ManagedClusters is in the map; touched: CompletionTimestamp was  *)
(* set to the current time (or LastMessage appended to) in this pass.      *)
Jobs ==
    [obj: Restores, stale: BOOLEAN, empty: BOOLEAN, missing: BOOLEAN, pvcStep: SUBSET BOOLEAN,
     todo: SUBSET (Keys \X Cycles), gated: BOOLEAN, created: BOOLEAN,
     failed: BOOLEAN, eligible: BOOLEAN, touched: BOOLEAN, after: BOOLEAN]

-----------------------------------------------------------------------------
(* Pure helpers of restore.go and of the API package.  A definition whose  *)
(* name ends in _Mutant is a plausible wrong version of the one after it;  *)
(* it is used only to show that a property would notice the mistake.       *)

IsPhaseEnabled(obj) == obj.phase \in {"Enabled", "EnabledError"}

isValidSyncOptions(spec) ==
    spec.sync /\ spec.mc \in {skip, latest} /\ spec.creds = latest /\ spec.res = latest

isSkipAllRestores(spec) == spec.mc = skip /\ spec.creds = skip /\ spec.res = skip

isValidCleanupOption(spec) == spec.cleanup # "invalid"

(* validateSyncMode of the admission webhook, on create and on update.     *)
validateRestore(obj) ==
    obj.spec.sync =>
        /\ isValidSyncOptions(obj.spec)
        /\ \/ IsPhaseEnabled(obj)
           \/ obj.spec.mc = skip
           \/ obj.tracked["ManagedClusters"] # NoCycle

ErrorPhase_Mutant(spec) == IF isValidSyncOptions(spec) THEN "EnabledError" ELSE "Unknown"

ErrorPhase(spec) == IF isValidSyncOptions(spec) THEN "EnabledError" ELSE "Error"

(* updateRestoreStatus: every message but the storage ones clears bslMsg.  *)
updateRestoreStatus(obj, phase, aboutBSL) ==
    [obj EXCEPT !.phase = IF phase = "Error" THEN ErrorPhase(obj.spec) ELSE phase,
                !.bslMsg = aboutBSL,
                !.completed = @ \/ phase \in Terminal]

Existing(v) == {id \in Ids : v[id] # "absent"}

(* The restores named in the status, or their -active variants; all of     *)
(* them while the status names none.                                       *)
getLatestVeleroRestores(obj, v) ==
    {id \in Existing(v) :
        \/ \A t \in BackupTypes : obj.tracked[t] = NoCycle
        \/ obj.tracked[id[1]] = id[2]}

isVeleroRestoreFinished_Mutant(phase) ==
    phase \in {"Finalizing", "Completed", "PartiallyFailed", "Failed"}

isVeleroRestoreFinished(phase) == phase \in {"Completed", "PartiallyFailed", "Failed"}

With(obj, phase) == [obj EXCEPT !.phase = phase, !.bslMsg = FALSE]

PhaseResult(obj, cleanup) == [obj |-> obj, cleanup |-> cleanup]

(* What one New, InProgress or Failed restore makes of the ACM phase.      *)
FromVeleroPhase(obj, phase) ==
    CASE phase = "New" -> PhaseResult(With(obj, "Started"), FALSE)
      [] phase = "InProgress" -> PhaseResult(With(obj, "Running"), FALSE)
      [] OTHER ->
            IF IsPhaseEnabled(obj) \/ isValidSyncOptions(obj.spec)
            THEN PhaseResult(With(obj, "EnabledError"), TRUE)
            ELSE PhaseResult(With(obj, "Error"), FALSE)

(* A restore that decides the ACM phase by itself.                         *)
Decides_Mutant(phase) == phase \in {"New", "Failed"}

Decides(phase) == phase \in {"New", "InProgress", "Failed"}

(* The possible results of setRestorePhase: the first restore of the list  *)
(* that is New, InProgress or Failed decides, and a cached list comes in   *)
(* no particular order.                                                    *)
setRestorePhase(obj, v) ==
    LET current  == getLatestVeleroRestores(obj, v)
        decisive == {id \in current : Decides(v[id])}
        partial  == \E id \in current :
                        v[id] \in {"FinalizingPartiallyFailed", "PartiallyFailed"}
    IN  IF obj.phase = "Enabled" /\ obj.spec.sync
        THEN {PhaseResult(obj, FALSE)}
        ELSE IF Existing(v) = {}
        THEN {PhaseResult(
                With(obj, IF isSkipAllRestores(obj.spec) THEN "Finished" ELSE "Started"),
                FALSE)}
        ELSE IF decisive # {}
        THEN {FromVeleroPhase(obj, v[id]) : id \in decisive}
        ELSE IF isValidSyncOptions(obj.spec) /\ obj.spec.mc = skip
        THEN {PhaseResult(With(obj, "Enabled"), TRUE)}
        ELSE IF \A id \in current : isVeleroRestoreFinished(v[id])
        THEN {PhaseResult(
                With(obj, IF partial THEN "FinishedWithErrors" ELSE "Finished"), FALSE)}
        ELSE {PhaseResult(obj, FALSE)}

BackupTypeOf(k) ==
    CASE k = "ResourcesGenericActive" -> "ResourcesGeneric"
      [] k = "CredentialsActive" -> "Credentials"
      [] OTHER -> k

SpecName(spec, k) ==
    CASE k = "ManagedClusters" -> spec.mc
      [] k \in {"Credentials", "CredentialsActive"} -> spec.creds
      [] OTHER -> spec.res

getVeleroBackupName_Mutant(k, name) ==
    LET cycles == {c \in Cycles : <<BackupTypeOf(k), c>> \in backups}
    IN  IF name = latest
        THEN {c \in cycles : k = "Credentials" \/ \A d \in cycles : d <= c}
        ELSE cycles \cap {name}

(* The cycle getVeleroBackupName picks (none, or one): the most recent     *)
(* backup of the type, or the one of the named cycle.                      *)
getVeleroBackupName(k, name) ==
    LET cycles == {c \in Cycles : <<BackupTypeOf(k), c>> \in backups}
    IN  IF name = latest
        THEN {c \in cycles : \A d \in cycles : d <= c}
        ELSE cycles \cap {name}

(* Keys retrieveRestoreDetails considers.                                  *)
RestoreKeys(spec, onlyManagedClusters) ==
    {k \in Keys :
        /\ onlyManagedClusters => k \in Active \cup {"ManagedClusters"}
        /\ spec.mc = skip => k \notin Active}

retrieveRestoreDetails(spec, onlyManagedClusters) ==
    {e \in RestoreKeys(spec, onlyManagedClusters) \X Cycles :
        /\ SpecName(spec, e[1]) # skip
        /\ e[2] \in getVeleroBackupName(e[1], SpecName(spec, e[1]))}

(* A missing backup is an error, except for the generic resources and the  *)
(* activation keys.                                                        *)
BackupMissing(spec, onlyManagedClusters) ==
    \E k \in RestoreKeys(spec, onlyManagedClusters) \ (Active \cup {"ResourcesGeneric"}) :
        /\ SpecName(spec, k) # skip
        /\ getVeleroBackupName(k, SpecName(spec, k)) = {}

(* The Velero restore a key creates: activation restores get a suffix.     *)
RestoreId(spec, e) ==
    <<BackupTypeOf(e[1]), e[2], e[1] \in Active /\ SpecName(spec, e[1]) # skip>>

isNewBackupAvailable_Mutant(obj, t) ==
    /\ obj.tracked[t] # NoCycle
    /\ \E c \in getVeleroBackupName(t, latest) :
        /\ c # obj.tracked[t]
        /\ \/ vrSeen[<<t, obj.tracked[t], FALSE>>] = "absent"
           \/ <<t, obj.tracked[t]>> \notin backups

isNewBackupAvailable(obj, t) ==
    /\ obj.tracked[t] # NoCycle
    /\ \E c \in getVeleroBackupName(t, latest) :
        /\ c # obj.tracked[t]
        /\ \/ vrSeen[<<t, obj.tracked[t], FALSE>>] = "absent"
           \/ <<t, obj.tracked[t]>> \notin backups
           \/ obj.tracked[t] < c

areTrackedRestoresMissing(obj, v) ==
    \E t \in BackupTypes :
        obj.tracked[t] # NoCycle /\ v[<<t, obj.tracked[t], FALSE>>] = "absent"

(* External: when Velero takes a restore up it fills in Spec.ScheduleName  *)
(* from the backup.  One that has failed may have been refused before that.*)
ScheduleNames(phase) ==
    CASE phase \in {"absent", "New"} -> {FALSE}
      [] phase = "Failed" -> BOOLEAN
      [] OTHER -> {TRUE}

(* The possible results of isPVCInitializationStep: managed clusters are   *)
(* asked for and no restore of theirs has a ScheduleName.                  *)
isPVCInitializationStep(spec, v) ==
    {wait \in BOOLEAN :
        IF wait
        THEN /\ spec.mc # skip
             /\ \A c \in Cycles : FALSE \in ScheduleNames(v[<<"ManagedClusters", c, FALSE>>])
        ELSE \/ spec.mc = skip
             \/ \E c \in Cycles : TRUE \in ScheduleNames(v[<<"ManagedClusters", c, FALSE>>])}

(* An available storage location; another BackupSchedule or Restore of the *)
(* namespace that is active: both are facts about the surroundings.        *)
validateStorageSettings == bsl

isOtherResourcesRunning == otherActive

-----------------------------------------------------------------------------
(* Writes to the API server, with what the informers make of them.         *)

CanFail(kind) == kind \in Faults /\ faults < MaxFaults

Fault(kind) == CanFail(kind) /\ faults' = faults + 1

VRChanged(v) ==
    /\ vr' = v
    /\ vrSeen' = IF "veleroRestore" \in Lagging THEN vrSeen ELSE v

VREvent == vrSeen' # vrSeen

RestoreChanged(obj) ==
    /\ restore' = obj
    /\ cached' = IF "restore" \in Lagging THEN cached ELSE obj
    /\ fresh' = (fresh /\ "restore" \notin Lagging)

RestoreUnchanged == UNCHANGED <<restore, cached, fresh>>

VRUnchanged == UNCHANGED <<vr, vrSeen>>

NoTracked == [t \in BackupTypes |-> NoCycle]

NewJob(obj, stale) ==
    [obj |-> obj, stale |-> stale,
     empty |-> Existing(vrSeen) = {},
     missing |-> areTrackedRestoresMissing(obj, vrSeen),
     pvcStep |-> isPVCInitializationStep(obj.spec, vrSeen),
     todo |-> {}, gated |-> FALSE, created |-> FALSE, failed |-> FALSE,
     eligible |-> FALSE, touched |-> FALSE, after |-> FALSE]

NewRestore(spec) ==
    [spec |-> spec, phase |-> "", tracked |-> NoTracked,
     bslMsg |-> FALSE, completed |-> FALSE]

NoJob ==
    [obj |-> NewRestore(CHOOSE spec \in Specs : TRUE), stale |-> FALSE,
     empty |-> FALSE, missing |-> FALSE, pvcStep |-> {}, todo |-> {}, gated |-> FALSE,
     created |-> FALSE, failed |-> FALSE, eligible |-> FALSE,
     touched |-> FALSE, after |-> FALSE]

(* The end of a pass: its local state is gone.                             *)
Return == pc' = "idle" /\ job' = NoJob

-----------------------------------------------------------------------------
(* The reconcile pass.                                                     *)

(* Reconcile leaves a completed Restore alone.                             *)
IsCompleted_Mutant(obj) == obj.phase = "Finished"

IsCompleted(obj) == obj.phase \in Terminal

(* The checks of Reconcile in order; each one ends the pass, writes the    *)
(* status and ends it, or lets the pass go on.                             *)
Begin ==
    /\ pc = "idle" /\ queued
    /\ queued' = FALSE
    /\ LET obj == cached
           j   == NewJob(obj, ~fresh)
           EndWith(result, again) ==
               /\ pc' = "write"
               /\ job' = [j EXCEPT !.obj = result, !.after = again,
                                   !.touched = result.phase \in Terminal]
           recover == obj.phase \in {"Error", "EnabledError"} /\ obj.bslMsg
       IN  \/ IsCompleted(obj) /\ Return
           \/ /\ ~IsCompleted(obj)
              /\ isOtherResourcesRunning \/ ~isValidCleanupOption(obj.spec)
              /\ EndWith(updateRestoreStatus(obj, "FinishedWithErrors", FALSE), FALSE)
           \/ /\ ~IsCompleted(obj)
              /\ ~isOtherResourcesRunning /\ isValidCleanupOption(obj.spec)
              /\ \/ /\ ~validateStorageSettings
                    /\ EndWith(updateRestoreStatus(obj, "Error", TRUE), TRUE)
                 \/ /\ validateStorageSettings /\ recover
                    /\ \E r \in setRestorePhase(obj, vrSeen) :
                         /\ pc' = "write"
                         /\ job' = [j EXCEPT !.obj = r.obj]
                 \/ /\ validateStorageSettings /\ ~recover
                    /\ pc' = IF obj.spec.cleanup # "None" /\ obj.phase = ""
                             THEN "mark" ELSE "plan"
                    /\ job' = j
    /\ UNCHANGED <<apiVars, envVars, timer, posts, faults>>

(* A refused status update ends the pass with an error: the key is put     *)
(* back on the queue.                                                      *)
UpdateRefused ==
    /\ \/ job.stale /\ UNCHANGED faults
       \/ ~job.stale /\ Fault("updateError")
    /\ queued' = TRUE
    /\ Return
    /\ UNCHANGED <<apiVars, envVars, timer, posts>>

MarkStarted ==
    /\ pc = "mark"
    /\ ~job.stale
    /\ LET obj == With(job.obj, "Started")
       IN  RestoreChanged(obj) /\ job' = [job EXCEPT !.obj = obj]
    /\ queued' = (queued \/ "restore" \notin Lagging)
    /\ pc' = "plan"
    /\ UNCHANGED <<backups, gone, vr, vrSeen, envVars, timer, posts, faults>>

(* initVeleroRestores before its loop.                                     *)
Plan ==
    /\ pc = "plan"
    /\ \E pvcStep \in job.pvcStep :
       LET obj  == job.obj
           sync == isValidSyncOptions(obj.spec) /\ IsPhaseEnabled(obj)
           initOrPVC == job.empty \/ sync \/ pvcStep
           new  == isNewBackupAvailable(obj, "Resources")
                       \/ isNewBackupAvailable(obj, "Credentials")
           only == /\ sync /\ ~new
                   /\ obj.tracked["ManagedClusters"] = NoCycle /\ obj.spec.mc = latest
           upToDate == sync /\ ~new /\ ~only /\ ~job.missing
           plan == retrieveRestoreDetails(obj.spec, only)
           Noop == /\ pc' = "cleanup"
                   /\ job' = [job EXCEPT
                        !.obj = updateRestoreStatus(obj, "Finished", FALSE),
                        !.touched = TRUE]
       IN  \/ /\ ~initOrPVC \/ upToDate
              /\ pc' = "cleanup"
              /\ job' = [job EXCEPT !.eligible = TRUE]
              /\ UNCHANGED faults
           \/ /\ initOrPVC /\ ~upToDate
              /\ \/ Fault("listError") /\ Noop
                 \/ /\ BackupMissing(obj.spec, only)
                    /\ pc' = "write"
                    /\ job' = [job EXCEPT !.obj = updateRestoreStatus(obj, "Error", FALSE),
                                          !.after = TRUE]
                    /\ UNCHANGED faults
                 \/ ~BackupMissing(obj.spec, only) /\ plan = {} /\ Noop /\ UNCHANGED faults
                 \/ /\ ~BackupMissing(obj.spec, only) /\ plan # {}
                    /\ pc' = "create"
                    /\ job' = [job EXCEPT !.todo = plan,
                            !.gated = \E e \in plan : e[1] = "ManagedClusters"]
                    /\ UNCHANGED faults
    /\ UNCHANGED <<apiVars, envVars, queued, timer, posts>>

(* The activation credentials are not there yet, or the PVCs that they     *)
(* ask for are not.                                                        *)
processRestoreWait_Mutant(id) == ~pvcReady

processRestoreWait(id) ==
    vrSeen'[id] \in {"absent", "New", "InProgress"} \/ ~pvcReady

(* Cleanup may run: this pass created nothing and no creation failed.      *)
noNewVeleroRestore(j) == ~j.created /\ ~j.failed

(* The end of an iteration: processRestoreWait on the activation           *)
(* credentials, the next key, or the end of the loop.                      *)
AfterCreate_Mutant(e, j) ==
    IF e[1] = "CredentialsActive" /\ j.gated /\ processRestoreWait(RestoreId(j.obj.spec, e))
    THEN /\ pc' = "write"
         /\ job' = [j EXCEPT !.obj = With(@, "Started"), !.todo = {}]
    ELSE LET rest == j.todo \ {e}
         IN  IF rest # {}
             THEN pc' = "create" /\ job' = [j EXCEPT !.todo = rest]
             ELSE /\ pc' = "cleanup"
                  /\ job' = [j EXCEPT !.todo = {},
                        !.obj = IF j.created THEN With(@, "Started") ELSE @,
                        !.eligible = noNewVeleroRestore(j)]

AfterCreate(e, j) ==
    IF e[1] = "CredentialsActive" /\ j.gated /\ processRestoreWait(RestoreId(j.obj.spec, e))
    THEN /\ pc' = "write"
         /\ job' = [j EXCEPT !.obj = With(@, "Started"), !.todo = {}, !.after = TRUE]
    ELSE LET rest == j.todo \ {e}
         IN  IF rest # {}
             THEN pc' = "create" /\ job' = [j EXCEPT !.todo = rest]
             ELSE /\ pc' = "cleanup"
                  /\ job' = [j EXCEPT !.todo = {},
                        !.obj = IF j.created THEN With(@, "Started") ELSE @,
                        !.eligible = noNewVeleroRestore(j)]

Track(obj, e) ==
    IF e[1] \in Active THEN obj ELSE [obj EXCEPT !.tracked[e[1]] = e[2]]

(* One iteration of the creation loop.  A restore that already exists is   *)
(* tracked only for Credentials and ResourcesGeneric.                      *)
Create ==
    /\ pc = "create"
    /\ \E e \in job.todo :
        /\ \A f \in job.todo : ResourceTypePriority[e[1]] <= ResourceTypePriority[f[1]]
        /\ LET id == RestoreId(job.obj.spec, e)
           IN  \/ /\ Fault("createError")
                  /\ VRUnchanged
                  /\ AfterCreate(e, [job EXCEPT !.failed = TRUE])
               \/ /\ vr[id] # "absent"
                  /\ VRUnchanged
                  /\ AfterCreate(e, IF e[1] \in {"Credentials", "ResourcesGeneric"}
                                    THEN [job EXCEPT !.obj = Track(@, e)] ELSE job)
                  /\ UNCHANGED faults
               \/ /\ vr[id] = "absent"
                  /\ VRChanged([vr EXCEPT ![id] = "New"])
                  /\ AfterCreate(e, [job EXCEPT !.obj = Track(@, e), !.created = TRUE])
                  /\ UNCHANGED faults
    /\ queued' = (queued \/ VREvent)
    /\ RestoreUnchanged
    /\ UNCHANGED <<backups, gone, envVars, timer, posts>>

(* cleanupOnRestore when eligible, then cleanupOrphanedVeleroRestores and  *)
(* the rest of Reconcile up to the status update.  Hub resources removed   *)
(* by cleanupDeltaResources are outside this module.                       *)
Orphans(obj) ==
    {id \in Existing(vrSeen) \ getLatestVeleroRestores(obj, vrSeen) :
        <<id[1], id[2]>> \notin backups}

Conclude_Mutant(obj, stamped) ==
    /\ VRChanged([id \in Ids |-> IF id \in Orphans(obj) THEN "absent" ELSE vr[id]])
    /\ pc' = "write"
    /\ job' = [job EXCEPT !.obj = obj, !.after = obj.spec.sync /\ IsPhaseEnabled(obj)]

Conclude(obj, stamped) ==
    /\ VRChanged([id \in Ids |-> IF id \in Orphans(obj) THEN "absent" ELSE vr[id]])
    /\ pc' = "write"
    /\ job' = [job EXCEPT
            !.obj = [obj EXCEPT !.completed = @ \/ stamped],
            !.touched = @ \/ stamped \/ (obj.spec.sync /\ ~isValidSyncOptions(obj.spec)),
            !.after = obj.spec.sync /\ IsPhaseEnabled(obj)]

(* A failing list of managed clusters ends the tasks before the clusters   *)
(* are activated, and is only logged.                                      *)
executePostRestoreTasks(obj) ==
    IF obj.phase \in Terminal /\ obj.spec.mc # skip
    THEN \/ posts' = (IF posts < PostCap THEN posts + 1 ELSE posts) /\ UNCHANGED faults
         \/ Fault("taskError") /\ UNCHANGED posts
    ELSE UNCHANGED <<posts, faults>>

Cleanup ==
    /\ pc = "cleanup"
    /\ \/ /\ job.eligible
          /\ \E r \in setRestorePhase(job.obj, vrSeen) :
               /\ Conclude(r.obj, r.cleanup \/ r.obj.phase \in Terminal)
               /\ executePostRestoreTasks(r.obj)
       \/ /\ ~job.eligible
          /\ Conclude(job.obj, FALSE)
          /\ UNCHANGED <<posts, faults>>
    /\ queued' = (queued \/ VREvent)
    /\ RestoreUnchanged
    /\ UNCHANGED <<backups, gone, envVars, timer>>

WriteStatus_Mutant ==
    /\ pc = "write"
    /\ RestoreChanged(job.obj)
    /\ queued' = (queued \/ "restore" \notin Lagging)
    /\ timer' = (timer \/ job.after)
    /\ Return
    /\ UNCHANGED <<backups, gone, vr, vrSeen, envVars, posts, faults>>

(* The final status update.  An update that changes nothing bumps no       *)
(* resourceVersion; a new timestamp may or may not fall in the same second.*)
WriteStatus ==
    /\ pc = "write"
    /\ ~job.stale
    /\ \/ /\ job.obj = restore
          /\ RestoreUnchanged /\ UNCHANGED queued
       \/ /\ job.obj # restore \/ job.touched
          /\ RestoreChanged(job.obj)
          /\ queued' = (queued \/ "restore" \notin Lagging)
    /\ timer' = (timer \/ job.after)
    /\ Return
    /\ UNCHANGED <<backups, gone, vr, vrSeen, envVars, posts, faults>>

Refused == pc \in {"mark", "write"} /\ UpdateRefused

Reconcile ==
    Begin \/ MarkStarted \/ Plan \/ Create \/ Cleanup \/ WriteStatus \/ Refused

-----------------------------------------------------------------------------
(* The surroundings.                                                       *)

RequeueAfter ==
    /\ timer
    /\ timer' = FALSE /\ queued' = TRUE
    /\ UNCHANGED <<apiVars, envVars, pc, job, posts, faults>>

(* A user edits the spec; the webhook may refuse it.                       *)
UserEdit(spec) ==
    /\ spec # restore.spec
    /\ validateRestore([restore EXCEPT !.spec = spec])
    /\ Fault("edit")
    /\ RestoreChanged([restore EXCEPT !.spec = spec])
    /\ queued' = (queued \/ "restore" \notin Lagging)
    /\ job' = IF pc = "idle" THEN job ELSE [job EXCEPT !.stale = TRUE]
    /\ UNCHANGED <<backups, gone, vr, vrSeen, envVars, timer, pc, posts>>

RestoreInformer ==
    /\ ~fresh
    /\ cached' = restore /\ fresh' = TRUE /\ queued' = TRUE
    /\ UNCHANGED <<backups, gone, vr, vrSeen, restore, envVars, timer, pc, job, posts, faults>>

VeleroRestoreInformer ==
    /\ vrSeen # vr
    /\ vrSeen' = vr /\ queued' = TRUE
    /\ UNCHANGED <<backups, gone, vr, restore, cached, fresh, envVars, timer, pc, job, posts, faults>>

(* External: how Velero moves a restore on.                                *)
VeleroNext(phase) ==
    CASE phase = "New" -> {"InProgress"} \cup (Outcomes \cap {"Failed"})
      [] phase = "InProgress" ->
            (IF "Completed" \in Outcomes THEN {"Finalizing"} ELSE {})
            \cup (IF "PartiallyFailed" \in Outcomes THEN {"FinalizingPartiallyFailed"} ELSE {})
            \cup (Outcomes \cap {"Failed"})
      [] phase = "Finalizing" -> Outcomes \ {"Failed"}
      [] phase = "FinalizingPartiallyFailed" -> {"PartiallyFailed"}
      [] OTHER -> {}

UnderWay(phase) == phase \in {"InProgress", "Finalizing", "FinalizingPartiallyFailed"}

VeleroStep(id) ==
    /\ \E p \in VeleroNext(vr[id]) :
        /\ p = "InProgress" => Cardinality({i \in Ids : UnderWay(vr[i])}) < VeleroWorkers
        /\ VRChanged([vr EXCEPT ![id] = p])
    /\ queued' = (queued \/ VREvent)
    /\ RestoreUnchanged
    /\ UNCHANGED <<backups, gone, envVars, timer, pc, job, posts, faults>>

VeleroRestoreDeleted(id) ==
    /\ vr[id] # "absent"
    /\ Fault("restoreGone")
    /\ VRChanged([vr EXCEPT ![id] = "absent"])
    /\ queued' = (queued \/ VREvent)
    /\ RestoreUnchanged
    /\ UNCHANGED <<backups, gone, envVars, timer, pc, job, posts>>

BackupSynced(b) ==
    /\ b \in Arriving \ (backups \cup gone)
    /\ backups' = backups \cup {b}
    /\ UNCHANGED <<gone, vr, vrSeen, restore, cached, fresh, envVars, queued, timer, pc, job, posts, faults>>

BackupDeleted(b) ==
    /\ b \in backups
    /\ Fault("backupGone")
    /\ backups' = backups \ {b} /\ gone' = gone \cup {b}
    /\ UNCHANGED <<vr, vrSeen, restore, cached, fresh, envVars, queued, timer, pc, job, posts>>

StorageLost ==
    /\ bsl /\ Fault("bsl")
    /\ bsl' = FALSE
    /\ UNCHANGED <<apiVars, pvcReady, otherActive, queued, timer, pc, job, posts>>

StorageBack ==
    /\ ~bsl
    /\ bsl' = TRUE
    /\ UNCHANGED <<apiVars, pvcReady, otherActive, queued, timer, pc, job, posts, faults>>

PVCsCreated ==
    /\ ~pvcReady
    /\ pvcReady' = TRUE
    /\ UNCHANGED <<apiVars, bsl, otherActive, queued, timer, pc, job, posts, faults>>

OtherStarts ==
    /\ ~otherActive /\ Fault("blocked")
    /\ otherActive' = TRUE
    /\ UNCHANGED <<apiVars, bsl, pvcReady, queued, timer, pc, job, posts>>

OtherEnds ==
    /\ otherActive
    /\ otherActive' = FALSE
    /\ UNCHANGED <<apiVars, bsl, pvcReady, queued, timer, pc, job, posts, faults>>

(* The operator pod restarts: its memory is lost, its caches are listed    *)
(* anew and every Restore is queued.                                       *)
OperatorRestart ==
    /\ Fault("crash")
    /\ Return
    /\ vrSeen' = vr /\ cached' = restore /\ fresh' = TRUE
    /\ queued' = TRUE /\ timer' = FALSE
    /\ UNCHANGED <<backups, gone, vr, restore, envVars, posts>>

Environment ==
    \/ RequeueAfter
    \/ \E spec \in Specs : UserEdit(spec)
    \/ RestoreInformer
    \/ VeleroRestoreInformer
    \/ \E id \in Ids : VeleroStep(id) \/ VeleroRestoreDeleted(id)
    \/ \E b \in BackupTypes \X Cycles : BackupSynced(b) \/ BackupDeleted(b)
    \/ StorageLost \/ StorageBack
    \/ PVCsCreated
    \/ OtherStarts \/ OtherEnds
    \/ OperatorRestart

Init ==
    /\ backups \in InitialBackups /\ gone = {}
    /\ vr = [id \in Ids |-> "absent"] /\ vrSeen = vr
    /\ \E spec \in Specs :
         restore = NewRestore(spec) /\ validateRestore(NewRestore(spec))
    /\ cached = restore /\ fresh = TRUE
    /\ bsl = TRUE /\ pvcReady = FALSE /\ otherActive = FALSE
    /\ queued = TRUE /\ timer = FALSE
    /\ pc = "idle" /\ job = NoJob
    /\ posts = 0 /\ faults = 0

Next == Reconcile \/ Environment

Spec == Init /\ [][Next]_vars

(* The controller's worker keeps running, pending timers fire, informers   *)
(* deliver, Velero works off its queue, the PVC policy creates the PVCs    *)
(* and a lost storage location comes back.  Nothing is assumed of the user.*)
Fairness ==
    /\ WF_vars(Reconcile)
    /\ WF_vars(RequeueAfter)
    /\ WF_vars(RestoreInformer)
    /\ WF_vars(VeleroRestoreInformer)
    /\ WF_vars(\E id \in Ids : VeleroStep(id))
    /\ WF_vars(PVCsCreated)
    /\ WF_vars(StorageBack)

FairSpec == Spec /\ Fairness

-----------------------------------------------------------------------------
(* Properties.                                                             *)

(* Every variable keeps its type; in particular the status only ever names *)
(* cycles and phases of the API.                                           *)
TypeOK ==
    /\ backups \subseteq BackupTypes \X Cycles /\ gone \subseteq BackupTypes \X Cycles
    /\ vr \in [Ids -> VeleroPhases] /\ vrSeen \in [Ids -> VeleroPhases]
    /\ restore \in Restores /\ cached \in Restores /\ fresh \in BOOLEAN
    /\ bsl \in BOOLEAN /\ pvcReady \in BOOLEAN /\ otherActive \in BOOLEAN
    /\ queued \in BOOLEAN /\ timer \in BOOLEAN
    /\ pc \in PCs /\ job \in Jobs
    /\ posts \in 0..PostCap /\ faults \in Nat

(* Finished and FinishedWithErrors are final: whatever a pass started from *)
(* an older copy of the Restore computes, it never overwrites the phase or *)
(* the tracked restore names of a Restore that is done (the early return   *)
(* of Reconcile plus the resourceVersion check of the status update).      *)
TerminalIsFinal ==
    [][restore.phase \in Terminal =>
         restore'.phase = restore.phase /\ restore'.tracked = restore.tracked]_vars

CreatesRestore == \E id \in Ids : vr[id] = "absent" /\ vr'[id] = "New"

(* Once the Restore is done no further Velero restore is created for it.   *)
NoCreateAfterTerminal == [][CreatesRestore => restore.phase \notin Terminal]_vars

(* Finished is reported only when every Velero restore that counts (the    *)
(* tracked ones and their -active variants) has completed without errors.  *)
FinishedSound ==
    restore.phase = "Finished" =>
        \A id \in getLatestVeleroRestores(restore, vr) : vr[id] = "Completed"

(* Finished is reported only when each kind of backup that the spec asks   *)
(* for was restored.                                                       *)
FinishedCoversSpec ==
    restore.phase = "Finished" =>
        \A t \in BackupTypes \ {"ResourcesGeneric"} :
            SpecName(restore.spec, t) # skip =>
                \E c \in Cycles : vr[<<t, c, FALSE>>] = "Completed"

(* A Finished Restore has its completion time, and when it restored the    *)
(* managed clusters the post-restore tasks have run.                       *)
FinishedIsComplete ==
    restore.phase = "Finished" =>
        restore.completed /\ (restore.spec.mc # skip => posts > 0)

(* Managed clusters are activated only after the activation credentials    *)
(* were restored and the PVCs that they ask for exist.                     *)
ActivationGate ==
    [][\A c \in Cycles :
         (/\ vr[<<"ManagedClusters", c, FALSE>>] = "absent"
          /\ vr'[<<"ManagedClusters", c, FALSE>>] = "New"
          /\ job.obj.spec.creds # skip) =>
            /\ pvcReady
            /\ \E d \in Cycles :
                 vr[<<"Credentials", d, TRUE>>] \notin {"absent", "New", "InProgress"}]_vars

(* A sync restore moves a type to an older backup only when the backup it  *)
(* had restored is gone.                                                   *)
SyncNeverRollsBack ==
    [][\A t \in BackupTypes :
         (restore.spec.sync /\ restore'.tracked[t] < restore.tracked[t]) =>
             <<t, restore.tracked[t]>> \notin backups]_vars

(* Enabled is reported only when no tracked Velero restore is waiting,     *)
(* running or failed.                                                      *)
EnabledSound ==
    restore.phase = "Enabled" =>
        \A t \in BackupTypes :
            restore.tracked[t] # NoCycle =>
                vr[<<t, restore.tracked[t], FALSE>>] \notin {"New", "InProgress", "Failed"}

(* Every Restore eventually reaches a final phase (runs whose Velero       *)
(* restores do not fail and whose spec does not ask for sync).             *)
EventuallyDone == <>(restore.phase \in Terminal)

CaughtUp(t) == \A c \in Cycles : <<t, c>> \in backups => restore.tracked[t] >= c

(* As long as the hub has some backup of both, a sync restore catches up   *)
(* with every new backup of credentials and of resources that reaches it.  *)
SyncCatchesUp ==
    []<>((\A t \in {"Resources", "Credentials"} : \E c \in Cycles : <<t, c>> \in backups) =>
            CaughtUp("Resources") /\ CaughtUp("Credentials"))

-----------------------------------------------------------------------------
(* What the status promises, step by step (RestoreContract).               *)

(* The Velero restores the status stands for.                              *)
Counted ==
    {id \in Ids : restore.tracked = NoTracked \/ restore.tracked[id[1]] = id[2]}

WorkOf(phase) ==
    CASE phase = "absent" -> "none"
      [] phase = "Completed" -> "done"
      [] phase \in {"PartiallyFailed", "Failed"} -> "bad"
      [] OTHER -> "open"

Work == [id \in Ids |-> WorkOf(vr[id])]

Contract == INSTANCE RestoreContract WITH
    phase <- restore.phase, counted <- Counted, work <- Work

(* Every step of the controller, of Velero and of the users is one that    *)
(* the contract allows, or changes nothing that it speaks of.              *)
KeepsContract == Contract!Spec

=============================================================================
