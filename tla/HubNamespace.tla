---------------------------- MODULE HubNamespace -----------------------------
(***************************************************************************)
(* The resources that share the operator's namespace on one hub: several   *)
(* Restores, a BackupSchedule, and the InternalHubComponent named          *)
(* cluster-backup.  Only one of the former may be active at a time, and    *)
(* the last may not go before the Restores are finalized.                  *)
(*                                                                         *)
(* The two controllers are one worker each.  The part of Reconcile before  *)
(* isOtherResourcesRunning is modelled call by call; what a pass does      *)
(* with its Velero restores afterwards is one step here and the subject of *)
(* RestoreReconciler (and ScheduleReconciler, for the BackupSchedule).     *)
(***************************************************************************)
EXTENDS Naturals, Sequences, FiniteSets

CONSTANTS
    RestoreNames,  \* names of Restores
    Kinds,         \* specs a Restore is created with: "once" or "passive"
    Acts,          \* what the user or the cluster may do, and which calls may fail
    MaxActs,       \* bound on how often
    MaxLag         \* how many writes the cache of Restores may be behind

ActKinds ==
    {"createRestore", "deleteRestore", "activate", "createSchedule", "pauseSchedule",
     "deleteSchedule", "deleteHub", "collision", "crash", "listError", "scheduleListError"}

ASSUME HubAssumption ==
    /\ RestoreNames # {} /\ IsFiniteSet(RestoreNames)
    /\ Kinds \subseteq {"once", "passive"}
    /\ Acts \subseteq ActKinds
    /\ MaxActs \in Nat
    /\ MaxLag \in Nat

VARIABLES
    log,          \* the Restores: the last entry is in the API server, the first in the cache
    velero,       \* the Velero restores of each Restore
    hub,          \* the InternalHubComponent
    sch,          \* the BackupSchedule
    running,      \* its Velero schedules exist and are not paused
    queue, timers,        \* work queue of the Restore controller
    schQueued, schTimer,  \* ... and of the BackupSchedule controller
    pc, job,      \* the Restore pass in progress
    schPc, schJob,\* the BackupSchedule pass in progress
    acts

restoreVars == <<log, velero>>
schVars == <<sch, running, schQueued, schTimer, schPc, schJob>>
workVars == <<queue, timers, pc, job>>
vars == <<log, velero, hub, sch, running, queue, timers, schQueued, schTimer,
          pc, job, schPc, schJob, acts>>

(* InProgress stands for Started, Running and Error, Enabled also for      *)
(* EnabledError;                                                           *)
(* "activate" is a passive sync Restore edited to restore managed clusters;*)
(* named: Status.VeleroManagedClustersRestoreName is set; blames: the      *)
(* Restore that LastMessage says is active; uid: tells a Restore from a    *)
(* later one of the same name, 0 if there is none.                         *)
Terminal == {"Finished", "FinishedWithErrors"}

Restores ==
    [there: BOOLEAN, kind: {"once", "passive", "activate"},
     phase: {"", "InProgress", "Enabled"} \cup Terminal,
     named: BOOLEAN, blames: SUBSET RestoreNames, fin: BOOLEAN, deleting: BOOLEAN,
     uid: 0..MaxActs]

Objects == [RestoreNames -> Restores]

NoRestore ==
    [there |-> FALSE, kind |-> "once", phase |-> "", named |-> FALSE, blames |-> {},
     fin |-> FALSE, deleting |-> FALSE, uid |-> 0]

(* none, some not finished, all finished, the same two once an edited      *)
(* Restore has one for the managed clusters, deleted but not gone yet.     *)
VeleroStates == {"none", "open", "done", "activating", "activated", "dying"}

Hubs == [there: BOOLEAN, fin: BOOLEAN, deleting: BOOLEAN]

NoHub == [there |-> FALSE, fin |-> FALSE, deleting |-> FALSE]

(* FailedValidation stands for every phase that is not listed.  rev: the   *)
(* user's last write, which makes an update from before it fail.           *)
SchedulePhases == {"", "Enabled", "Paused", "FailedValidation", "BackupCollision"}

BackupSchedules == [there: BOOLEAN, paused: BOOLEAN, phase: SchedulePhases, rev: 0..MaxActs]

NoSchedule == [there |-> FALSE, paused |-> FALSE, phase |-> "", rev |-> 0]

rst == log[Len(log)]
View == log[1]

Listed == {r \in RestoreNames : View[r].there}

-----------------------------------------------------------------------------
(* Writes and the events they cause.                                       *)

Changed(s, t) == {r \in RestoreNames : s[r] # t[r]}

CanWrite == MaxLag = 0 \/ Len(log) <= MaxLag

(* Restores change in the API server; the queue hears of it from the cache.*)
Put(s, queued) ==
    /\ CanWrite
    /\ log' = IF MaxLag = 0 THEN <<s>> ELSE Append(log, s)
    /\ queue' = IF MaxLag = 0 THEN queued \cup Changed(rst, s) ELSE queued

(* An object without finalizers is gone when it is deleted.  A definition  *)
(* whose name ends in _Mutant is a plausible wrong version of the one after*)
(* it; it is used only to show that a property would notice the mistake.   *)
Deleted_Mutant(obj) == IF obj.fin THEN [obj EXCEPT !.phase = "Deleting"] ELSE NoRestore

Deleted(obj) == IF obj.fin THEN [obj EXCEPT !.deleting = TRUE] ELSE NoRestore

DeletedHub(h) == IF h.fin THEN [h EXCEPT !.deleting = TRUE] ELSE NoHub

(* obj: the Restore in memory; base: what it was when it was last read or  *)
(* written; component: the InternalHubComponent as it was read.            *)
Jobs == [name: RestoreNames, obj: Restores, base: Restores, component: Hubs]

NoJob ==
    [name |-> CHOOSE r \in RestoreNames : TRUE, obj |-> NoRestore, base |-> NoRestore,
     component |-> NoHub]

Return == pc' = "idle" /\ job' = NoJob

Act(kind) == kind \in Acts /\ acts < MaxActs /\ acts' = acts + 1

Current == rst[job.name] = job.base

(* validateSyncMode of the webhook, called on every update of a Restore.   *)
validateSyncMode(obj) == obj.kind = "activate" => obj.phase = "Enabled" \/ obj.named

-----------------------------------------------------------------------------
(* The Restore controller.                                                 *)

isBackupScheduleRunning_Mutant ==
    sch.there /\ sch.phase \notin {"BackupCollision", "Paused", "FailedValidation"}

isBackupScheduleRunning == sch.there /\ sch.phase \notin {"BackupCollision", "Paused"}

(* The Restores that stand in the way; the code names the first it finds.  *)
isOtherRestoresRunning_Mutant(name) ==
    {r \in Listed \ {name} : View[r].phase \notin Terminal \cup {"Enabled"}}

isOtherRestoresRunning(name) ==
    {r \in Listed \ {name} : View[r].phase \notin Terminal}

(* Whom the message of isOtherResourcesRunning names: the BackupSchedule   *)
(* ({}) or one other Restore; none at all if the Restore may go on.        *)
isOtherResourcesRunning(name) ==
    IF isBackupScheduleRunning THEN {{}} ELSE {{r} : r \in isOtherRestoresRunning(name)}

(* finalizeRestore: delete the Velero restores and come back until they    *)
(* are gone.                                                               *)
finalizeRestore_Mutant(r) ==
    \/ /\ velero[r] # "none"
       /\ timers' = timers \cup {r}
       /\ Return
       /\ UNCHANGED velero
    \/ /\ velero[r] = "none"
       /\ pc' = "release"
       /\ UNCHANGED <<velero, timers>>

finalizeRestore(r) ==
    \/ /\ velero[r] # "none"
       /\ velero' = [velero EXCEPT ![r] = "dying"]
       /\ timers' = timers \cup {r}
       /\ Return
    \/ /\ velero[r] = "none"
       /\ pc' = "release"
       /\ UNCHANGED <<velero, timers>>

(* Reconcile up to the first write.  getInternalHubResource reads from the *)
(* API server; an InternalHubComponent that is not there is an empty       *)
(* object, whose update fails.                                             *)
Begin(r) ==
    LET obj == View[r]
        read == [name |-> r, obj |-> obj, base |-> obj, component |-> hub]
    IN  /\ pc = "idle" /\ r \in queue
        /\ queue' = queue \ {r}
        /\ \/ /\ ~obj.there
              /\ Return
              /\ UNCHANGED <<velero, timers>>
           \/ /\ obj.there /\ obj.deleting
              /\ finalizeRestore(r)
              /\ velero[r] = "none" => job' = read
           \/ /\ obj.there /\ ~obj.deleting
              /\ job' = read
              /\ pc' = IF hub.deleting THEN "expire" ELSE IF hub.there THEN "protectHub" ELSE "check"
              /\ UNCHANGED <<velero, timers>>
        /\ UNCHANGED <<log, hub, schVars, acts>>

(* addResourcesFinalizer, first half: the InternalHubComponent.  An error  *)
(* is logged and the pass goes on without the Restore's own finalizer;     *)
(* that the component is gone is not an error.                             *)
ProtectHub ==
    /\ pc = "protectHub"
    /\ \/ /\ job.component.fin \/ ~hub.there
          /\ pc' = "protectOwn" /\ UNCHANGED hub
       \/ /\ ~job.component.fin /\ hub = job.component
          /\ hub' = [hub EXCEPT !.fin = TRUE] /\ pc' = "protectOwn"
       \/ /\ ~job.component.fin /\ hub.there /\ hub # job.component
          /\ pc' = "check" /\ UNCHANGED hub
    /\ UNCHANGED <<restoreVars, queue, timers, job, schVars, acts>>

(* addResourcesFinalizer, second half: the Restore.                        *)
ProtectOwn ==
    LET protected == [job.obj EXCEPT !.fin = TRUE]
    IN  /\ pc = "protectOwn"
        /\ pc' = "check"
        /\ \/ /\ ~job.obj.fin /\ Current /\ validateSyncMode(job.obj)
              /\ Put([rst EXCEPT ![job.name] = protected], queue)
              /\ job' = [job EXCEPT !.obj = protected, !.base = protected]
           \/ /\ job.obj.fin \/ ~Current \/ ~validateSyncMode(job.obj)
              /\ UNCHANGED <<log, queue, job>>
        /\ UNCHANGED <<velero, hub, timers, schVars, acts>>

(* The InternalHubComponent is being deleted: so is the Restore.           *)
Expire ==
    /\ pc = "expire"
    /\ IF rst[job.name].there /\ ~rst[job.name].deleting
       THEN Put([rst EXCEPT ![job.name] = Deleted(@)], queue)
       ELSE UNCHANGED <<log, queue>>
    /\ Return
    /\ UNCHANGED <<velero, hub, timers, schVars, acts>>

(* A completed Restore is left alone; one that finds another active        *)
(* resource is ignored for good.  If the BackupSchedules cannot be listed  *)
(* the pass is repeated, if the Restores cannot it goes on.                *)
Check ==
    /\ pc = "check"
    /\ \/ /\ job.obj.phase \in Terminal
          /\ Return /\ UNCHANGED <<queue, acts>>
       \/ /\ job.obj.phase \notin Terminal
          /\ \E other \in isOtherResourcesRunning(job.name) :
               job' = [job EXCEPT !.obj.phase = "FinishedWithErrors", !.obj.blames = other]
          /\ pc' = "write" /\ UNCHANGED <<queue, acts>>
       \/ /\ job.obj.phase \notin Terminal /\ isOtherResourcesRunning(job.name) = {}
          /\ pc' = "work" /\ UNCHANGED <<job, queue, acts>>
       \/ /\ job.obj.phase \notin Terminal /\ Act("listError")
          /\ queue' = queue \cup {job.name} /\ Return
       \/ /\ job.obj.phase \notin Terminal /\ ~isBackupScheduleRunning /\ Act("listError")
          /\ pc' = "work" /\ UNCHANGED <<job, queue>>
    /\ UNCHANGED <<restoreVars, hub, timers, schVars>>

(* What the rest of the pass can make of the Restore.  An edited Restore   *)
(* still has to create the Velero restore of the managed clusters.         *)
Activates(obj, v) == obj.kind = "activate" /\ v \in {"none", "open", "done"}

(* Velero restores are created for the first time, for new backups or to   *)
(* activate the managed clusters.                                          *)
Creates(obj, v) ==
    \/ v = "none"
    \/ obj.phase = "Enabled" /\ obj.kind = "passive"
    \/ Activates(obj, v)

Reported(obj, v) ==
    CASE obj.phase = "Enabled" -> {"Enabled"}
      [] obj.phase # "Enabled" /\ v \notin {"done", "activated"} -> {"InProgress"}
      [] obj.phase # "Enabled" /\ v \in {"done", "activated"} ->
            IF obj.kind = "passive" THEN {"Enabled"} ELSE Terminal

Waits(obj, v) == Activates(obj, v) /\ obj.phase = "InProgress"

(* Before the managed clusters an edited Restore waits for the credentials *)
(* that activate them and for PVCs; their restore is named only when it is *)
(* created anew.  Otherwise the pass reports how the Velero restores stand.*)
Work ==
    LET r == job.name
    IN  /\ pc = "work"
        /\ \/ /\ Creates(job.obj, velero[r])
              /\ velero' = [velero EXCEPT ![r] =
                    IF Activates(job.obj, @) THEN "activating" ELSE "open"]
              /\ job' = [job EXCEPT
                    !.obj.named = @ \/ job.obj.kind = "activate",
                    !.obj.phase = IF job.obj.kind = "passive" /\ @ = "Enabled"
                                  THEN @ ELSE "InProgress"]
              /\ queue' = queue \cup {r}
           \/ /\ Activates(job.obj, velero[r])
              /\ velero' = [velero EXCEPT ![r] = "open"] \/ UNCHANGED velero
              /\ job' = [job EXCEPT !.obj.phase = "InProgress"]
              /\ UNCHANGED queue
           \/ /\ velero[r] # "none" /\ ~Activates(job.obj, velero[r])
              /\ \E p \in Reported(job.obj, velero[r]) : job' = [job EXCEPT !.obj.phase = p]
              /\ UNCHANGED <<velero, queue>>
        /\ pc' = "write"
        /\ UNCHANGED <<log, hub, timers, schVars, acts>>

(* The status update.  A Restore in sync, or waiting, is looked at again   *)
(* later.                                                                  *)
WriteStatus ==
    LET r == job.name
    IN  /\ pc = "write"
        /\ \/ /\ Current
              /\ IF job.obj = job.base THEN UNCHANGED <<log, queue>>
                 ELSE Put([rst EXCEPT ![r] = job.obj], queue)
              /\ timers' = IF job.obj.phase = "Enabled" \/ Waits(job.obj, velero[r])
                           THEN timers \cup {r} ELSE timers
           \/ /\ ~Current
              /\ queue' = queue \cup {r}
              /\ UNCHANGED <<log, timers>>
        /\ Return
        /\ UNCHANGED <<velero, hub, schVars, acts>>

IsLastRestore_Mutant == TRUE

IsLastRestore == Cardinality(Listed) = 1

(* removeResourcesFinalizer, first half: the component's finalizer goes    *)
(* when the list shows one Restore; without a list the pass is repeated.   *)
Release ==
    /\ pc = "release"
    /\ \/ /\ Act("listError")
          /\ queue' = queue \cup {job.name}
          /\ Return /\ UNCHANGED hub
       \/ /\ ~(IsLastRestore /\ job.component.fin) \/ ~hub.there
          /\ pc' = "drop" /\ UNCHANGED <<hub, queue, job, acts>>
       \/ /\ IsLastRestore /\ job.component.fin /\ hub = job.component
          /\ hub' = IF hub.deleting THEN NoHub ELSE [hub EXCEPT !.fin = FALSE]
          /\ queue' = IF hub.deleting THEN queue \cup Listed ELSE queue
          /\ pc' = "drop" /\ UNCHANGED <<job, acts>>
       \/ /\ IsLastRestore /\ job.component.fin /\ hub.there /\ hub # job.component
          /\ queue' = queue \cup {job.name}
          /\ Return /\ UNCHANGED <<hub, acts>>
    /\ UNCHANGED <<restoreVars, timers, schVars>>

(* Second half: the Restore's own finalizer, and with it the Restore.      *)
Drop ==
    /\ pc = "drop"
    /\ \/ /\ Current /\ validateSyncMode(job.obj)
          /\ Put([rst EXCEPT ![job.name] = NoRestore], queue)
       \/ /\ ~(Current /\ validateSyncMode(job.obj))
          /\ queue' = queue \cup {job.name}
          /\ UNCHANGED log
    /\ Return
    /\ UNCHANGED <<velero, hub, timers, schVars, acts>>

RestoreWorker ==
    \/ \E r \in RestoreNames : Begin(r)
    \/ ProtectHub \/ ProtectOwn \/ Expire \/ Check \/ Work \/ WriteStatus
    \/ Release \/ Drop

-----------------------------------------------------------------------------
(* The BackupSchedule controller.                                          *)

isRestoreRunning == \E r \in Listed : View[r].phase \notin Terminal

NoSchJob == [base |-> NoSchedule, target |-> ""]

(* isValidateConfiguration, the paused branch and the collision check.  A  *)
(* list of Restores that fails shows none running.                         *)
ScheduleBegin ==
    LET decide(point, target) == schPc' = point /\ schJob' = [base |-> sch, target |-> target]
    IN  /\ schPc = "idle" /\ schQueued
        /\ schQueued' = FALSE
        /\ \/ /\ ~sch.there \/ sch.phase = "BackupCollision"
              /\ UNCHANGED <<schPc, schJob, acts>>
           \/ /\ sch.there /\ sch.phase # "BackupCollision"
              /\ \/ /\ isRestoreRunning /\ ~sch.paused
                    /\ decide("write", "FailedValidation") /\ UNCHANGED acts
                 \/ /\ sch.paused
                    /\ decide("pause", "Paused") /\ UNCHANGED acts
                 \/ /\ ~isRestoreRunning /\ ~sch.paused
                    /\ decide("run", "Enabled") /\ UNCHANGED acts
                 \/ /\ isRestoreRunning /\ ~sch.paused
                    /\ Act("scheduleListError")
                    /\ decide("run", "Enabled")
                 \/ /\ ~isRestoreRunning /\ ~sch.paused /\ running
                    /\ Act("collision")
                    /\ decide("pause", "BackupCollision")
        /\ UNCHANGED <<restoreVars, hub, sch, running, schTimer, workVars>>

(* The Velero schedules are created or resumed, or paused.                 *)
ScheduleApply ==
    /\ schPc \in {"pause", "run"}
    /\ running' = (schPc = "run")
    /\ schPc' = "write"
    /\ UNCHANGED <<restoreVars, hub, sch, schQueued, schTimer, schJob, workVars, acts>>

ScheduleWrite ==
    /\ schPc = "write"
    /\ \/ /\ sch = schJob.base
          /\ sch' = [sch EXCEPT !.phase = schJob.target]
          /\ schTimer' = (schTimer \/ schJob.target \in {"Enabled", "FailedValidation"})
          /\ UNCHANGED schQueued
       \/ /\ sch # schJob.base
          /\ schQueued' = TRUE /\ UNCHANGED <<sch, schTimer>>
    /\ schPc' = "idle" /\ schJob' = NoSchJob
    /\ UNCHANGED <<restoreVars, hub, running, workVars, acts>>

ScheduleWorker == ScheduleBegin \/ ScheduleApply \/ ScheduleWrite

-----------------------------------------------------------------------------
(* Queues, caches, Velero and the garbage collector.                       *)

Deliver ==
    /\ Len(log) > 1
    /\ log' = Tail(log)
    /\ queue' = queue \cup Changed(log[1], log[2])
    /\ UNCHANGED <<velero, hub, schVars, timers, pc, job, acts>>

RequeueAfter(r) ==
    /\ r \in timers
    /\ timers' = timers \ {r} /\ queue' = queue \cup {r}
    /\ UNCHANGED <<restoreVars, hub, schVars, pc, job, acts>>

ScheduleRequeueAfter ==
    /\ schTimer
    /\ schTimer' = FALSE /\ schQueued' = TRUE
    /\ UNCHANGED <<restoreVars, hub, sch, running, schPc, schJob, workVars, acts>>

(* External: Velero finishes its restores and lets go of deleted ones, and *)
(* what belongs to a deleted resource is collected.                        *)
VeleroStep(r) ==
    /\ \/ velero[r] = "open" /\ velero' = [velero EXCEPT ![r] = "done"]
       \/ velero[r] = "activating" /\ velero' = [velero EXCEPT ![r] = "activated"]
       \/ velero[r] = "dying" /\ velero' = [velero EXCEPT ![r] = "none"]
       \/ velero[r] \in {"open", "done", "activating", "activated"} /\ ~rst[r].there
          /\ velero' = [velero EXCEPT ![r] = "dying"]
    /\ queue' = queue \cup {r}
    /\ UNCHANGED <<log, hub, schVars, timers, pc, job, acts>>

SchedulesCollected ==
    /\ running /\ ~sch.there
    /\ running' = FALSE
    /\ UNCHANGED <<restoreVars, hub, sch, schQueued, schTimer, schPc, schJob, workVars, acts>>

-----------------------------------------------------------------------------
(* The user and the cluster.                                               *)

CreateRestore(r, kind) ==
    /\ ~rst[r].there /\ velero[r] = "none"
    /\ Act("createRestore")
    /\ Put([rst EXCEPT ![r] = [NoRestore EXCEPT !.there = TRUE, !.kind = kind, !.uid = acts']], queue)
    /\ UNCHANGED <<velero, hub, schVars, timers, pc, job>>

DeleteRestore(r) ==
    /\ rst[r].there /\ ~rst[r].deleting
    /\ Act("deleteRestore")
    /\ Put([rst EXCEPT ![r] = Deleted(@)], queue)
    /\ UNCHANGED <<velero, hub, schVars, timers, pc, job>>

(* A passive Restore in sync is asked to restore the managed clusters.     *)
Activate(r) ==
    LET edited == [rst[r] EXCEPT !.kind = "activate"]
    IN  /\ rst[r].there /\ rst[r].kind = "passive" /\ validateSyncMode(edited)
        /\ Act("activate")
        /\ Put([rst EXCEPT ![r] = edited], queue)
        /\ UNCHANGED <<velero, hub, schVars, timers, pc, job>>

ChangeSchedule ==
    /\ \/ /\ ~sch.there /\ Act("createSchedule")
          /\ \E p \in BOOLEAN : sch' = [NoSchedule EXCEPT !.there = TRUE, !.paused = p, !.rev = acts']
       \/ /\ sch.there /\ Act("pauseSchedule")
          /\ sch' = [sch EXCEPT !.paused = ~@, !.rev = acts']
       \/ /\ sch.there /\ Act("deleteSchedule")
          /\ sch' = NoSchedule
    /\ schQueued' = TRUE
    /\ UNCHANGED <<restoreVars, hub, running, schTimer, schPc, schJob, workVars>>

(* mapFuncTriggerFinalizers: its deletion queues every Restore.            *)
DeleteHub_Mutant ==
    /\ hub.there /\ ~hub.deleting
    /\ Act("deleteHub")
    /\ hub' = DeletedHub(hub)
    /\ UNCHANGED <<restoreVars, schVars, workVars>>

DeleteHub ==
    /\ hub.there /\ ~hub.deleting
    /\ Act("deleteHub")
    /\ hub' = DeletedHub(hub)
    /\ queue' = IF hub.fin THEN queue \cup Listed ELSE queue
    /\ UNCHANGED <<restoreVars, schVars, timers, pc, job>>

(* Both controllers lose their passes and timers, read everything anew and *)
(* queue it.                                                               *)
OperatorRestart ==
    /\ Act("crash")
    /\ log' = <<rst>>
    /\ queue' = {r \in RestoreNames : rst[r].there} /\ timers' = {}
    /\ schQueued' = sch.there /\ schTimer' = FALSE
    /\ pc' = "idle" /\ job' = NoJob
    /\ schPc' = "idle" /\ schJob' = NoSchJob
    /\ UNCHANGED <<velero, hub, sch, running>>

Environment ==
    \/ \E r \in RestoreNames : RequeueAfter(r) \/ VeleroStep(r)
    \/ Deliver
    \/ ScheduleRequeueAfter
    \/ SchedulesCollected
    \/ \E r \in RestoreNames, kind \in Kinds : CreateRestore(r, kind)
    \/ \E r \in RestoreNames : DeleteRestore(r) \/ Activate(r)
    \/ ChangeSchedule
    \/ DeleteHub
    \/ OperatorRestart

Init ==
    /\ log = <<[r \in RestoreNames |-> NoRestore]>>
    /\ velero = [r \in RestoreNames |-> "none"]
    /\ hub = [there |-> TRUE, fin |-> FALSE, deleting |-> FALSE]
    /\ sch = NoSchedule /\ running = FALSE
    /\ queue = {} /\ timers = {} /\ schQueued = FALSE /\ schTimer = FALSE
    /\ pc = "idle" /\ job = NoJob /\ schPc = "idle" /\ schJob = NoSchJob
    /\ acts = 0

Next == RestoreWorker \/ ScheduleWorker \/ Environment

Spec == Init /\ [][Next]_vars

(* Workers run, caches catch up, timers fire, Velero works.  No user acts. *)
Fairness ==
    /\ WF_vars(ScheduleWorker)
    /\ WF_vars(Deliver)
    /\ WF_vars(ScheduleRequeueAfter)
    /\ WF_vars(SchedulesCollected)
    /\ WF_vars(ProtectHub \/ ProtectOwn \/ Expire \/ Check \/ Work \/ WriteStatus \/ Release \/ Drop)
    /\ \A r \in RestoreNames :
         WF_vars(RequeueAfter(r)) /\ WF_vars(VeleroStep(r)) /\ SF_vars(Begin(r))

FairSpec == Spec /\ Fairness

-----------------------------------------------------------------------------
(* Properties.                                                             *)

TypeOK ==
    /\ log \in Seq(Objects) /\ Len(log) \in 1..(MaxLag + 1)
    /\ velero \in [RestoreNames -> VeleroStates]
    /\ hub \in Hubs /\ sch \in BackupSchedules /\ running \in BOOLEAN
    /\ queue \subseteq RestoreNames /\ timers \subseteq RestoreNames
    /\ schQueued \in BOOLEAN /\ schTimer \in BOOLEAN
    /\ pc \in {"idle", "protectHub", "protectOwn", "expire", "check", "work", "write",
               "release", "drop"}
    /\ job \in Jobs
    /\ schPc \in {"idle", "pause", "run", "write"}
    /\ schJob \in [base: BackupSchedules, target: SchedulePhases]
    /\ acts \in 0..MaxActs

InProgress(r) == rst[r].there /\ rst[r].phase \in {"InProgress", "Enabled"}

(* Whatever the order in which Restores are created and looked at, and     *)
(* however old the list that a pass looks at, at most one Restore is under *)
(* way at a time by its phase.                                             *)
OneInProgress == \A r, q \in RestoreNames : InProgress(r) /\ InProgress(q) => r = q

(* Of two Restores that are created at the same time one is carried out:   *)
(* they are never both ignored, each because of the other.                 *)
NoMutualBlame ==
    \A r, q \in RestoreNames : q \in rst[r].blames => r \notin rst[q].blames

(* Two Restores never have Velero restores under way at the same time.     *)
OneExecuting ==
    \A r, q \in RestoreNames :
        {velero[r], velero[q]} \subseteq {"open", "activating"} => r = q

(* As long as a Restore that is not being deleted carries the finalizer,   *)
(* the InternalHubComponent carries it as well and cannot go.              *)
HubHeld ==
    \A r \in RestoreNames : rst[r].fin /\ ~rst[r].deleting /\ hub.there => hub.fin

Refused(r) == ~validateSyncMode(rst[r])

(* A deleted Restore goes: its Velero restores are terminated and its      *)
(* finalizer is removed, unless the webhook refuses the removal.           *)
DeletedGoesAway == \A r \in RestoreNames : rst[r].deleting ~> ~rst[r].deleting \/ Refused(r)

(* ... which it never does: a deleted Restore always goes.                 *)
DeletedAlwaysGoes == \A r \in RestoreNames : rst[r].deleting ~> ~rst[r].deleting

(* Deleting the InternalHubComponent deletes every Restore that exists, as *)
(* far as the webhook lets it.                                             *)
HubDeletionClears ==
    \A r \in RestoreNames : hub.deleting /\ rst[r].there ~> ~rst[r].there \/ Refused(r)

(* Once the last Restore is gone the InternalHubComponent is free to go.   *)
LastRestoreReleasesHub == []<>(hub.fin => \E r \in RestoreNames : rst[r].there)

(* A Restore under way and a running schedule do not stay side by side.    *)
OverlapEnds == []<>~(running /\ \E r \in RestoreNames : InProgress(r))

=============================================================================
